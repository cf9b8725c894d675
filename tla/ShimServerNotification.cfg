SPECIFICATION Spec
CONSTANTS
    r1 = r1
    r2 = r2
    Requests = {r1, r2}
    Shapes <- Notifications
    QueueCap = 2
    NotSent = NotSent
INVARIANT
    NotificationIsAccepted
