CONSTANTS
    d1 = d1
    d2 = d2
    l1 = l1
    l2 = l2
    a1 = a1
    a2 = a2
    MailDomains = {d1, d2}
    DomainOwner <- MCDomainOwner
    Logins = {l1, l2}
    LoginOwner <- MCLoginOwner
    Accounts = {a1, a2}
    Months = 2
    MaxChanges = 3
    MaxAttempts = 2
    MaxFailures = 2
    MaxEvents = 4
    MaxLines = 2
    MeterChanges = 1
    MeterFailures = 1
    Handlers = {h1, h2}
    Days = {0, 1}
    Limit = 1
    MaxMessages = 3
SPECIFICATION HostingSpec
SYMMETRY MCSymmetry
INVARIANTS
    HostingTypeOK
    
    
    ChangeLostOnlyByOverlap
    
    
    MailSignedWithServedKey
    DailyLimitKept
    DatabasePasswordOpens
    
    
    
CHECK_DEADLOCK FALSE
