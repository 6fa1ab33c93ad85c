SPECIFICATION MCSpec
CONSTANTS
    None = None
    NoMail = NoMail
    Workers = {w1, w2}
    Couriers = {d1, d2}
    w1 = w1
    u1 = u1
    c1 = c1
    Users = {u1, u2}
    Emails = {e1, e2}
    Codes = {c1, c2}
    PutEmails = {e2}
    Settable = {FALSE}
    Mails <- AllMails
    MaxDepth = 2
    Patience = 1
    MaxKills = 1
    MaxMails = 1
INVARIANTS
    TypeOK
    VerifiableUnlessHarmed
    SendsAreOwed
PROPERTIES
    MailSettles
