SPECIFICATION Spec
CONSTANTS
    root = root
    ann = ann
    mail = mail
    Worker = {w1, w2}
    Browser = {b1}
    Ip = {i1, i2}
    AllowedIp = {i1}
    LocalName = {ann}
    SsoName = {mail}
    NoName = NoName
    Env <- MCEnv
    Boot <- MCBoot
    DefaultRole = "none"
    MaxAttempts = 2
    MaxUser = 3
    Bound <- MCBound
INVARIANT TablesSound
INVARIANT ServedAsOneself
 
SYMMETRY MCSymmetry
