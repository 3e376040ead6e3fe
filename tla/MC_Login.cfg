SPECIFICATION LoginSpec
CONSTANTS
    Worlds <- MCWorlds
    URLs <- MCURLs
    Me = Me
    Agent = "ssh_agent"
    Keys = {"id_ecdsa", "id_rsa", "mine", "shared"}
    Passwords = {"pw", "old"}
    None = None
INVARIANTS
    LoginTypeOK
    AskedInVain
    RetryGetsIn
