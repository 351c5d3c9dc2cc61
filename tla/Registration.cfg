\* Two requests or seeds, one person with two passwords, eight environments.
SPECIFICATION Spec
CONSTANTS
    ann = ann
    other = other
    secret = secret
    blanks = blanks
    demo = demo
    temporary = temporary
    s1 = s1
    s2 = s2
    People = {ann}
    Words = {secret, other, blanks, demo, temporary}
    Unset = Unset
    None = None
    Refused = Refused
    Passwords <- MCPasswords
    Environments <- MCEnvironments
    File <- MCFile
    DemoPeople = {ann}
    DemoPassword <- MCDemoPassword
    TemporaryPassword <- MCTemporaryPassword
    LongestSpan = 100000000
    Slots = {s1, s2}
SYMMETRY Symmetry
INVARIANTS TypeOK OnePersonOneAccount GivenCredentialsOpen LifetimesBounded
PROPERTY RegistrationTakesNothingOver
