------------------------------ MODULE AppConfig ------------------------------
(***************************************************************************)
(* What a process makes of its environment and the .env file, or why it    *)
(* does not start.  An address is a person and whether it is written with  *)
(* capital letters; a password a word of some length with so much blank    *)
(* space around it; a duration an amount of a unit, negative if it is not  *)
(* written as one.                                                         *)
(***************************************************************************)
EXTENDS Integers

CONSTANTS
    People,     \* who has an address
    Words,      \* what passwords are made of
    Unset,      \* a variable that is not set
    None,       \* nobody, nothing
    Refused     \* the configuration of a process that does not start

Addresses == [person : People, capital : BOOLEAN]
Lower(address) == [address EXCEPT !.capital = FALSE]

MinPassword == 12
Trimmed(password) == [password EXCEPT !.padding = 0]
LongEnough(password) == password.length + password.padding >= MinPassword

SecondsPer == [s |-> 1, m |-> 60, h |-> 3600, d |-> 86400]
Durations == [amount : Int, unit : DOMAIN SecondsPer]
Duration(amount, unit) == [amount |-> amount, unit |-> unit]
Malformed == Duration(-1, "s")
Seconds(duration) == duration.amount * SecondsPer[duration.unit]
MaxAccessTtl == 24 * 60 * 60

(* The variables this model tells apart.                                    *)
Environment(nodeEnv, accessTtl, refreshTtl, email, password) ==
    [nodeEnv |-> nodeEnv, accessTtl |-> accessTtl, refreshTtl |-> refreshTtl,
     adminEmail |-> email, adminPassword |-> password,
     swaggerEnabled |-> Unset, swaggerLogin |-> Unset, allowInProduction |-> Unset]

Defaults ==
    [nodeEnv |-> "development", accessTtl |-> Duration(10, "m"),
     refreshTtl |-> Duration(30, "d"), adminEmail |-> Unset,
     adminPassword |-> Unset, swaggerEnabled |-> "false",
     swaggerLogin |-> Unset, allowInProduction |-> "false"]

(* The file fills in what the environment does not set, and the schema what *)
(* neither of them sets.                                                    *)
Over(env, rest) == [k \in DOMAIN env |-> IF env[k] = Unset THEN rest[k] ELSE env[k]]
Raw(env, file) == Over(Over(env, file), Defaults)

(* The schema has asked for twelve characters before the value is trimmed.   *)
AdminPassword(raw) ==
    IF raw.adminPassword = Unset \/ raw.adminPassword.length = 0
    THEN None ELSE Trimmed(raw.adminPassword)

(* The lifetimes compared as they are written, whatever their units.         *)
LifetimesFitAsWritten(raw) ==
    /\ raw.accessTtl.amount >= 0 /\ raw.refreshTtl.amount >= 0
    /\ Seconds(raw.accessTtl) \in 1..MaxAccessTtl
    /\ raw.accessTtl.unit = raw.refreshTtl.unit
         => raw.accessTtl.amount <= raw.refreshTtl.amount

LifetimesFit(raw) ==
    /\ raw.accessTtl.amount >= 0 /\ raw.refreshTtl.amount >= 0
    /\ Seconds(raw.accessTtl) \in 1..MaxAccessTtl
    /\ Seconds(raw.accessTtl) <= Seconds(raw.refreshTtl)

Accepted(raw) ==
    /\ raw.adminPassword # Unset => LongEnough(raw.adminPassword)
    /\ raw.swaggerEnabled = "true" => raw.swaggerLogin # Unset
    /\ (raw.adminEmail # Unset) = (AdminPassword(raw) # None)
    /\ LifetimesFit(raw)

(* given is what the operator wrote, for the properties.                     *)
Admin(raw) ==
    IF AdminPassword(raw) = None THEN None
    ELSE [email |-> raw.adminEmail, password |-> AdminPassword(raw),
          given |-> raw.adminPassword]

Config(env, file) ==
    LET raw == Raw(env, file)
    IN  IF ~Accepted(raw) THEN Refused
        ELSE [accessTtl |-> Seconds(raw.accessTtl),
              refreshTtl |-> Seconds(raw.refreshTtl),
              admin |-> Admin(raw),
              maintenance |-> \/ raw.nodeEnv # "production"
                              \/ raw.allowInProduction = "true"]
=============================================================================
