----------------------------- MODULE SessionStore -----------------------------
(***************************************************************************)
(* What the sessions of an account promise (GLOSSARY.md, session           *)
(* revocation): a session stands for the state of the account it was       *)
(* opened in.  A change of that state ends it in the same step, and makes  *)
(* void the sign-ins that have seen the state before; only a sign-in that  *)
(* has seen the new one opens a session again.                             *)
(***************************************************************************)

CONSTANTS Credentials, SignIns

VARIABLES
    open,         \* may the user sign in?
    credentials,  \* the password and the grants of the account
    valid,        \* the credentials that the session was opened with, if any
    pending       \* the sign-ins that have seen the account as it is

Init ==
    /\ open \in BOOLEAN
    /\ credentials \in Credentials
    /\ valid = {}
    /\ pending = {}

BeginSignIn(s) ==
    /\ open
    /\ pending' = pending \cup {s}
    /\ UNCHANGED <<open, credentials, valid>>

SignIn(s) ==
    /\ s \in pending
    /\ valid' = {credentials}
    /\ pending' = pending \ {s}
    /\ UNCHANGED <<open, credentials>>

GiveUp(s) ==
    /\ pending' = pending \ {s}
    /\ UNCHANGED <<open, credentials, valid>>

SignOut ==
    /\ valid' = {}
    /\ UNCHANGED <<open, credentials, pending>>

ChangeAccount ==
    /\ open' \in BOOLEAN
    /\ credentials' \in Credentials
    /\ valid' = {}
    /\ pending' = {}

Next ==
    \/ \E s \in SignIns : BeginSignIn(s) \/ SignIn(s) \/ GiveUp(s)
    \/ SignOut
    \/ ChangeAccount

Spec == Init /\ [][Next]_<<open, credentials, valid, pending>>
=============================================================================
