------------------------------- MODULE OneShot -------------------------------
(***************************************************************************)
(* What the provider promises about a call that must not be repeated,      *)
(* without saying how: every call has a log in which its intent is written *)
(* before it is made, and its outcome afterwards.  A process that finds an *)
(* intent without an outcome stays away from the call for good.            *)
(*                                                                         *)
(* Bootstrap and ConfigurationApply implement this with the                *)
(* external-create annotations of a resource as the log; see               *)
(* KeepsThePromise there.                                                  *)
(***************************************************************************)
CONSTANTS
    Calls,     \* the calls to make
    Targets,   \* the systems they are made to
    TargetOf   \* the target of each call

VARIABLES
    log,       \* the last entry of each call's log
    logged,    \* the calls with a success somewhere in their log
    answered,  \* the calls that were answered without error
    up         \* the targets seen at work

vars == <<log, logged, answered, up>>

Entries == {"none", "pending", "succeeded", "failed"}

Init ==
    /\ log = [c \in Calls |-> "none"]
    /\ logged = {}
    /\ answered = {}
    /\ up = {}

Write(c, entry) == log' = [log EXCEPT ![c] = entry]

Intend(c) ==
    /\ log[c] # "pending"
    /\ c \notin logged
    /\ Write(c, "pending")
    /\ UNCHANGED <<logged, answered, up>>

\* The call is answered: once, and with its intent in the log.
Answer(c) ==
    /\ log[c] = "pending"
    /\ c \notin answered
    /\ answered' = answered \cup {c}
    /\ UNCHANGED <<log, logged, up>>

\* Success is logged for an answered call, or one whose target is at work anyway.
Succeed(c) ==
    /\ log[c] = "pending"
    /\ c \in answered \/ TargetOf[c] \in up
    /\ Write(c, "succeeded")
    /\ logged' = logged \cup {c}
    /\ UNCHANGED <<answered, up>>

\* Failure is logged only for a call that was never answered.
GiveUp(c) ==
    /\ log[c] = "pending"
    /\ c \notin answered
    /\ Write(c, "failed")
    /\ UNCHANGED <<logged, answered, up>>

ComeUp(t) == t \notin up /\ up' = up \cup {t} /\ UNCHANGED <<log, logged, answered>>

Next ==
    \/ \E c \in Calls : Intend(c) \/ Answer(c) \/ Succeed(c) \/ GiveUp(c)
    \/ \E t \in Targets : ComeUp(t)

Spec == Init /\ [][Next]_vars

----------------------------------------------------------------------------
(* What follows from it *)

\* An answer leaves a trace for ever: it is in the log, or the intent still is.
AnsweredIsLogged == \A c \in answered : log[c] = "pending" \/ c \in logged

\* A call that was answered is never intended again.
NeverAgain == [][\A c \in answered : log'[c] = "pending" => log[c] = "pending"]_vars
=============================================================================
