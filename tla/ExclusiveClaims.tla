--------------------------- MODULE ExclusiveClaims ---------------------------
(***************************************************************************)
(* What the session registry of GHPServer promises about one kind of       *)
(* resource (account names, or hardware ids): sessions claim resources,    *)
(* and while the "multisession" setting is off no claim is granted on a    *)
(* resource that another session holds.  The setting may change at any     *)
(* time, and a change of the setting revokes nothing.                      *)
(***************************************************************************)
CONSTANTS Holder, Resource

VARIABLES claims,     \* the pairs <<holder, resource>> granted
          exclusive   \* TRUE while a resource may have one holder only

vars == <<claims, exclusive>>

TypeOK ==
    /\ claims \subseteq Holder \X Resource
    /\ exclusive \in BOOLEAN

HeldByOther(h, r) == \E other \in Holder \ {h} : <<other, r>> \in claims

Init ==
    /\ claims = {}
    /\ exclusive \in BOOLEAN

\* h claims r and keeps what it holds.
Claim(h, r) ==
    /\ exclusive => ~HeldByOther(h, r)
    /\ claims' = claims \cup {<<h, r>>}
    /\ UNCHANGED exclusive

\* h claims r in place of what it holds.
Switch(h, r) ==
    /\ exclusive => ~HeldByOther(h, r)
    /\ claims' = {c \in claims : c[1] # h} \cup {<<h, r>>}
    /\ UNCHANGED exclusive

\* h gives up all it holds.
Release(h) ==
    /\ claims' = {c \in claims : c[1] # h}
    /\ UNCHANGED exclusive

Reconfigure ==
    /\ exclusive' \in BOOLEAN
    /\ UNCHANGED claims

Next ==
    \/ \E h \in Holder, r \in Resource : Claim(h, r) \/ Switch(h, r)
    \/ \E h \in Holder : Release(h)
    \/ Reconfigure

Spec == Init /\ [][Next]_vars
=============================================================================
