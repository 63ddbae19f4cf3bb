---------------------------- MODULE AtomicReload ----------------------------
(***************************************************************************)
(* What a reload transaction promises the running program, without the     *)
(* protocol that delivers it: a prepared offer takes effect on every       *)
(* function entry it names at once, or on none.  The only exception is the *)
(* fatal case of include/neko/session.hpp: some entries changed, and no    *)
(* later transaction of that session may touch anything.                   *)
(***************************************************************************)

CONSTANTS Entries,   \* function entries of the running program
          Code,      \* places fresh code can be installed at
          Owners,    \* whoever may hold one prepared offer
          Baseline,  \* an entry that still runs the code it was linked with
          Foreign,   \* an entry somebody else has redirected
          MayMisreport  \* may an offer that took effect be called rejected?

VARIABLES live,      \* what a call through each entry reaches
          offer,     \* the redirects each owner has prepared
          broken,    \* the session is unusable
          told       \* what the host was told of the last transaction

vars == <<live, offer, broken, told>>

Outcomes == {"none", "applied", "rejected", "fatal"}

TypeOK == /\ live \in [Entries -> Code \cup {Baseline, Foreign}]
          /\ offer \in [Owners -> SUBSET (Entries \X Code)]
          /\ broken \in BOOLEAN
          /\ told \in Outcomes

Init == /\ live = [e \in Entries |-> Baseline]
        /\ offer = [o \in Owners |-> {}]
        /\ broken = FALSE
        /\ told = "none"

OnlyOffer(o) == \A p \in Owners \ {o} : offer'[p] = offer[p]

Consumed(o) == offer'[o] = {} /\ OnlyOffer(o)

Rewritten == live' \in [Entries -> Code \cup {Baseline, Foreign}]

\* One target at most for an entry.
OneTarget(redirects) ==
  \A p, q \in redirects : p[1] = q[1] => p[2] = q[2]

\* A new offer supersedes the uncommitted one of the same owner; the empty
\* offer withdraws it.  Nothing live changes.
Offer(o) == /\ OneTarget(offer'[o])
            /\ OnlyOffer(o)
            /\ UNCHANGED <<live, broken, told>>

\* Every entry the offer names is redirected, every other one is left alone.
Apply(o) ==
  /\ ~broken
  /\ Rewritten
  /\ \A e \in Entries :
        \/ <<e, live'[e]>> \in offer[o]
        \/ live'[e] = live[e] /\ \A c \in Code : <<e, c>> \notin offer[o]
  /\ Consumed(o)
  /\ told' = "applied" \/ (MayMisreport /\ told' = "rejected")
  /\ UNCHANGED broken

\* A rejected offer leaves every entry alone.
Reject(o) == /\ Consumed(o)
             /\ told' = "rejected"
             /\ UNCHANGED <<live, broken>>

\* The fatal case: an entry holds either its old or its new target.
Break(o) == /\ ~broken
            /\ Rewritten
            /\ \A e \in Entries :
                  live'[e] = live[e] \/ <<e, live'[e]>> \in offer[o]
            /\ Consumed(o)
            /\ broken' = TRUE
            /\ told' = "fatal"

\* Another party of the process takes an entry nobody has redirected.
Intrude(e) == /\ live[e] = Baseline
              /\ live' = [live EXCEPT ![e] = Foreign]
              /\ UNCHANGED <<offer, broken, told>>

\* The session goes away: its redirects deliberately stay.
Replace == /\ offer' = [o \in Owners |-> {}]
           /\ broken' = FALSE
           /\ told' = "none"
           /\ UNCHANGED live

\* update() begins: the last outcome has been handed over.
Start == /\ told' = "none"
         /\ UNCHANGED <<live, offer, broken>>

Next == \/ \E o \in Owners : Offer(o) \/ Apply(o) \/ Reject(o) \/ Break(o)
        \/ \E e \in Entries : Intrude(e)
        \/ Replace \/ Start

Spec == Init /\ [][Next]_vars
=============================================================================
