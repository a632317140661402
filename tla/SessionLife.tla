----------------------------- MODULE SessionLife -----------------------------
(***************************************************************************)
(* What the session of one browser looks like to the pages it shows: they  *)
(* are signed out (no cookie), in (the cookie names a session Cloud takes) *)
(* or over (it names one that Cloud takes no more), and a session is only  *)
(* entered by using up a sign-in that Cloud has offered.  AuthSession,     *)
(* with its handlers, handoffs and cookies, is shown to implement it, and  *)
(* BrowserTab is built on it.                                              *)
(***************************************************************************)
EXTENDS Naturals

CONSTANT Ttl                \* ticks without a request that end a session

ASSUME TtlAssumption == Ttl \in Nat \ {0}

VARIABLE access

\* offers counts the sign-ins Cloud has authorized that have not ended yet.
Accesses == [signed : {"out", "in", "over"}, idle : 0 .. Ttl, offers : Nat]

SessionInit == access = [signed |-> "out", idle |-> 0, offers |-> 0]

SignedIn == access.signed = "in"

Out == [access EXCEPT !.signed = "out", !.idle = 0]

In(n) == [access EXCEPT !.signed = "in", !.idle = n]

Over(n) == [access EXCEPT !.signed = "over", !.idle = n]

\* A request is let in, and extends the session.
Admitted == SignedIn /\ access' = In(0)

\* A request is refused: of a browser that is not signed in always, and of any
\* other when the server cannot ask Cloud.
Refused == UNCHANGED access

\* The provider and Cloud let the user in.
Offers == access' = [access EXCEPT !.offers = @ + 1]

UsesOffer(signed, idle) ==
    /\ access.offers > 0
    /\ access' = [signed |-> signed, idle |-> idle, offers |-> access.offers - 1]

\* A sign-in ends well; what it was handed may have been revoked meanwhile.
Enters == \E signed \in {"in", "over"} : UsesOffer(signed, 0)

\* It comes to nothing.
Forfeits == UsesOffer(access.signed, access.idle)

\* The cookies are cleared.
Clears == access' = Out

\* Cloud deletes the session.
Ends == access.signed # "out" /\ access' = Over(0)

\* A tick of time uses up the session, unless a request extends it in between;
\* the cookie runs out at some tick.
TickOver ==
    \/ access' = IF SignedIn
                 THEN IF access.idle + 1 < Ttl THEN In(access.idle + 1) ELSE Over(Ttl)
                 ELSE access
    \/ access' = Out

SessionNext ==
    Admitted \/ Offers \/ Enters \/ Forfeits \/ Clears \/ Ends \/ TickOver

SessionSpec == SessionInit /\ [][SessionNext]_access
=============================================================================
