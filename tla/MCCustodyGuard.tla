--------------------------- MODULE MCCustodyGuard ---------------------------
(***************************************************************************)
(* Instances of CustodyGuard for TLC: one protected wallet, one trusted    *)
(* delegate and one that is not, one allowed selector and one that is not. *)
(***************************************************************************)
EXTENDS GuardedHandlers

CONSTANTS hot, good, bad, sel1, sel2

Auth(authority, delegate) == [authority |-> authority, delegate |-> delegate]

\* Harmless while the trusted contract keeps its bytecode: another wallet
\* delegates to the unknown contract, the hot wallet to the trusted one.
Harmless == [selector |-> sel1, auths |-> {Auth("other", bad), Auth(hot, good)}]

UnknownDelegate == [selector |-> sel1, auths |-> {Auth(hot, bad)}]

UnknownSelector == [selector |-> sel2, auths |-> {Auth(hot, good)}]

HarmlessAndUnknown == {Harmless, UnknownDelegate}

OnlyUnknown == {UnknownSelector}
=============================================================================
