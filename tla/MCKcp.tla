------------------------------- MODULE MCKcp -------------------------------
(***************************************************************************)
(* Instances of Kcp: an overhead of one unit and a datagram of three, so   *)
(* that a segment carries at most two units and a datagram one segment of  *)
(* data, or one of one unit and an acknowledgement.                        *)
(***************************************************************************)
EXTENDS Kcp

const_End == {"a", "b"}

\* The two modes of testkcp.lua that differ most.
const_Modes == {[resend |-> 0, nc |-> FALSE], [resend |-> 1, nc |-> TRUE]}

\* A message of two fragments and one of one.
const_Fragments == [a |-> <<3, 1>>, b |-> <<>>]
\* Two messages through a window of one.
const_OneWay == [a |-> <<1, 1>>, b |-> <<>>]

const_WideLink == [a |-> 2, b |-> 2]
const_NarrowLink == [a |-> 2, b |-> 1]
=============================================================================
