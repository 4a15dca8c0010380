---------------------------- MODULE EventChannel ----------------------------
(***************************************************************************)
(* What the queue of exogenous events promises, without cells, cursors and *)
(* locks: an event that was sent waits behind those that were sent before, *)
(* until it is received, once.                                             *)
(***************************************************************************)
EXTENDS Naturals, Sequences

CONSTANTS
    Producer,
    MaxPush         \* bound: events of a producer

VARIABLES
    sent,           \* sent[p]: how many events of p were sent
    under_way,      \* those that were not received
    received

channelVars == <<sent, under_way, received>>

ChannelInit ==
    /\ sent = [p \in Producer |-> 0]
    /\ under_way = <<>>
    /\ received = <<>>

Send(p) ==
    /\ sent[p] < MaxPush
    /\ sent' = [sent EXCEPT ![p] = @ + 1]
    /\ under_way' = Append(under_way, [by |-> p, n |-> sent[p] + 1])
    /\ UNCHANGED received

Receive ==
    /\ under_way # <<>>
    /\ received' = Append(received, Head(under_way))
    /\ under_way' = Tail(under_way)
    /\ UNCHANGED sent

ChannelNext == (\E p \in Producer : Send(p)) \/ Receive
ChannelSpec == ChannelInit /\ [][ChannelNext]_channelVars
=============================================================================
