------------------------------ MODULE MCNotify ------------------------------
(* Small instances of Notify for TLC. *)
EXTENDS Notify

(* A short keyword, in place of "DISASVISOR" *)
MCKeyword == <<68, 86>>

(* The end of a longer message that was in the buffer before *)
Used == {<<50, 10, 90, 0>>}

(* An earlier frame with the end of a line just behind the new message *)
LineEnd == {<<10, 90, 0>>}

(* Other frames: too short, of other protocols, to other ports, or without  *)
(* the keyword or a known type.  Behind them, the rest of a message.        *)
Old == Message(49, Row(0))

MCTraffic ==
    [short    |-> Buffered([Datagram(DISASVISOR_PORT, <<>>) EXCEPT !.size = 33], Old),
     tcp      |-> [Datagram(DISASVISOR_PORT, Old) EXCEPT !.protocol = 6],
     fragment |-> [Datagram(DISASVISOR_PORT, Old) EXCEPT !.ip_len = 27],
     dns      |-> Datagram(53, Old),
     cut      |-> Buffered(Datagram(DISASVISOR_PORT, <<Head(Old)>>), Tail(Old)),
     nearly   |-> Datagram(DISASVISOR_PORT, [Old EXCEPT ![2] = 87]),
     negative |-> [Datagram(DISASVISOR_PORT, <<0>> \o Old) EXCEPT !.udp_len = 7],
     unknown  |-> Datagram(DISASVISOR_PORT, Message(57, Row(0))),
     empty    |-> Buffered(Datagram(DISASVISOR_PORT, <<>>), Old)]

(* Environments, with their bounds *)
Env(faults, others, steady, events, deaths) ==
    [faults |-> faults, others |-> others, steady |-> steady,
     events |-> events, restarts |-> deaths]

(* Everything goes well, and little traffic; a network that does its worst; *)
(* the other kinds of traffic.                                              *)
Weather ==
    {Env({}, {"cut"}, TRUE, 3, 1),
     Env({"lose", "reorder", "duplicate"}, {"cut", "empty"}, FALSE, 2, 0),
     Env({}, DOMAIN MCTraffic \ {"cut", "empty"}, FALSE, 1, 0)}

EmptyFrames == {Env({}, {"empty"}, TRUE, 1, 1)}
BlankPage == {Env({}, {}, TRUE, 2, 1)}
=============================================================================
