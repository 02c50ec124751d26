------------------------------- MODULE Notify -------------------------------
(***************************************************************************)
(* The notification path of DisasVisor, end to end: the intermediate       *)
(* server polls the public server and sends every change of the earthquake *)
(* information as one UDP datagram; the network card hands received frames *)
(* to vpn_callback_wrapper() in batches (module FrameQueue); the wrapper   *)
(* picks out the datagrams for port 26666 and parses them (module          *)
(* DisasMessage); vga_display_disaster_warning() draws the dialog picture  *)
(* and then the text (module Dialog) if the guest's graphics mode is one   *)
(* that vga_is_ready() knows.                                              *)
(***************************************************************************)
EXTENDS DisasMessage

CONSTANTS
    BATCH,           \* frames per call of vpn_callback_wrapper()
    NetSize,         \* bound: datagrams in the network
    RingSize,        \* bound: frames in the receive ring
    Environment,     \* what may happen around the path, see EnvironmentType
    BlankEvent,      \* events that leave the public page without any rows
    Remains,         \* what the receive buffers hold behind a frame
    Traffic          \* the other frames that may reach the card, by name

(***************************************************************************)
(* What the network does to datagrams, the names of the other frames that  *)
(* arrive, whether the guest stays in a graphics mode that is supported;   *)
(* and two bounds: changes of the public server's information, and         *)
(* restarts of the intermediate server.                                    *)
(***************************************************************************)
EnvironmentType ==
    [faults : SUBSET {"lose", "reorder", "duplicate"},
     others : SUBSET DOMAIN Traffic,
     steady : BOOLEAN, events : Nat \ {0}, restarts : Nat]

ASSUME NotifyAssumption ==
    /\ Environment \subseteq EnvironmentType
    /\ 1 \notin BlankEvent

VARIABLES
    env,         \* the environment of this behaviour
    site,        \* the public server's information, as an event number
    server,      \* the intermediate server runs
    prev,        \* prev_earthquake_info, 0 for ''
    restarts,
    net,         \* events of the datagrams in the network, in sending order
    q,           \* frames in the receive ring
    batch,       \* packets vpn_callback_wrapper() has still to look at
    job,         \* the call of vga_display_disaster_warning(), if any
    graphics,    \* the guest's graphics mode is one is_ready() accepts
    vga_active,  \* vga_active is not NULL
    screen,      \* the dialog on the screen
    left,        \* the guest has left its graphics mode between picture and
                 \* text of the message drawn last (history variable)
    shown        \* event whose text was drawn last (history variable)

servervars == <<site, server, prev, restarts>>
recvvars   == <<q, batch>>
vgavars    == <<graphics, vga_active, screen, left, shown>>
vars == <<env, servervars, net, recvvars, job, vgavars>>

-----------------------------------------------------------------------------
Event == UNION {1 .. e.events : e \in Environment}

(* A row of the public server's page, "A: A\n"; the script ends every line. *)
Row(e) == <<64 + e, 58, 32, 64 + e, 10>>

(* curr_earthquake_info for event e, '' for no event *)
Info(e) == IF e \in BlankEvent \cup {0} THEN <<>> ELSE Row(e)

Letters(s) == SelectSeq(s, LAMBDA c : c \in 32 .. 126)

(* 'DISASVISOR 1.0 t 0080 0040     ' + curr_earthquake_info *)
Message(t, info) ==
    Keyword \o <<32, 49, 46, 48, 32, t, 32, 48, 48, 56, 48, 32, 48, 48, 52, 48,
                 32, 32, 32, 32, 32>> \o info

(* An Ethernet frame: the fields that vpn_callback_wrapper() looks at *)
Datagram(dst, payload) ==
    [size |-> 42 + Len(payload), protocol |-> 17, ip_len |-> 28 + Len(payload),
     dst_port |-> dst, udp_len |-> 8 + Len(payload), udp_payload |-> payload]

DISASVISOR_PORT == 26666

(* The frame in a receive buffer, with remains of earlier frames behind it *)
Buffered(frame, rest) == [frame EXCEPT !.udp_payload = @ \o rest]

MessageFrames(e) ==
    {Buffered(Datagram(DISASVISOR_PORT, Message(49, Info(e))), r) : r \in Remains}

(* The packets that vpn_callback_wrapper() is interested in.  A packet     *)
(* size below 14 makes the unsigned packet_len huge.                       *)
IsForPort(p) ==
    /\ p.size - 14 \notin 0 .. 19
    /\ p.protocol = 17
    /\ p.ip_len >= 28
    /\ p.dst_port = DISASVISOR_PORT

udp_payload_len(p) == (p.udp_len - 8) % 2^16

(* A frame of any other kind, with the bytes behind it in the buffer *)
OtherFrame(name) == Buffered(Traffic[name], <<NUL>>)

FrameType ==
    [size : Nat, protocol : 0 .. 255, ip_len : 0 .. 2^16 - 1, dst_port : 0 .. 2^16 - 1,
     udp_len : 0 .. 2^16 - 1, udp_payload : Seq(0 .. 255)]

CarriesKeyword(p) ==
    udp_payload_len(p) >= Len(Keyword) /\ SubSeq(p.udp_payload, 1, Len(Keyword)) = Keyword

(* A message of a type for which there is no picture *)
UnknownType(p) ==
    \E t \in Digit \ {49, 50} :
        /\ udp_payload_len(p) = Len(Message(t, Row(0)))
        /\ IsPrefix(Message(t, Row(0)), p.udp_payload)

(***************************************************************************)
(* The other traffic is not meant for DisasVisor: nobody else sends the    *)
(* keyword to its port, at most with a type that is not known.  Whoever    *)
(* did could show a text, and with the keyword and little else even one    *)
(* from the remains of an older frame.                                     *)
(***************************************************************************)
ASSUME TrafficAssumption ==
    \A name \in DOMAIN Traffic :
        LET p == OtherFrame(name) IN
        /\ Traffic[name] \in FrameType
        /\ IsForPort(p) /\ CarriesKeyword(p) => UnknownType(p)

Frames == (UNION {MessageFrames(e) : e \in Event})
              \cup {OtherFrame(n) : n \in UNION {e.others : e \in Environment}}

Ring == INSTANCE FrameQueue WITH Frame <- Frames, out <- batch

NoJob == [stage |-> "none", picture |-> 0, text |-> <<>>]
Blank == [picture |-> 0, of |-> <<>>, text |-> <<>>]

Init ==
    /\ env \in Environment
    /\ site = 1
    /\ server = TRUE
    /\ prev = 0
    /\ restarts = 0
    /\ net = <<>>
    /\ Ring!Init
    /\ job = NoJob
    /\ graphics = env.steady
    /\ vga_active = FALSE
    /\ screen = Blank
    /\ left = FALSE
    /\ shown = 0

-----------------------------------------------------------------------------
(* The public server publishes new information. *)
Earthquake ==
    /\ site < env.events
    /\ site' = site + 1
    /\ UNCHANGED <<server, prev, restarts, net, recvvars, job, vgavars>>

(* One round of the intermediate server's loop.  A slip: the new           *)
(* information is remembered, but nothing is sent.                         *)
Poll_Unsent ==
    /\ server
    /\ Len(net) < NetSize
    /\ prev' = site
    /\ UNCHANGED <<site, server, restarts, net, recvvars, job, vgavars>>

Poll ==
    /\ server
    /\ Len(net) < NetSize
    /\ Info(prev) # Info(site)
    /\ net' = Append(net, site)
    /\ prev' = site
    /\ UNCHANGED <<site, server, restarts, recvvars, job, vgavars>>

(* urlopen() fails, or the page has no table: the script dies. *)
ServerDies ==
    /\ server
    /\ restarts < env.restarts
    /\ server' = FALSE
    /\ UNCHANGED <<site, prev, restarts, net, recvvars, job, vgavars>>

ServerRestarts ==
    /\ ~server
    /\ server' = TRUE
    /\ prev' = 0
    /\ restarts' = restarts + 1
    /\ UNCHANGED <<site, net, recvvars, job, vgavars>>

-----------------------------------------------------------------------------
(* The network, and the card *)
NetDeliver ==
    \E i \in 1 .. Len(net) :
        /\ i = 1 \/ "reorder" \in env.faults
        /\ Len(q) < RingSize
        /\ \E f \in MessageFrames(net[i]) : Ring!Arrive(f)
        /\ net' = RemoveAt(net, i)
        /\ UNCHANGED <<servervars, job, vgavars>>

NetLose ==
    \E i \in 1 .. Len(net) :
        /\ "lose" \in env.faults
        /\ net' = RemoveAt(net, i)
        /\ UNCHANGED <<servervars, recvvars, job, vgavars>>

NetDuplicate ==
    \E i \in 1 .. Len(net) :
        /\ "duplicate" \in env.faults
        /\ Len(net) < NetSize
        /\ net' = Append(net, net[i])
        /\ UNCHANGED <<servervars, recvvars, job, vgavars>>

OtherArrives ==
    \E name \in env.others :
        /\ Len(q) < RingSize
        /\ Ring!Arrive(OtherFrame(name))
        /\ UNCHANGED <<servervars, net, job, vgavars>>

(* The driver calls vpn_callback_wrapper(), which returns before the next  *)
(* call.  Its first act, passing the packets on to the VPN client, does    *)
(* not touch this state.                                                   *)
Receive ==
    /\ batch = <<>> /\ job = NoJob
    /\ \E k \in 1 .. BATCH : Ring!Deliver(k)
    /\ UNCHANGED <<servervars, net, job, vgavars>>

-----------------------------------------------------------------------------
(* The parser's result, tabulated for the frames of this instance *)
Parsed == [p \in Frames |-> handle_disasvisor_message(p.udp_payload, udp_payload_len(p))]

(* An empty payload makes vpn_callback_wrapper() return.  A slip: so does  *)
(* every packet that is not displayed.                                     *)
EndsBatch_Ignored(p) == ~Parsed[p].shown

EndsBatch(p) == IsForPort(p) /\ udp_payload_len(p) <= 0

(* vga_display_disaster_warning: the picture for a disaster type *)
PictureOf(dt) == IF dt \in {1, 2} THEN dt ELSE 0

(* A slip: everything in the buffer is taken as the text *)
DetailedInfo_WholeBuffer(p, r) == SubSeq(p.udp_payload, r.detailed_info, Len(p.udp_payload))

(* detailed_info_len bytes, as far as the buffer goes *)
DetailedInfo(p, r) ==
    SubSeq(p.udp_payload, r.detailed_info,
           Min({Len(p.udp_payload), r.detailed_info + r.detailed_info_len - 1}))

(* One iteration of the loop of vpn_callback_wrapper().  Its three ways on: *)
(* `return' on an empty payload, vga_display_disaster_warning(), or the     *)
(* next packet.                                                             *)
HandlePacket ==
    LET p == Head(batch)
        r == Parsed[p]
        Displays == /\ IsForPort(p) /\ ~EndsBatch(p)
                    /\ r.shown /\ PictureOf(r.disaster_type) # 0
    IN  /\ batch # <<>>
        /\ job = NoJob
        /\ batch' = IF EndsBatch(p) THEN <<>> ELSE Tail(batch)
        /\ job' = IF Displays
                  THEN [stage |-> "picture", picture |-> PictureOf(r.disaster_type),
                        text |-> Letters(DetailedInfo(p, r))]
                  ELSE NoJob
        /\ UNCHANGED <<servervars, net, q, vgavars>>

(* vga_is_ready: vga_active becomes the first driver that is ready, if any *)
vga_is_ready == vga_active' = graphics

(* vga_display_stored_picture *)
ShowPicture ==
    /\ job.stage = "picture"
    /\ vga_is_ready
    /\ screen' = IF vga_active' THEN [picture |-> job.picture, of |-> job.text, text |-> <<>>]
                 ELSE screen
    /\ job' = [job EXCEPT !.stage = "text"]
    /\ left' = FALSE
    /\ UNCHANGED <<servervars, net, recvvars, graphics, shown>>

(* vga_display_picture: nothing is drawn when vga_active is NULL, and      *)
(* nothing can be seen when the guest has left the graphics mode.  A slip: *)
(* vga_active is not looked at.                                            *)
Visible_NoCheck == graphics

Visible == vga_active /\ graphics

(* Which event a text belongs to, 0 if none *)
EventOf(text) ==
    IF \E e \in Event : text = Letters(Info(e))
    THEN CHOOSE e \in Event : text = Letters(Info(e)) ELSE 0

(* The letters are drawn in spite of what became of the picture. *)
ShowText ==
    /\ job.stage = "text"
    /\ screen' = IF Visible THEN [screen EXCEPT !.text = job.text] ELSE screen
    /\ shown' = IF Visible THEN EventOf(job.text) ELSE shown
    /\ job' = NoJob
    /\ UNCHANGED <<servervars, net, recvvars, graphics, vga_active, left>>

(* The guest leaves or enters the graphics mode, which clears the screen.  *)
(* vga_active keeps what vga_is_ready() has found.                         *)
GuestGraphics ==
    /\ ~env.steady
    /\ graphics' = ~graphics
    /\ screen' = Blank
    /\ left' = (job.stage = "text" /\ vga_active)
    /\ UNCHANGED <<servervars, net, recvvars, job, vga_active, shown>>

Next ==
    /\ UNCHANGED env
    /\ \/ Earthquake \/ Poll \/ ServerDies \/ ServerRestarts
       \/ NetDeliver \/ NetLose \/ NetDuplicate \/ OtherArrives
       \/ Receive \/ HandlePacket \/ ShowPicture \/ ShowText
       \/ GuestGraphics

Spec == Init /\ [][Next]_vars

(***************************************************************************)
(* The server's loop never ends and an operator restarts it; the network   *)
(* does not keep a datagram forever, whatever else it carries; the guest   *)
(* serves interrupts, so received frames are fetched, and a batch once     *)
(* fetched is handled to its end.                                          *)
(***************************************************************************)
Fairness ==
    /\ WF_vars(Poll /\ UNCHANGED env)
    /\ WF_vars(ServerRestarts /\ UNCHANGED env)
    /\ SF_vars(NetDeliver /\ UNCHANGED env)
    /\ WF_vars(Receive /\ UNCHANGED env)
    /\ WF_vars(HandlePacket /\ UNCHANGED env)
    /\ WF_vars(ShowPicture /\ UNCHANGED env)
    /\ WF_vars(ShowText /\ UNCHANGED env)

FairSpec == Spec /\ Fairness

-----------------------------------------------------------------------------
TypeOK ==
    /\ env \in Environment
    /\ site \in Event /\ prev \in Event \cup {0}
    /\ server \in BOOLEAN /\ restarts \in 0 .. env.restarts
    /\ net \in Seq(Event) /\ Len(net) <= NetSize
    /\ q \in Seq(Frames) /\ batch \in Seq(Frames)
    /\ job.stage \in {"none", "picture", "text"}
    /\ {graphics, vga_active, left} \subseteq BOOLEAN
    /\ screen.picture \in 0 .. 2
    /\ shown \in Event \cup {0}

(***************************************************************************)
(* Whatever the network does to messages, whatever other traffic reaches   *)
(* the card (see TrafficAssumption) and whatever is left in its buffers,   *)
(* the text on the screen is, letter by letter, information that the       *)
(* public server has published.                                            *)
(***************************************************************************)
OnlyPublished ==
    screen.text # <<>> => \E e \in 1 .. site : screen.text = Letters(Info(e))

(***************************************************************************)
(* Letters are drawn without a look at what became of the picture.  Yet    *)
(* they never appear in the dialog of another message; and they appear     *)
(* without a dialog only if the guest has left the graphics mode after     *)
(* the picture of their own message and has come back before them, which   *)
(* vga_active does not tell.                                               *)
(***************************************************************************)
TextHasDialog ==
    screen.text # <<>> => \/ screen.picture # 0 /\ screen.text = screen.of
                          \/ screen.picture = 0 /\ left

(* The network is reliable, and the guest's graphics mode supported. *)
Calm == env.faults = {} /\ env.steady

(* On a network that keeps the order, the screen never goes back from newer *)
(* to older information, even when the intermediate server restarts.        *)
NeverBack == [][Calm => shown' >= shown]_shown

(***************************************************************************)
(* "When DisasVisor receives a message, it transforms the message into a   *)
(* disaster notification image and displays it on the computer screen."    *)
(* (README.md), in a supported graphics mode                               *)
(***************************************************************************)
MessageReceived(e) == \E i \in 1 .. Len(batch) : batch[i] \in MessageFrames(e)

EveryMessageShown == \A e \in Event : (Calm /\ MessageReceived(e)) ~> shown = e

(***************************************************************************)
(* Information that stays on the public server gets to the screen, if the  *)
(* network loses nothing and the guest is in a supported graphics mode.    *)
(***************************************************************************)
LatestShown == \A e \in Event : (Calm /\ site = e) ~> (shown = e \/ site # e)
=============================================================================
