------------------------------- MODULE IvyBus -------------------------------
(***************************************************************************)
(* The Ivy protocol between applications (ivy.c): discovery by UDP         *)
(* broadcast, the TCP connection of every pair, the exchange of regular    *)
(* expressions when a connection opens, subscriptions that come and go,    *)
(* messages sent to the subscribers, and the ways a connection ends.       *)
(*                                                                         *)
(* An application is a single-threaded process: each action is one         *)
(* callback of its loop, or one call of the program.  Applications         *)
(* interleave.  A connection is a number k; <<k, "i">> is its end at the   *)
(* application that connected, <<k, "a">> at the one that accepted.  A     *)
(* line of the protocol is one message of a reliable FIFO channel, which   *)
(* is what IvySocket provides as long as no send buffer fills up.          *)
(***************************************************************************)
EXTENDS IvyRegistry, FiniteSets

CONSTANTS App,         \* the applications of the bus
          Port,        \* Port[a]: ApplicationPort of a, a positive number
          Re,          \* the regular expressions programs bind
          Message,     \* the messages programs send
          Match,       \* Match[re]: the messages re matches
          Bad,         \* the expressions IvyBindingCompile rejects
          Filtered,    \* Filtered[a]: the expressions a's IvyBindingFilter rejects
          Ready,       \* Ready[a]: a's ready_message, or NoMessage
          NoMessage,   \* no ready message
          SeenPorts,   \* ports SocketGetRemotePort may report for an accepted peer
          Copies,      \* bound: Copies[a][b], times an announcement of a may reach b
          MaxConn,     \* bound: connections
          MaxBinds,    \* bound: MaxBinds[a], IvyBindMsg calls of a
          MaxSends,    \* bound: MaxSends[a], IvySendMsg and IvySendDieMsg calls of a
          MaxChanges,  \* bound: IvyChangeMsg calls, of all applications
          Ops          \* which of "unbind", "stop", "exit", "die" programs do

ASSUME BusAssumption ==
  /\ Port \in [App -> Nat \ {0}] /\ SeenPorts \subseteq Nat \ {0}
  /\ Match \in [Re -> SUBSET Message] /\ Bad \subseteq Re
  /\ Filtered \in [App -> SUBSET Re]
  /\ Ready \in [App -> Message \cup {NoMessage}] /\ NoMessage \notin Message
  /\ Copies \in [App -> [App -> Nat]] /\ {MaxConn, MaxChanges} \subseteq Nat
  /\ MaxBinds \in [App -> Nat] /\ MaxSends \in [App -> Nat]
  /\ Ops \subseteq {"unbind", "stop", "exit", "die"}

VARIABLES status,      \* status[a]: "off", "bound", "running", "stopped" or "exited"
          udp,         \* udp[a][b]: copies of a's announcement on their way to b
          link,        \* the connections made: who connected, who accepts, port seen
          sock,        \* sock[e]: the socket and channel of end e
          chan,        \* chan[e]: lines sent to end e and not handled
          cli,         \* cli[e]: the RWIvyClient record of end e
          allClients,  \* allClients[a]: the ends of a in its list, newest first
          reg,         \* reg[a]: the subscriptions of a's peers
          binds,       \* binds[a]: msg_recv, newest first
          nextId,      \* nextId[a]: recv_id
          budget,      \* calls the programs may still make
          announced    \* history: the bindings the owner of e announced on it

vars == <<status, udp, link, sock, chan, cli, allClients, reg, binds, nextId,
          budget, announced>>

End == (1 .. MaxConn) \X {"i", "a"}
Peer(e) == <<e[1], IF e[2] = "i" THEN "a" ELSE "i">>
Owner(e) == IF e[2] = "i" THEN link[e[1]].ini ELSE link[e[1]].acc
EndsOf(a) == {e \in (1 .. Len(link)) \X {"i", "a"} : Owner(e) = a}

Line(type, id, arg) == [type |-> type, id |-> id, arg |-> arg]
NewClient == [port |-> 0, ready |-> 0, ignore |-> FALSE, up |-> FALSE]

Init == /\ status = [a \in App |-> "off"]
        /\ udp = [a \in App |-> [b \in App |-> 0]]
        /\ link = <<>>
        /\ sock = [e \in End |-> "none"]
        /\ chan = [e \in End |-> <<>>]
        /\ cli = [e \in End |-> NewClient]
        /\ allClients = [a \in App |-> <<>>]
        /\ reg = [a \in App |-> EmptyRegistry(End)]
        /\ binds = [a \in App |-> <<>>]
        /\ nextId = [a \in App |-> 0]
        /\ budget = [send |-> MaxSends, change |-> MaxChanges]
        /\ announced = [e \in End |-> {}]

-----------------------------------------------------------------------------
(* Sending.  What is sent to an end whose socket is closed is lost. *)

Open(e) == sock[e] \in {"pending", "open", "marked", "refused"}

(* MsgSendTo of lines[e] on every end e of S. *)
SendOn(ch, S, lines) ==
  [x \in End |-> IF Peer(x) \in S /\ Open(x) THEN ch[x] \o lines[Peer(x)] ELSE ch[x]]

ClientsOf(a) == {allClients[a][n] : n \in DOMAIN allClients[a]}

(* RegexpCall and RegexpCallUnique: a Msg line for every subscription whose *)
(* expression matches m; an expression that did not compile matches nothing. *)
Hits(d, m, e) ==
  LET matching == {k \in DOMAIN d : d[k].re \notin Bad /\ m \in Match[d[k].re]}
      called == InOrder({p \in Places(d, matching) : d[p[1]].cls[p[2]].cl = e})
  IN  [n \in DOMAIN called |-> Line("Msg", d[called[n][1]].cls[called[n][2]].id, m)]

-----------------------------------------------------------------------------
(* Starting, discovery and connection. *)

(* IvyStart up to SocketBroadcastCreate: the server and the UDP port exist. *)
IvyStart(a) == /\ status[a] = "off"
               /\ status' = [status EXCEPT ![a] = "bound"]
               /\ UNCHANGED <<udp, link, sock, chan, cli, allClients, reg, binds, nextId,
                              budget, announced>>

(* The rest of IvyStart: a broadcast on each network.  An application gets *)
(* the datagram several times, once or never, and itself too.              *)
SocketSendBroadcast(a) ==
  \E n \in {f \in [App -> UNION {0 .. Copies[a][b] : b \in App}] :
           \A b \in App : f[b] =< IF status[b] \in {"off", "exited"} THEN 0 ELSE Copies[a][b]} :
    /\ status[a] = "bound"
    /\ status' = [status EXCEPT ![a] = "running"]
    /\ udp' = [udp EXCEPT ![a] = n]
    /\ UNCHANGED <<link, sock, chan, cli, allClients, reg, binds, nextId, budget, announced>>

Announcements(a) ==
  [n \in DOMAIN binds[a] |-> Line("AddRegexp", binds[a][n].id, binds[a][n].re)]

(* Mutants: the end of the expressions comes too early, or only after some. *)
ServiceEndFirst(a) == <<Line("StartRegexp", Port[a], a), Line("EndRegexp", 0, a)>> \o Announcements(a)
ServiceEndIfAny(a) ==
  <<Line("StartRegexp", Port[a], a)>> \o Announcements(a)
    \o (IF binds[a] = <<>> THEN <<>> ELSE <<Line("EndRegexp", 0, a)>>)

(* The StartRegexp, AddRegexp ... EndRegexp lines of SendService. *)
Service(a) ==
  <<Line("StartRegexp", Port[a], a)>>
    \o Announcements(a)
    \o <<Line("EndRegexp", 0, a)>>

(* SendService on end e of a; readyToSend is 1 afterwards, so that the      *)
(* ready message is never sent from here.                                   *)
SendService(a, e) ==
  /\ chan' = [chan EXCEPT ![Peer(e)] = IF sock'[Peer(e)] = "closed" THEN @ ELSE @ \o Service(a)]
  /\ cli' = [cli EXCEPT ![e] = [NewClient EXCEPT !.ready = 1]]
  /\ allClients' = [allClients EXCEPT ![a] = <<e>> \o @]
  /\ announced' = [announced EXCEPT ![e] = ListSubs(binds[a])]

Listening(a) == status[a] \in {"bound", "running", "stopped"}

(* Connections of one acceptor at one time come from different ports. *)
FreshPorts(a) == SeenPorts \ {link[k].seen : k \in {j \in DOMAIN link :
                                /\ link[j].acc = a
                                /\ sock[<<j, "a">>] # "closed" \/ sock[<<j, "i">>] # "closed"}}

(* Mutant: only the application with the larger port connects. *)
ConnectsIfLarger(b, a) == Port[b] < Port[a] /\ Listening(a)

(* An announcement of its own is ignored; connect() fails when nobody listens. *)
Connects(b, a) == a # b /\ Listening(a)

(* BroadcastReceive at b of an announcement of a: connect, unless it is     *)
(* b's own or the connection is refused.                                    *)
BroadcastReceive(b, a) ==
  /\ status[b] = "running" /\ udp[a][b] > 0
  /\ udp' = [udp EXCEPT ![a][b] = @ - 1]
  /\ IF Connects(b, a)
       THEN \E port \in FreshPorts(a) :
              LET k == Len(link) + 1
              IN  /\ k =< MaxConn
                  /\ link' = Append(link, [ini |-> b, acc |-> a, seen |-> port])
                  /\ sock' = [sock EXCEPT ![<<k, "i">>] = "open", ![<<k, "a">>] = "pending"]
                  /\ SendService(b, <<k, "i">>)
       ELSE UNCHANGED <<link, sock, chan, cli, allClients, announced>>
  /\ UNCHANGED <<status, reg, binds, nextId, budget>>

(* The port and address of the peer are only known at the end that          *)
(* accepted: SocketConnectAddr leaves client->from zero.                    *)
SocketGetRemotePort(e) == IF e[2] = "i" THEN 0 ELSE link[e[1]].seen

(* The first client of a, other than e, from the same address and whose     *)
(* application port is the port e came from (all applications on one host). *)
CheckConnected(a, e) ==
  SelectSeq(allClients[a], LAMBDA x : /\ x # e
                                      /\ SocketGetRemotePort(e) # 0
                                      /\ cli[x].port = SocketGetRemotePort(e)
                                      /\ x[2] = "a")

(* HandleServer with ClientCreate. *)
HandleServer(e) ==
  LET a == Owner(e)
  IN  /\ sock[e] = "pending" /\ status[a] = "running"
      /\ IF CheckConnected(a, e) # <<>>
           THEN /\ sock' = [sock EXCEPT ![e] = "refused"]
                /\ UNCHANGED <<chan, cli, allClients, announced>>
           ELSE /\ sock' = [sock EXCEPT ![e] = "open"]
                /\ SendService(a, e)
      /\ UNCHANGED <<status, udp, link, reg, binds, nextId, budget>>

-----------------------------------------------------------------------------
(* Receive: one line that HandleSocket hands to the application. *)

Handles(e, type) ==
  /\ sock[e] \in {"open", "marked"} /\ status[Owner(e)] = "running"
  /\ chan[e] # <<>> /\ Head(chan[e]).type = type
  /\ ~ cli[e].ignore

Rest(e) == [chan EXCEPT ![e] = Tail(@)]

(* SocketClose: the channel is deleted at the top of the loop. *)
Marked(e) == [sock EXCEPT ![e] = IF @ = "open" THEN "marked" ELSE @]

ReceiveBye(e) ==
  /\ Handles(e, "Bye")
  /\ chan' = Rest(e)
  /\ sock' = Marked(e)
  /\ UNCHANGED <<status, udp, link, cli, allClients, reg, binds, nextId, budget, announced>>

(* Error lines are printed. *)
ReceiveError(e) ==
  /\ Handles(e, "Error")
  /\ chan' = Rest(e)
  /\ UNCHANGED <<status, udp, link, sock, cli, allClients, reg, binds, nextId, budget,
                 announced>>

(* A filtered expression is dropped.  One that does not compile is entered  *)
(* all the same, and an Error line answers the first client that binds it.  *)
ReceiveAddRegexp(e) ==
  LET a == Owner(e)
      l == Head(chan[e])
      error == l.arg \in Bad /\ ~ InDict(reg[a].dict, l.arg)
  IN  /\ Handles(e, "AddRegexp")
      /\ IF l.arg \in Filtered[a]
           THEN chan' = Rest(e) /\ UNCHANGED reg
           ELSE /\ reg' = [reg EXCEPT ![a] = addOrChangeRegexp(@, l.arg, e, l.id)]
                /\ chan' = IF error
                             THEN SendOn(Rest(e), {e}, [x \in {e} |-> <<Line("Error", 0, a)>>])
                             ELSE Rest(e)
      /\ UNCHANGED <<status, udp, link, sock, cli, allClients, binds, nextId, budget, announced>>

ReceiveDelRegexp(e) ==
  /\ Handles(e, "DelRegexp")
  /\ chan' = Rest(e)
  /\ reg' = [reg EXCEPT ![Owner(e)] = delRegexpForOneClient(@, e, Head(chan[e]).id)]
  /\ UNCHANGED <<status, udp, link, sock, cli, allClients, binds, nextId, budget, announced>>

(* Which of two connections to the same application goes: the one with the *)
(* larger of its two ports.                                                *)
MaxPort(a, e) == LET r == SocketGetRemotePort(e) IN IF Port[a] > r THEN Port[a] ELSE r
Target(a, other, e) == IF MaxPort(a, other) > MaxPort(a, e) THEN other ELSE e

ReceiveStartRegexp(e) ==
  LET a == Owner(e)
      other == CheckConnected(a, e)
      t == Target(a, other[1], e)
      named == [cli EXCEPT ![e].port = Head(chan[e]).id]
  IN  /\ Handles(e, "StartRegexp")
      /\ IF other # <<>>
           THEN /\ chan' = SendOn(Rest(e), {t}, [x \in {t} |-> <<Line("Error", 0, a)>>])
                /\ sock' = Marked(t)
                /\ cli' = [named EXCEPT ![t].ignore = TRUE]
           ELSE /\ chan' = Rest(e)
                /\ cli' = named
                /\ UNCHANGED sock
      /\ UNCHANGED <<status, udp, link, allClients, reg, binds, nextId, budget, announced>>

(* The application is told its peer is connected, and the peer is sent the *)
(* ready message by ClientCall.                                            *)
ReceiveEndRegexp(e) ==
  LET a == Owner(e)
      n == cli[e].ready + 1
  IN  /\ Handles(e, "EndRegexp")
      /\ cli' = [cli EXCEPT ![e].up = TRUE, ![e].ready = n]
      /\ chan' = IF n = 2 /\ Ready[a] # NoMessage
                   THEN SendOn(Rest(e), {e}, [x \in {e} |-> Hits(reg[a].dict, Ready[a], e)])
                   ELSE Rest(e)
      /\ UNCHANGED <<status, udp, link, sock, allClients, reg, binds, nextId, budget, announced>>

(* The callback of the binding with that id is called, if there is one. *)
ReceiveMsg(e) ==
  /\ Handles(e, "Msg")
  /\ chan' = Rest(e)
  /\ UNCHANGED <<status, udp, link, sock, cli, allClients, reg, binds, nextId, budget,
                 announced>>

(* IvyCleanup and IvyChannelStop: a Bye to every peer, every list freed.   *)
ReceiveDie(e) ==
  LET a == Owner(e)
      all == ClientsOf(a)
  IN  /\ Handles(e, "Die")
      /\ chan' = SendOn(Rest(e), all, [x \in all |-> <<Line("Bye", 0, a)>>])
      /\ sock' = [x \in End |-> IF x \in all /\ sock[x] = "open" THEN "marked" ELSE sock[x]]
      /\ allClients' = [allClients EXCEPT ![a] = <<>>]
      /\ reg' = [reg EXCEPT ![a] = EmptyRegistry(End)]
      /\ status' = [status EXCEPT ![a] = "stopped"]
      /\ UNCHANGED <<udp, link, cli, binds, nextId, budget, announced>>

(* A closed connection whose peer has not noticed yet. *)
ReceiveIgnored(e) ==
  /\ sock[e] \in {"open", "marked"} /\ status[Owner(e)] = "running"
  /\ chan[e] # <<>> /\ cli[e].ignore
  /\ chan' = Rest(e)
  /\ UNCHANGED <<status, udp, link, sock, cli, allClients, reg, binds, nextId, budget,
                 announced>>

Receive(e) == \/ ReceiveBye(e) \/ ReceiveError(e)
              \/ ReceiveAddRegexp(e) \/ ReceiveDelRegexp(e)
              \/ ReceiveStartRegexp(e) \/ ReceiveEndRegexp(e)
              \/ ReceiveMsg(e) \/ ReceiveDie(e) \/ ReceiveIgnored(e)

-----------------------------------------------------------------------------
(* The end of a connection. *)

(* Mutant: the end of file is only seen after the handshake. *)
ReadEndIfUp(e) ==
  /\ sock[e] = "open" /\ status[Owner(e)] = "running" /\ cli[e].up
  /\ chan[e] = <<>> /\ sock[Peer(e)] = "closed"
  /\ sock' = Marked(e)
  /\ UNCHANGED <<status, udp, link, chan, cli, allClients, reg, binds, nextId, budget, announced>>

(* HandleSocket, recv() having returned 0 or -1. *)
ReadEnd(e) ==
  /\ sock[e] = "open" /\ status[Owner(e)] = "running"
  /\ chan[e] = <<>> /\ sock[Peer(e)] = "closed"
  /\ sock' = Marked(e)
  /\ UNCHANGED <<status, udp, link, chan, cli, allClients, reg, binds, nextId, budget, announced>>

(* Closing the sockets of S.  A socket closed with unread input resets the *)
(* connection: any tail of what its peer has not read may be lost.         *)
CloseSockets(S) ==
  /\ sock' = [e \in End |-> IF e \in S THEN "closed" ELSE sock[e]]
  /\ LET reset == {Peer(e) : e \in {x \in S : chan[x] # <<>>}} \ S
         lengths == UNION {0 .. Len(chan[e]) : e \in reset}
     IN  \E kept \in {f \in [reset -> lengths] : \A e \in reset : f[e] =< Len(chan[e])} :
           chan' = [e \in End |-> IF e \in S THEN <<>>
                                  ELSE IF e \in reset THEN SubSeq(chan[e], 1, kept[e])
                                  ELSE chan[e]]

(* ChannelDefferedDelete with DeleteSocket and ClientDelete; a refused      *)
(* connection has no client record.                                         *)
DeleteSocket(e) ==
  LET a == Owner(e)
  IN  /\ sock[e] \in {"marked", "refused"} /\ status[a] = "running"
      /\ CloseSockets({e})
      /\ allClients' = [allClients EXCEPT ![a] = Sublist(@, {n \in DOMAIN @ : @[n] # e})]
      /\ reg' = [reg EXCEPT ![a] = delOneClient(@, e)]
      /\ UNCHANGED <<status, udp, link, cli, binds, nextId, budget, announced>>

(* IvyStop leaves the loop and says nothing to the peers. *)
IvyStop(a) ==
  /\ "stop" \in Ops /\ status[a] = "running"
  /\ status' = [status EXCEPT ![a] = "stopped"]
  /\ UNCHANGED <<udp, link, sock, chan, cli, allClients, reg, binds, nextId, budget, announced>>

(* The process ends, at any time: the system closes its sockets. *)
Exit(a) ==
  /\ "exit" \in Ops /\ Listening(a)
  /\ status' = [status EXCEPT ![a] = "exited"]
  /\ udp' = [b \in App |-> [udp[b] EXCEPT ![a] = 0]]
  /\ CloseSockets({e \in EndsOf(a) : Open(e)})
  /\ UNCHANGED <<link, cli, allClients, reg, binds, nextId, budget, announced>>

-----------------------------------------------------------------------------
(* Calls of the program, from a callback or before IvyStart. *)

MayCall(a) == status[a] \in {"off", "running"}

(* Mutant: only peers whose handshake is complete are told. *)
ToAllUp(a, l) ==
  LET up == {e \in ClientsOf(a) : cli[e].up} IN SendOn(chan, up, [e \in up |-> <<l>>])

ToAll(a, l) == SendOn(chan, ClientsOf(a), [e \in ClientsOf(a) |-> <<l>>])

(* Mutant: the position in the list is the id. *)
FreeId(a) == Len(binds[a])

RecvId(a) == nextId[a]

IvyBindMsg(a, re) ==
  /\ MayCall(a) /\ nextId[a] < MaxBinds[a]
  /\ binds' = [binds EXCEPT ![a] = <<[id |-> RecvId(a), re |-> re]>> \o @]
  /\ nextId' = [nextId EXCEPT ![a] = @ + 1]
  /\ chan' = ToAll(a, Line("AddRegexp", RecvId(a), re))
  /\ UNCHANGED <<status, udp, link, sock, cli, allClients, reg, budget, announced>>

IvyUnbindMsg(a, n) ==
  /\ "unbind" \in Ops /\ MayCall(a)
  /\ chan' = ToAll(a, Line("DelRegexp", binds[a][n].id, a))
  /\ binds' = [binds EXCEPT ![a] = Sublist(@, {j \in DOMAIN @ : @[j] # @[n]})]
  /\ UNCHANGED <<status, udp, link, sock, cli, allClients, reg, nextId, budget, announced>>

IvyChangeMsg(a, n, re) ==
  /\ MayCall(a) /\ budget.change > 0
  /\ binds' = [binds EXCEPT ![a][n].re = re]
  /\ chan' = ToAll(a, Line("AddRegexp", binds[a][n].id, re))
  /\ budget' = [budget EXCEPT !.change = @ - 1]
  /\ UNCHANGED <<status, udp, link, sock, cli, allClients, reg, nextId, announced>>

IvySendMsg(a, m) ==
  /\ status[a] = "running" /\ budget.send[a] > 0
  /\ chan' = SendOn(chan, EndsOf(a), [e \in EndsOf(a) |-> Hits(reg[a].dict, m, e)])
  /\ budget' = [budget EXCEPT !.send[a] = @ - 1]
  /\ UNCHANGED <<status, udp, link, sock, cli, allClients, reg, binds, nextId, announced>>

IvySendDieMsg(a, e) ==
  /\ "die" \in Ops /\ status[a] = "running" /\ budget.send[a] > 0
  /\ e \in ClientsOf(a)
  /\ chan' = SendOn(chan, {e}, [x \in {e} |-> <<Line("Die", 0, a)>>])
  /\ budget' = [budget EXCEPT !.send[a] = @ - 1]
  /\ UNCHANGED <<status, udp, link, sock, cli, allClients, reg, binds, nextId, announced>>

-----------------------------------------------------------------------------
Made == (1 .. Len(link)) \X {"i", "a"}

Call(a) == \/ \E re \in Re : IvyBindMsg(a, re)
           \/ \E n \in DOMAIN binds[a] : IvyUnbindMsg(a, n)
           \/ \E n \in DOMAIN binds[a], re \in Re : IvyChangeMsg(a, n, re)
           \/ \E m \in Message : IvySendMsg(a, m)
           \/ \E e \in EndsOf(a) : IvySendDieMsg(a, e)

Next == \/ \E a \in App : \/ IvyStart(a) \/ SocketSendBroadcast(a)
                          \/ Call(a) \/ IvyStop(a) \/ Exit(a)
        \/ \E a, b \in App : BroadcastReceive(b, a)
        \/ \E e \in Made : \/ HandleServer(e) \/ Receive(e)
                           \/ ReadEnd(e) \/ DeleteSocket(e)

(* An application that has called IvyStart finishes it, and a running one  *)
(* keeps handling what its select reports and deleting marked channels.    *)
(* Programs need not call anything.                                        *)
Fairness ==
  /\ \A a \in App : WF_vars(SocketSendBroadcast(a))
  /\ \A a, b \in App : WF_vars(BroadcastReceive(b, a))
  /\ \A e \in End : WF_vars(e \in Made /\ (HandleServer(e) \/ Receive(e) \/ ReadEnd(e)))
  /\ \A e \in End : WF_vars(e \in Made /\ DeleteSocket(e))

Spec == Init /\ [][Next]_vars /\ Fairness

-----------------------------------------------------------------------------
(* Type correctness; an end is in allClients of its owner only once it was *)
(* accepted, and readyToSend, counted up by every EndRegexp, never passes 2 *)
(* (HandleServer, the EndRegexp case of Receive).                           *)
TypeOK ==
  /\ status \in [App -> {"off", "bound", "running", "stopped", "exited"}]
  /\ \A a, b \in App : udp[a][b] \in 0 .. Copies[a][b]
  /\ link \in Seq([ini : App, acc : App, seen : SeenPorts]) /\ Len(link) =< MaxConn
  /\ sock \in [End -> {"none", "pending", "open", "marked", "refused", "closed"}]
  /\ \A e \in End : e \in Made <=> sock[e] # "none"
  /\ \A e \in End : cli[e].ready \in 0 .. 2
  /\ \A a \in App : ClientsOf(a) \subseteq {e \in EndsOf(a) : sock[e] # "pending"}
  /\ \A a \in App : nextId[a] \in 0 .. MaxBinds[a]

(* The dictionary never names a client whose Client was freed, an entry     *)
(* always has clients and a text has one entry, in whatever order lines,    *)
(* closes and deferred deletions come: RegexpCall, which sends to every     *)
(* client it finds there, never uses a freed one (delOneClient,             *)
(* delOneIvyClientFromDictionaryEntry).                                     *)
NoStaleClient ==
  \A a \in App : status[a] # "exited" =>
    LET d == reg[a].dict
    IN  /\ Clients(d) \subseteq {e \in ClientsOf(a) : sock[e] # "closed"}
        /\ \A k \in DOMAIN d : d[k].cls # <<>>
        /\ \A j, k \in DOMAIN d : d[j].re = d[k].re => j = k

(* The dictionary and the clients' own lists agree, although addRegexp and  *)
(* delRegexpForOneClient update them separately: a DelRegexp, which finds   *)
(* the text in the list, always finds all the dictionary has.               *)
ListsAgree ==
  \A a \in App : \A e \in ClientsOf(a) : DictSubs(reg[a].dict, e) = ListSubs(reg[a].regs[e])

(* An application hears that its peer is connected (IvyApplicationConnected) *)
(* before it gets any message from it, although the two directions of the    *)
(* handshake are independent and either side may send as soon as it has an   *)
(* AddRegexp (SendService, Receive).  A connection whose lines are ignored  *)
(* is never up, and drops the message too.                                   *)
MsgAfterConnected ==
  \A e \in Made : chan[e] # <<>> /\ Head(chan[e]).type = "Msg" => cli[e].up \/ cli[e].ignore

(* Whenever nothing is in flight to an end and both ends are up, the        *)
(* registry at that end holds exactly the current bindings of the peer that *)
(* pass the filter: no order of binding, unbinding, connecting and closing  *)
(* makes the two sides drift apart (IvyBindMsg, IvyUnbindMsg, SendService). *)
Wanted(a, S) == {b \in S : b.re \notin Filtered[a]}
Settled(e) == /\ chan[e] = <<>> /\ ~ cli[e].ignore
              /\ e \in ClientsOf(Owner(e)) /\ Peer(e) \in ClientsOf(Owner(Peer(e)))
              /\ sock[e] \in {"open", "marked"} /\ sock[Peer(e)] \in {"open", "marked"}
Mirrored ==
  \A e \in Made : Settled(e) =>
    DictSubs(reg[Owner(e)].dict, e) = Wanted(Owner(e), ListSubs(binds[Owner(Peer(e))]))

(* Changing bindings never loses one: what a settled peer has registered   *)
(* includes the current text of every binding, with any number of changes,  *)
(* unbindings and bindings of one text (IvyChangeMsg, addOrChangeRegexp).   *)
CurrentHeld ==
  \A e \in Made : Settled(e) =>
    Wanted(Owner(e), ListSubs(binds[Owner(Peer(e))])) \subseteq DictSubs(reg[Owner(e)].dict, e)

(* "changement de regexp d'un bind existant" (ivy.c:1217): a binding that   *)
(* was changed has its new text only, so that a settled peer has nothing    *)
(* registered that is not the current text of a binding.                    *)
ChangeReplaces ==
  \A e \in Made : Settled(e) =>
    DictSubs(reg[Owner(e)].dict, e) \subseteq ListSubs(binds[Owner(Peer(e))])

(* A message is never handed to a binding that does not match it, also when *)
(* the binding it was sent for is gone by the time it arrives: an id is     *)
(* never used twice (recv_id of IvyBindMsg, the Msg case of Receive).       *)
CallbackMatches ==
  \A e \in Made : chan[e] # <<>> /\ Head(chan[e]).type = "Msg" =>
    \A n \in DOMAIN binds[Owner(e)] :
      binds[Owner(e)][n].id = Head(chan[e]).id
        => Head(chan[e]).arg \in Match[binds[Owner(e)][n].re]

(* When an application counts its second readiness, and so sends its ready  *)
(* message, the peer's initial bindings are all registered and nothing else *)
(* is: the ready message reaches every subscription the peer announced      *)
(* (readyToSend, ClientCall).                                               *)
ReadyComplete ==
  [][\A e \in End : cli[e].ready = 1 /\ cli'[e].ready = 2 =>
       DictSubs(reg[Owner(e)].dict, e) = Wanted(Owner(e), announced[Peer(e)])]_vars

(* "only one side may be closed": of two connections of the same pair of    *)
(* applications one is closed once the second StartRegexp is handled, so    *)
(* that an application is never served twice (ivy.c:647, CheckConnected).   *)
Served(a, b) == {e \in ClientsOf(a) : sock[e] = "open" /\ cli[e].port = Port[b]}
OneConnection == \A a, b \in App : Cardinality(Served(a, b)) =< 1

(* Two running applications one of which got the announcement of the other  *)
(* end up connected, both told so, unless one of them stops                 *)
(* (BroadcastReceive, HandleServer, Receive).                               *)
BothUp(a, b) == \E e \in Made : /\ Owner(e) = a /\ Owner(Peer(e)) = b
                                /\ cli[e].up /\ cli[Peer(e)].up
Introduced == \A a, b \in App : a # b =>
  (udp[a][b] > 0 ~> (BothUp(a, b) \/ status[a] # "running"
                                  \/ status[b] # "running"))

(* A peer that exits, or that a Die message made clean up, is forgotten: an *)
(* application that keeps running closes its end, also one it had not       *)
(* accepted yet, and keeps no client record and no subscription of it       *)
(* (Bye, end of file, DeleteSocket, delOneClient).                          *)
Left(e) == status[Owner(e)] = "exited" \/ (sock[e] = "marked" /\ e \notin ClientsOf(Owner(e)))
Released(e) == /\ sock[e] = "closed" /\ e \notin ClientsOf(Owner(e))
               /\ e \notin Clients(reg[Owner(e)].dict)
Forgotten == \A e \in End :
  (e \in Made /\ Left(Peer(e))) ~> (e \in Made /\ (status[Owner(e)] # "running" \/ Released(e)))
=============================================================================
