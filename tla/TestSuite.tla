----------------------------- MODULE TestSuite ------------------------------
(* The test suite (test_suite/test_01 .. test_05): a server task, a client    *)
(* task and main, in one process over the loopback interface, with one DAMAt  *)
(* mutant or none.  Time is counted in 100 ms.  Waiting outlasts what is       *)
(* already under way: the server's 50 ms what the router has to do, the        *)
(* client's 200 ms and 1 s also what the server has to do.                     *)
EXTENDS CspTasks

CONSTANT Campaign    \* runs of a test: its number, the mutant, how long a round of
                     \* the client with usleep(200000) takes, and whether the
                     \* client's thread may overtake the server's on its way to
                     \* csp_listen

VARIABLES test, pace, overtakes, clock,
          sent,       \* packet_sent, client_sent
          received,   \* server_received
          todo,       \* the calls left of the client's round
          saved,      \* the arrays filled by the client and by the server
          oob,        \* an array was written behind its end
          late,       \* the client sent before the server listened
          verdict     \* what main exits with

suitevars == <<test, pace, overtakes, clock, sent, received, todo, saved, oob, late, verdict>>
vars == <<taskvars, suitevars>>

Wake == 30          \* main: sleep(3)
Pending == -1
client == "client"   \* the one task that makes calls

-----------------------------------------------------------------------------
(* The five programs.  A round of the client: whether it sleeps first, and    *)
(* its calls; test_02 and test_03 end after five packets.                     *)

Data(prio) == [Call(ServerPort, "hello", 14, 0) EXCEPT !.prio = prio]

test_01_client(k) == [sleep |-> TRUE, calls |-> <<csp_ping, csp_reboot, Data(2)>>, more |-> TRUE]
test_02_client(k) == [sleep |-> k = 4, calls |-> <<Data(<<0, 1, 2, 3, 6>>[k + 1])>>, more |-> k < 4]
test_03_client(k) == [sleep |-> FALSE, calls |-> <<Data(2)>>, more |-> k < 4]
test_04_client(k) == [sleep |-> TRUE, calls |-> <<Data(2)>>, more |-> TRUE]
test_05_client(k) == [sleep |-> TRUE, calls |-> <<Data(2)>>, more |-> TRUE]

Round(k) ==
    CASE test = 1 -> test_01_client(k) [] test = 2 -> test_02_client(k)
      [] test = 3 -> test_03_client(k) [] test = 4 -> test_04_client(k)
      [] test = 5 -> test_05_client(k)

\* What the client saves of its connection, and where: test_03 and test_05 use
\* the count of the server.
test_02_client_saves(conn) == [at |-> sent, v |-> cli[client].call.prio]
test_03_client_saves(conn) == [at |-> received, v |-> <<conn.idin.src, conn.idin.dst, conn.idout.src>>]
test_04_client_saves(conn) == [at |-> sent, v |-> <<conn.idin.sport, conn.idin.dport>>]
test_05_client_saves(conn) == [at |-> received, v |-> conn.idin.flags]

\* What the server saves of the connection a packet came on.
test_02_server_saves(conn) == [at |-> received, v |-> conn.idout.pri]
test_03_server_saves(conn) == [at |-> received, v |-> <<conn.idin.src, conn.idin.dst, conn.idout.src>>]
test_04_server_saves(conn) == [at |-> received, v |-> <<conn.idin.sport, conn.idin.dport>>]
test_05_server_saves(conn) == [at |-> received, v |-> conn.idin.flags]

ClientSaves(conn) ==
    CASE test = 2 -> test_02_client_saves(conn) [] test = 3 -> test_03_client_saves(conn)
      [] test = 4 -> test_04_client_saves(conn) [] test = 5 -> test_05_client_saves(conn)

ServerSaves(conn) ==
    CASE test = 2 -> test_02_server_saves(conn) [] test = 3 -> test_03_server_saves(conn)
      [] test = 4 -> test_04_server_saves(conn) [] test = 5 -> test_05_server_saves(conn)

Zero == CASE test = 2 -> 0 [] test = 3 -> <<0, 0, 0>> [] test = 4 -> <<0, 0>> [] OTHER -> {}
Size == IF test \in {2, 3} THEN 5 ELSE 10

\* test_04 checks its index with <= 10, test_05 with < 10; the others with nothing.
Writes(at) == test # 1 /\ (test = 4 => at <= 10) /\ (test = 5 => at < 10)

Save(side, entry) ==
    IF ~Writes(entry.at) THEN UNCHANGED <<saved, oob>>
    ELSE IF entry.at < Size THEN saved' = [saved EXCEPT ![side][entry.at] = entry.v] /\ UNCHANGED oob
    ELSE oob' = TRUE /\ UNCHANGED saved

\* The oracles of main.
test_01_main == received >= 5
test_02_main == saved.client = saved.server
test_03_main == received >= 5 /\ saved.client = saved.server
\* Mutant: the destination ports of the two sides are compared.
test_04_main_same == \A i \in 0 .. 9 : saved.server[i][2] = saved.client[i][2]

test_04_main == \A i \in 0 .. 9 : saved.server[i] = <<saved.client[i][2], saved.client[i][1]>>
test_05_main == saved.client = saved.server

Passes ==
    CASE test = 1 -> test_01_main [] test = 2 -> test_02_main [] test = 3 -> test_03_main
      [] test = 4 -> test_04_main [] test = 5 -> test_05_main

-----------------------------------------------------------------------------
Init ==
    /\ \E r \in Campaign :
         /\ test = r.test /\ pace = r.pace /\ overtakes = r.overtakes
         /\ node = [csp_init EXCEPT !.mut = r.mut]
    /\ rt = Idle /\ srv = [Idle EXCEPT !.pc = "start"]
    /\ cli = (client :> [pc |-> "idle", c |-> NULL, b |-> NULL, call |-> csp_ping, dest |-> 0])
    /\ clock = 0 /\ sent = 0 /\ received = 0
    /\ todo = IF Round(0).sleep THEN <<>> ELSE Round(0).calls
    /\ saved = [side \in {"client", "server"} |-> [i \in 0 .. Size - 1 |-> Zero]]
    /\ oob = FALSE /\ late = FALSE /\ verdict = Pending

Running == verdict = Pending

\* Nothing is under way but the client.
Quiet ==
    /\ rt.pc = "idle" /\ node.qfifo = <<>>
    /\ (srv.pc = "accept" /\ node.sock[1].q = <<>>) \/ srv.pc = "done"

RouterStep == Running /\ Router(TRUE) /\ UNCHANGED suitevars

\* The server's task; a packet of MY_SERVER_PORT is saved and counted, and the
\* loop of test_03 ends with the fifth.
ServerStep ==
    /\ Running /\ UNCHANGED <<test, pace, overtakes, clock, sent, todo, late, verdict>>
    /\ \/ (ServerBind \/ ServerListen \/ ServerAccept \/ ServerCallRead \/ ServerRead)
          /\ UNCHANGED <<received, saved, oob>>
       \/ ServerHandle(TRUE)
          /\ IF node.conn[srv.c].idin.dport = ServerPort
             THEN /\ received' = received + 1
                  /\ IF test = 1 THEN UNCHANGED <<saved, oob>>
                     ELSE Save("server", ServerSaves(node.conn[srv.c]))
             ELSE UNCHANGED <<received, saved, oob>>
       \/ test = 3 /\ received >= 5 /\ srv.pc = "accept"
          /\ srv' = [srv EXCEPT !.pc = "done"]
          /\ UNCHANGED <<node, rt, cli, received, saved, oob>>
       \/ ServerTimeout /\ rt.pc = "idle" /\ node.qfifo = <<>> /\ UNCHANGED <<received, saved, oob>>

\* The next round: sleep if it asks for it, then its calls.
ClientSleep ==
    /\ Running /\ cli[client].pc = "idle" /\ todo = <<>>
    /\ (sent > 0 => Round(sent - 1).more) /\ Round(sent).sleep
    /\ Quiet /\ clock + pace <= Wake
    /\ clock' = clock + pace
    /\ todo' = Round(sent).calls
    /\ UNCHANGED <<taskvars, test, pace, overtakes, sent, received, saved, oob, late, verdict>>

ClientBegin ==
    /\ Running /\ todo # <<>> /\ (overtakes \/ srv.pc \notin {"start", "bound"})
    /\ ClientCall(client, Head(todo), 0)
    /\ UNCHANGED suitevars

\* csp_send of the data packet, and what the client saves of its connection:
\* idin and the priority, which csp_send does not change.
ClientSendStep ==
    /\ Running /\ ClientSend(client, TRUE)
    /\ late' = (late \/ srv.pc \in {"start", "bound"})
    /\ IF Len(todo) = 1 /\ test # 1 THEN Save("client", ClientSaves(node.conn[cli[client].c]))
       ELSE UNCHANGED <<saved, oob>>
    /\ UNCHANGED <<test, pace, overtakes, clock, sent, received, todo, verdict>>

ClientGivesUp ==
    /\ Running /\ Quiet /\ clock + 10 <= Wake
    /\ ClientTimeout(client)
    /\ clock' = clock + 10
    /\ UNCHANGED <<test, pace, overtakes, sent, received, todo, saved, oob, late, verdict>>

\* The call is over; with the last one of a round the packet counts as sent.
ClientEnd ==
    /\ Running /\ ClientClose(client)
    /\ IF Len(todo) > 1 THEN todo' = Tail(todo) /\ UNCHANGED sent
       ELSE /\ sent' = sent + 1
            /\ todo' = IF Round(sent).more /\ ~Round(sent + 1).sleep
                       THEN Round(sent + 1).calls ELSE <<>>
    /\ UNCHANGED <<test, pace, overtakes, clock, received, saved, oob, late, verdict>>

ClientStepOn ==
    /\ Running
    /\ \/ ClientAllocate(client) \/ ClientNew(client) \/ ClientPorts(client)
       \/ ClientCallRead(client) \/ ClientRead(client)
    /\ UNCHANGED suitevars

\* The client has nothing more to do within the three seconds.
ClientSpent ==
    \/ cli[client].pc = "failed"
    \/ cli[client].pc = "idle" /\ todo = <<>> /\
         ((test \in {2, 3} /\ sent = 5) \/ clock + pace > Wake)
    \/ cli[client].pc = "read" /\ node.conn[cli[client].c].rx = <<>> /\ clock + 10 > Wake

\* main wakes up and exits; after a write behind an array its verdict is open.
Main ==
    /\ Running /\ ((Quiet /\ ClientSpent) \/ node.crash)
    /\ verdict' \in IF oob THEN {0, 1} ELSE {IF Passes /\ ~node.crash THEN 0 ELSE 1}
    /\ UNCHANGED <<taskvars, test, pace, overtakes, clock, sent, received, todo, saved, oob, late>>

Done == verdict # Pending /\ UNCHANGED vars

Next ==
    \/ RouterStep \/ ServerStep \/ ClientSleep \/ ClientBegin \/ ClientSendStep
    \/ ClientGivesUp \/ ClientEnd \/ ClientStepOn \/ Main \/ Done

Spec == Init /\ [][Next]_vars

-----------------------------------------------------------------------------
\* The first test whose oracle sees a mutant, by probe and field, as the results
\* of the tutorial have it (summary_of_the_results.xlsx, README.md:344-489); 6:
\* no test does, because csp_send_direct writes the source address afterwards.
FirstKill(m) ==
    CASE m.field = "pri" -> 2
      [] m.field = "src" -> IF m.probe = "read" THEN 3 ELSE 6
      [] m.field = "dst" -> IF m.probe = "read" THEN 3 ELSE 1
      [] m.field = "dport" -> 1
      [] m.field = "sport" -> IF m.probe = "read" THEN 4 ELSE 1
      [] m.field = "flags" -> 5

\* Whatever order router, server and client run in, a test passes on the code as
\* it is, a mutant survives the tests before the one that was written for it,
\* and that one kills it; only a client that is faster than the server's
\* csp_listen, and an array written behind its end, leave the verdict open.
VerdictsReproduced ==
    verdict # Pending /\ ~late /\ ~oob =>
        IF node.mut = NoMutant THEN verdict = 0
        ELSE /\ test < FirstKill(node.mut) => verdict = 0
             /\ test = FirstKill(node.mut) => verdict = 1

\* The packets of a run without mutant arrive once each and in order, and the
\* table of eight connections never runs out although every packet opens two.
NothingLost ==
    node.mut = NoMutant /\ ~late /\ Quiet /\ cli[client].pc = "idle" /\ todo = <<>> => received = sent
=============================================================================
