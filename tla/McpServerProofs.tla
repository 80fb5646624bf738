--------------------------- MODULE McpServerProofs ---------------------------
(***************************************************************************)
(* Proofs about McpServer for every set of calls, hosts and patterns,       *)
(* whatever a pattern matches, whatever configurations lie outside the      *)
(* project, and any number of edits of mdok.toml.                           *)
(***************************************************************************)
EXTENDS McpServer, TLAPS

(* A child has the command line that build_document_argv made from the       *)
(* client's lists and the server's snapshot, and none before its call is     *)
(* past the checks.                                                          *)
ChildInv ==
    \A c \in Calls :
        /\ child[c].at # "none" => child[c].allow = {} /\ child[c].deny = DenyList(c)
        /\ call[c].at \in {"none", "received"} => child[c].at = "none"

(* A request was sent by a child that has loaded mdok.toml, and it was       *)
(* admitted by the file's list and the command line's.                       *)
RequestInv ==
    \A c \in Calls : request[c].sent =>
        /\ child[c].at \notin {"none", "started"}
        /\ request[c].host \in Admits(child[c].file, child[c].deny)

IInv == TypeOK /\ ChildInv /\ RequestInv /\ NoOrphans
-----------------------------------------------------------------------------
(* A denylist only takes hosts away, and it takes all it matches.            *)
LEMMA AdmitsHosts ==
    ASSUME NEW allowed \in Lists, NEW denied \in Lists
    PROVE  /\ Admits(allowed, denied) \subseteq Hosts
           /\ Admits(allowed, denied) \subseteq Admits(allowed, {})
           /\ Admits(allowed, denied) \cap Match(denied) = {}
  BY McpAssumption DEF Admits, Match, Lists

(* The initial state satisfies the inductive invariant.                      *)
LEMMA InitEstablishes == Init => IInv
  <1> SUFFICES ASSUME Init PROVE IInv
    OBVIOUS
  <1>1. TypeOK
    BY McpAssumption DEF Init, TypeOK, OperatorPolicy, Call, Child, CallType, ChildType, Lists,
                         Positions, Ended
  <1>2. ChildInv /\ RequestInv /\ NoOrphans
    BY DEF Init, ChildInv, RequestInv, NoOrphans, Alive, Child
  <1> QED
    BY <1>1, <1>2 DEF IInv

(* The handlers' records keep their type. *)
LEMMA CallTypeStep == IInv /\ [Next]_vars => call' \in [Calls -> CallType]
  <1> SUFFICES ASSUME IInv, [Next]_vars PROVE call' \in [Calls -> CallType]
    OBVIOUS
  <1> USE McpAssumption DEF IInv, TypeOK, CallType, Lists, Positions
  <1>1. ASSUME NEW c \in Calls, Receive(c) PROVE call' \in [Calls -> CallType]
    BY <1>1 DEF Receive, Serving, Call
  <1>2. ASSUME NEW c \in Calls, ReceiveDocument(c) PROVE call' \in [Calls -> CallType]
    BY <1>2 DEF ReceiveDocument, Serving, Call
  <1>3. ASSUME NEW c \in Calls, RefuseDocument(c) PROVE call' \in [Calls -> CallType]
    BY <1>3 DEF RefuseDocument, Serving, Answer, At, Call
  <1>4. ASSUME NEW c \in Calls, Spawn(c) PROVE call' \in [Calls -> CallType]
    BY <1>4 DEF Spawn, Serving, Goto, At, Call, Child
  <1>5. ASSUME NEW c \in Calls, ChildAnswered(c) PROVE call' \in [Calls -> CallType]
    BY <1>5 DEF ChildAnswered, Serving, Answer, At, Call
  <1>6. ASSUME NEW c \in Calls, ChildTimeout(c) PROVE call' \in [Calls -> CallType]
    BY <1>6 DEF ChildTimeout, Serving, Answer, At, Call, Kill, Alive, ChildAt, Child
  <1>7. ASSUME NEW c \in Calls, RefuseProbe(c) PROVE call' \in [Calls -> CallType]
    BY <1>7 DEF RefuseProbe, Serving, Answer, At, Call
  <1>8. ASSUME NEW c \in Calls, StartWorker(c) PROVE call' \in [Calls -> CallType]
    BY <1>8 DEF StartWorker, Serving, Goto, At, Call
  <1>9. ASSUME NEW c \in Calls, WorkerAnswered(c) PROVE call' \in [Calls -> CallType]
    BY <1>9 DEF WorkerAnswered, Serving, Answer, At, Call
  <1>10. ASSUME NEW c \in Calls, ProbeTimeout(c) PROVE call' \in [Calls -> CallType]
    BY <1>10 DEF ProbeTimeout, Serving, Answer, At, Call
  <1>11. ASSUME NEW c \in Calls, Version(c) PROVE call' \in [Calls -> CallType]
    BY <1>11 DEF Version, Serving, Answer, At, Call
  <1>12. ASSUME NEW c \in Calls, ChildLoads(c) PROVE call' \in [Calls -> CallType]
    BY <1>12 DEF ChildLoads, Serving, ChildAt, Child
  <1>13. ASSUME NEW c \in Calls, ChildExits(c) PROVE call' \in [Calls -> CallType]
    BY <1>13 DEF ChildExits, Serving, ChildAt, Child
  <1>20. ASSUME NEW c \in Calls, ChildRunsCommand(c) PROVE call' \in [Calls -> CallType]
    BY <1>20 DEF ChildRunsCommand
  <1>21. ASSUME NEW c \in Calls, CommandEnds(c) PROVE call' \in [Calls -> CallType]
    BY <1>21 DEF CommandEnds
  <1>14. ASSUME NEW c \in Calls, WorkerDone(c) PROVE call' \in [Calls -> CallType]
    BY <1>14 DEF WorkerDone, Serving
  <1>15. ASSUME NEW c \in Calls, NEW h \in Hosts, ChildRequests(c, h) PROVE call' \in [Calls -> CallType]
    BY <1>15 DEF ChildRequests, Effective
  <1>16. CASE Close
    BY <1>16 DEF Close, Kill, Alive, ChildAt, Child, At, Call
  <1>17. CASE Exit
    BY <1>17 DEF Exit
  <1>18. CASE EditConfig
    BY <1>18 DEF EditConfig
  <1>19. CASE UNCHANGED vars
    BY <1>19 DEF vars
  <1> QED
    BY <1>1, <1>2, <1>3, <1>4, <1>5, <1>6, <1>7, <1>8, <1>9, <1>10, <1>11, <1>12, <1>13, <1>14, <1>15, <1>16, <1>17, <1>18, <1>19,
       <1>20, <1>21 DEF Next, Handle

(* The children's records keep their type. *)
LEMMA ChildTypeStep == IInv /\ [Next]_vars => child' \in [Calls -> ChildType]
  <1> SUFFICES ASSUME IInv, [Next]_vars PROVE child' \in [Calls -> ChildType]
    OBVIOUS
  <1> USE McpAssumption DEF IInv, TypeOK, ChildType, CallType, Lists, Ended
  <1>1. ASSUME NEW c \in Calls, Receive(c) PROVE child' \in [Calls -> ChildType]
    BY <1>1 DEF Receive, Serving, Call
  <1>2. ASSUME NEW c \in Calls, ReceiveDocument(c) PROVE child' \in [Calls -> ChildType]
    BY <1>2 DEF ReceiveDocument, Serving, Call
  <1>3. ASSUME NEW c \in Calls, RefuseDocument(c) PROVE child' \in [Calls -> ChildType]
    BY <1>3 DEF RefuseDocument, Serving, Answer, At, Call
  <1>4. ASSUME NEW c \in Calls, Spawn(c) PROVE child' \in [Calls -> ChildType]
    BY <1>4 DEF Spawn, Serving, Goto, At, Call, Child, DenyList
  <1>5. ASSUME NEW c \in Calls, ChildAnswered(c) PROVE child' \in [Calls -> ChildType]
    BY <1>5 DEF ChildAnswered, Serving, Answer, At, Call
  <1>6. ASSUME NEW c \in Calls, ChildTimeout(c) PROVE child' \in [Calls -> ChildType]
    BY <1>6 DEF ChildTimeout, Serving, Answer, At, Call, Kill, Alive, ChildAt, Child
  <1>7. ASSUME NEW c \in Calls, RefuseProbe(c) PROVE child' \in [Calls -> ChildType]
    BY <1>7 DEF RefuseProbe, Serving, Answer, At, Call
  <1>8. ASSUME NEW c \in Calls, StartWorker(c) PROVE child' \in [Calls -> ChildType]
    BY <1>8 DEF StartWorker, Serving, Goto, At, Call
  <1>9. ASSUME NEW c \in Calls, WorkerAnswered(c) PROVE child' \in [Calls -> ChildType]
    BY <1>9 DEF WorkerAnswered, Serving, Answer, At, Call
  <1>10. ASSUME NEW c \in Calls, ProbeTimeout(c) PROVE child' \in [Calls -> ChildType]
    BY <1>10 DEF ProbeTimeout, Serving, Answer, At, Call
  <1>11. ASSUME NEW c \in Calls, Version(c) PROVE child' \in [Calls -> ChildType]
    BY <1>11 DEF Version, Serving, Answer, At, Call
  <1>12. ASSUME NEW c \in Calls, ChildLoads(c) PROVE child' \in [Calls -> ChildType]
    BY <1>12 DEF ChildLoads, Serving, ChildAt, Child
  <1>13. ASSUME NEW c \in Calls, ChildExits(c) PROVE child' \in [Calls -> ChildType]
    BY <1>13 DEF ChildExits, Serving, ChildAt, Child
  <1>20. ASSUME NEW c \in Calls, ChildRunsCommand(c) PROVE child' \in [Calls -> ChildType]
    BY <1>20 DEF ChildRunsCommand
  <1>21. ASSUME NEW c \in Calls, CommandEnds(c) PROVE child' \in [Calls -> ChildType]
    BY <1>21 DEF CommandEnds
  <1>14. ASSUME NEW c \in Calls, WorkerDone(c) PROVE child' \in [Calls -> ChildType]
    BY <1>14 DEF WorkerDone, Serving
  <1>15. ASSUME NEW c \in Calls, NEW h \in Hosts, ChildRequests(c, h) PROVE child' \in [Calls -> ChildType]
    BY <1>15 DEF ChildRequests, Effective
  <1>16. CASE Close
    BY <1>16 DEF Close, Kill, Alive, ChildAt, Child, At, Call
  <1>17. CASE Exit
    BY <1>17 DEF Exit
  <1>18. CASE EditConfig
    BY <1>18 DEF EditConfig
  <1>19. CASE UNCHANGED vars
    BY <1>19 DEF vars
  <1> QED
    BY <1>1, <1>2, <1>3, <1>4, <1>5, <1>6, <1>7, <1>8, <1>9, <1>10, <1>11, <1>12, <1>13, <1>14, <1>15, <1>16, <1>17, <1>18, <1>19,
       <1>20, <1>21 DEF Next, Handle

(* A child or a thread is started only for the tools that have one. *)
LEMMA ToolStep == IInv /\ [Next]_vars => \A d \in Calls : (child'[d].at # "none" => call'[d].tool = "document")
                        /\ (worker'[d] # "none" => call'[d].tool \in {"probe", "import"})
  <1> SUFFICES ASSUME IInv, [Next]_vars PROVE \A d \in Calls : (child'[d].at # "none" => call'[d].tool = "document")
                        /\ (worker'[d] # "none" => call'[d].tool \in {"probe", "import"})
    OBVIOUS
  <1> USE McpAssumption DEF IInv, TypeOK, CallType, ChildType
  <1>1. ASSUME NEW c \in Calls, Receive(c) PROVE \A d \in Calls : (child'[d].at # "none" => call'[d].tool = "document")
                        /\ (worker'[d] # "none" => call'[d].tool \in {"probe", "import"})
    BY <1>1 DEF Receive, Serving, Call
  <1>2. ASSUME NEW c \in Calls, ReceiveDocument(c) PROVE \A d \in Calls : (child'[d].at # "none" => call'[d].tool = "document")
                        /\ (worker'[d] # "none" => call'[d].tool \in {"probe", "import"})
    BY <1>2 DEF ReceiveDocument, Serving, Call
  <1>3. ASSUME NEW c \in Calls, RefuseDocument(c) PROVE \A d \in Calls : (child'[d].at # "none" => call'[d].tool = "document")
                        /\ (worker'[d] # "none" => call'[d].tool \in {"probe", "import"})
    BY <1>3 DEF RefuseDocument, Serving, Answer, At, Call
  <1>4. ASSUME NEW c \in Calls, Spawn(c) PROVE \A d \in Calls : (child'[d].at # "none" => call'[d].tool = "document")
                        /\ (worker'[d] # "none" => call'[d].tool \in {"probe", "import"})
    BY <1>4 DEF Spawn, Serving, Goto, At, Call, Child
  <1>5. ASSUME NEW c \in Calls, ChildAnswered(c) PROVE \A d \in Calls : (child'[d].at # "none" => call'[d].tool = "document")
                        /\ (worker'[d] # "none" => call'[d].tool \in {"probe", "import"})
    BY <1>5 DEF ChildAnswered, Serving, Answer, At, Call
  <1>6. ASSUME NEW c \in Calls, ChildTimeout(c) PROVE \A d \in Calls : (child'[d].at # "none" => call'[d].tool = "document")
                        /\ (worker'[d] # "none" => call'[d].tool \in {"probe", "import"})
    BY <1>6 DEF ChildTimeout, Serving, Answer, At, Call, Kill, Alive, ChildAt, Child
  <1>7. ASSUME NEW c \in Calls, RefuseProbe(c) PROVE \A d \in Calls : (child'[d].at # "none" => call'[d].tool = "document")
                        /\ (worker'[d] # "none" => call'[d].tool \in {"probe", "import"})
    BY <1>7 DEF RefuseProbe, Serving, Answer, At, Call
  <1>8. ASSUME NEW c \in Calls, StartWorker(c) PROVE \A d \in Calls : (child'[d].at # "none" => call'[d].tool = "document")
                        /\ (worker'[d] # "none" => call'[d].tool \in {"probe", "import"})
    BY <1>8 DEF StartWorker, Serving, Goto, At, Call
  <1>9. ASSUME NEW c \in Calls, WorkerAnswered(c) PROVE \A d \in Calls : (child'[d].at # "none" => call'[d].tool = "document")
                        /\ (worker'[d] # "none" => call'[d].tool \in {"probe", "import"})
    BY <1>9 DEF WorkerAnswered, Serving, Answer, At, Call
  <1>10. ASSUME NEW c \in Calls, ProbeTimeout(c) PROVE \A d \in Calls : (child'[d].at # "none" => call'[d].tool = "document")
                        /\ (worker'[d] # "none" => call'[d].tool \in {"probe", "import"})
    BY <1>10 DEF ProbeTimeout, Serving, Answer, At, Call
  <1>11. ASSUME NEW c \in Calls, Version(c) PROVE \A d \in Calls : (child'[d].at # "none" => call'[d].tool = "document")
                        /\ (worker'[d] # "none" => call'[d].tool \in {"probe", "import"})
    BY <1>11 DEF Version, Serving, Answer, At, Call
  <1>12. ASSUME NEW c \in Calls, ChildLoads(c) PROVE \A d \in Calls : (child'[d].at # "none" => call'[d].tool = "document")
                        /\ (worker'[d] # "none" => call'[d].tool \in {"probe", "import"})
    BY <1>12 DEF ChildLoads, Serving, ChildAt, Child
  <1>13. ASSUME NEW c \in Calls, ChildExits(c) PROVE \A d \in Calls : (child'[d].at # "none" => call'[d].tool = "document")
                        /\ (worker'[d] # "none" => call'[d].tool \in {"probe", "import"})
    BY <1>13 DEF ChildExits, Serving, ChildAt, Child
  <1>20. ASSUME NEW c \in Calls, ChildRunsCommand(c) PROVE \A d \in Calls : (child'[d].at # "none" => call'[d].tool = "document")
                        /\ (worker'[d] # "none" => call'[d].tool \in {"probe", "import"})
    BY <1>20 DEF ChildRunsCommand
  <1>21. ASSUME NEW c \in Calls, CommandEnds(c) PROVE \A d \in Calls : (child'[d].at # "none" => call'[d].tool = "document")
                        /\ (worker'[d] # "none" => call'[d].tool \in {"probe", "import"})
    BY <1>21 DEF CommandEnds
  <1>14. ASSUME NEW c \in Calls, WorkerDone(c) PROVE \A d \in Calls : (child'[d].at # "none" => call'[d].tool = "document")
                        /\ (worker'[d] # "none" => call'[d].tool \in {"probe", "import"})
    BY <1>14 DEF WorkerDone, Serving
  <1>15. ASSUME NEW c \in Calls, NEW h \in Hosts, ChildRequests(c, h) PROVE \A d \in Calls : (child'[d].at # "none" => call'[d].tool = "document")
                        /\ (worker'[d] # "none" => call'[d].tool \in {"probe", "import"})
    BY <1>15 DEF ChildRequests, Effective
  <1>16. CASE Close
    BY <1>16 DEF Close, Kill, Alive, ChildAt, Child, At, Call
  <1>17. CASE Exit
    BY <1>17 DEF Exit
  <1>18. CASE EditConfig
    BY <1>18 DEF EditConfig
  <1>19. CASE UNCHANGED vars
    BY <1>19 DEF vars
  <1> QED
    BY <1>1, <1>2, <1>3, <1>4, <1>5, <1>6, <1>7, <1>8, <1>9, <1>10, <1>11, <1>12, <1>13, <1>14, <1>15, <1>16, <1>17, <1>18, <1>19,
       <1>20, <1>21 DEF Next, Handle

(* A child is started with its handler waiting, and dies with it. *)
LEMMA NoOrphansStep == IInv /\ [Next]_vars => NoOrphans'
  <1> SUFFICES ASSUME IInv, [Next]_vars PROVE NoOrphans'
    OBVIOUS
  <1> USE McpAssumption DEF IInv, TypeOK, CallType, ChildType, ChildInv, NoOrphans, Alive, Ended
  <1>1. ASSUME NEW c \in Calls, Receive(c) PROVE NoOrphans'
    BY <1>1 DEF Receive, Serving, Call
  <1>2. ASSUME NEW c \in Calls, ReceiveDocument(c) PROVE NoOrphans'
    BY <1>2 DEF ReceiveDocument, Serving, Call
  <1>3. ASSUME NEW c \in Calls, RefuseDocument(c) PROVE NoOrphans'
    BY <1>3 DEF RefuseDocument, Serving, Answer, At, Call
  <1>4. ASSUME NEW c \in Calls, Spawn(c) PROVE NoOrphans'
    BY <1>4 DEF Spawn, Serving, Goto, At, Call, Child
  <1>5. ASSUME NEW c \in Calls, ChildAnswered(c) PROVE NoOrphans'
    BY <1>5 DEF ChildAnswered, Serving, Answer, At, Call
  <1>6. ASSUME NEW c \in Calls, ChildTimeout(c) PROVE NoOrphans'
    BY <1>6 DEF ChildTimeout, Serving, Answer, At, Call, Kill, Alive, ChildAt, Child
  <1>7. ASSUME NEW c \in Calls, RefuseProbe(c) PROVE NoOrphans'
    BY <1>7 DEF RefuseProbe, Serving, Answer, At, Call
  <1>8. ASSUME NEW c \in Calls, StartWorker(c) PROVE NoOrphans'
    BY <1>8 DEF StartWorker, Serving, Goto, At, Call
  <1>9. ASSUME NEW c \in Calls, WorkerAnswered(c) PROVE NoOrphans'
    BY <1>9 DEF WorkerAnswered, Serving, Answer, At, Call
  <1>10. ASSUME NEW c \in Calls, ProbeTimeout(c) PROVE NoOrphans'
    BY <1>10 DEF ProbeTimeout, Serving, Answer, At, Call
  <1>11. ASSUME NEW c \in Calls, Version(c) PROVE NoOrphans'
    BY <1>11 DEF Version, Serving, Answer, At, Call
  <1>12. ASSUME NEW c \in Calls, ChildLoads(c) PROVE NoOrphans'
    BY <1>12 DEF ChildLoads, Serving, ChildAt, Child
  <1>13. ASSUME NEW c \in Calls, ChildExits(c) PROVE NoOrphans'
    BY <1>13 DEF ChildExits, Serving, ChildAt, Child
  <1>20. ASSUME NEW c \in Calls, ChildRunsCommand(c) PROVE NoOrphans'
    BY <1>20 DEF ChildRunsCommand
  <1>21. ASSUME NEW c \in Calls, CommandEnds(c) PROVE NoOrphans'
    BY <1>21 DEF CommandEnds
  <1>14. ASSUME NEW c \in Calls, WorkerDone(c) PROVE NoOrphans'
    BY <1>14 DEF WorkerDone, Serving
  <1>15. ASSUME NEW c \in Calls, NEW h \in Hosts, ChildRequests(c, h) PROVE NoOrphans'
    BY <1>15 DEF ChildRequests, Effective
  <1>16. CASE Close
    BY <1>16 DEF Close, Kill, Alive, ChildAt, Child, At, Call
  <1>17. CASE Exit
    BY <1>17 DEF Exit
  <1>18. CASE EditConfig
    BY <1>18 DEF EditConfig
  <1>19. CASE UNCHANGED vars
    BY <1>19 DEF vars
  <1> QED
    BY <1>1, <1>2, <1>3, <1>4, <1>5, <1>6, <1>7, <1>8, <1>9, <1>10, <1>11, <1>12, <1>13, <1>14, <1>15, <1>16, <1>17, <1>18, <1>19,
       <1>20, <1>21 DEF Next, Handle

(* The handler of a call goes on, with the client's arguments.               *)
Advances(c) ==
    /\ \A d \in Calls : call'[d].allow = call[d].allow /\ call'[d].deny = call[d].deny
    /\ \A d \in Calls \ {c} : call'[d] = call[d]
    /\ call[c].at \in {"received", "waiting"} /\ call'[c].at \notin {"none", "received"}

ArgumentsSame == \A d \in Calls : DenyList(d)' = DenyList(d)

(* The list build_document_argv makes depends on nothing else.               *)
LEMMA ArgumentsKept ==
    ASSUME IInv, NEW c \in Calls, Advances(c), operator' = operator
    PROVE  ArgumentsSame
  BY DEF Advances, DenyList, ArgumentsSame

(* The command line of a child is never changed. *)
LEMMA ChildStep == IInv /\ [Next]_vars => ChildInv'
  <1> SUFFICES ASSUME IInv, [Next]_vars PROVE ChildInv'
    OBVIOUS
  <1> USE McpAssumption DEF IInv, TypeOK, CallType, ChildType, ChildInv, DenyList
  <1>1. ASSUME NEW c \in Calls, Receive(c) PROVE ChildInv'
    BY <1>1 DEF Receive, Serving, Call
  <1>2. ASSUME NEW c \in Calls, ReceiveDocument(c) PROVE ChildInv'
    <2>1. PICK lists \in ClientLists, inside \in BOOLEAN :
             call' = [call EXCEPT ![c] =
                         Call("received", "document", inside, lists.allow, lists.deny, "none")]
      BY <1>2 DEF ReceiveDocument
    <2>2. child[c].at = "none" /\ UNCHANGED <<child, operator>>
      BY <1>2 DEF ReceiveDocument, Serving
    <2> QED
      BY <2>1, <2>2 DEF Call
  <1>3. ASSUME NEW c \in Calls, RefuseDocument(c) PROVE ChildInv'
    <2>0. ChildInv
      OBVIOUS
    <2>1. UNCHANGED <<child, operator>>
      BY <1>3 DEF RefuseDocument
    <2>2. Advances(c)
      BY <1>3 DEF RefuseDocument, Serving, Answer, At, Call, Advances
    <2>3. ArgumentsSame
      BY <2>1, <2>2, ArgumentsKept
    <2> HIDE DEF DenyList, IInv, TypeOK
    <2> QED
      BY <2>0, <2>1, <2>2, <2>3 DEF Advances, ArgumentsSame
  <1>4. ASSUME NEW c \in Calls, Spawn(c) PROVE ChildInv'
    <2>0. ChildInv
      OBVIOUS
    <2>1. operator' = operator /\ child' = [child EXCEPT ![c] = Child("started", {}, DenyList(c), {})]
      BY <1>4 DEF Spawn
    <2>2. Advances(c)
      BY <1>4 DEF Spawn, Serving, Goto, At, Call, Advances
    <2>3. ArgumentsSame
      BY <2>1, <2>2, ArgumentsKept
    <2> HIDE DEF DenyList, IInv, TypeOK
    <2> QED
      BY <2>0, <2>1, <2>2, <2>3 DEF Advances, ArgumentsSame, Child
  <1>5. ASSUME NEW c \in Calls, ChildAnswered(c) PROVE ChildInv'
    <2>0. ChildInv
      OBVIOUS
    <2>1. UNCHANGED <<child, operator>>
      BY <1>5 DEF ChildAnswered
    <2>2. Advances(c)
      BY <1>5 DEF ChildAnswered, Serving, Answer, At, Call, Advances
    <2>3. ArgumentsSame
      BY <2>1, <2>2, ArgumentsKept
    <2> HIDE DEF DenyList, IInv, TypeOK
    <2> QED
      BY <2>0, <2>1, <2>2, <2>3 DEF Advances, ArgumentsSame
  <1>6. ASSUME NEW c \in Calls, ChildTimeout(c) PROVE ChildInv'
    <2>0. ChildInv
      OBVIOUS
    <2>1. /\ operator' = operator /\ call[c].at = "waiting"
          /\ \A d \in Calls : child'[d].allow = child[d].allow /\ child'[d].deny = child[d].deny
                             /\ (child[d].at = "none" => child'[d].at = "none")
                             /\ (child'[d].at # "none" => child[d].at # "none")
      BY <1>6 DEF ChildTimeout, Serving, Kill, Alive, ChildAt, Child
    <2>2. Advances(c)
      BY <1>6 DEF ChildTimeout, Serving, Answer, At, Call, Advances
    <2>3. ArgumentsSame
      BY <2>1, <2>2, ArgumentsKept
    <2> HIDE DEF DenyList, IInv, TypeOK
    <2> QED
      BY <2>0, <2>1, <2>2, <2>3 DEF Advances, ArgumentsSame
  <1>7. ASSUME NEW c \in Calls, RefuseProbe(c) PROVE ChildInv'
    BY <1>7 DEF RefuseProbe, Serving, Answer, At, Call
  <1>8. ASSUME NEW c \in Calls, StartWorker(c) PROVE ChildInv'
    BY <1>8 DEF StartWorker, Serving, Goto, At, Call
  <1>9. ASSUME NEW c \in Calls, WorkerAnswered(c) PROVE ChildInv'
    BY <1>9, SMTT(30) DEF WorkerAnswered, Serving, Answer, At, Call
  <1>10. ASSUME NEW c \in Calls, ProbeTimeout(c) PROVE ChildInv'
    BY <1>10 DEF ProbeTimeout, Serving, Answer, At, Call
  <1>11. ASSUME NEW c \in Calls, Version(c) PROVE ChildInv'
    BY <1>11 DEF Version, Serving, Answer, At, Call
  <1>12. ASSUME NEW c \in Calls, ChildLoads(c) PROVE ChildInv'
    BY <1>12 DEF ChildLoads, Serving, ChildAt, Child
  <1>13. ASSUME NEW c \in Calls, ChildExits(c) PROVE ChildInv'
    <2>0. ChildInv
      OBVIOUS
    <2>1. /\ child[c].at = "loaded" /\ UNCHANGED <<call, operator>>
          /\ \A d \in Calls : child'[d].allow = child[d].allow /\ child'[d].deny = child[d].deny
                             /\ (child'[d].at # "none" => child[d].at # "none")
                             /\ (child[d].at = "none" => child'[d].at = "none")
      BY <1>13 DEF ChildExits, ChildAt, Child
    <2> QED
      BY <2>1
  <1>20. ASSUME NEW c \in Calls, ChildRunsCommand(c) PROVE ChildInv'
    BY <1>20 DEF ChildRunsCommand
  <1>21. ASSUME NEW c \in Calls, CommandEnds(c) PROVE ChildInv'
    BY <1>21 DEF CommandEnds
  <1>14. ASSUME NEW c \in Calls, WorkerDone(c) PROVE ChildInv'
    BY <1>14 DEF WorkerDone, Serving
  <1>15. ASSUME NEW c \in Calls, NEW h \in Hosts, ChildRequests(c, h) PROVE ChildInv'
    BY <1>15 DEF ChildRequests, Effective
  <1>16. CASE Close
    BY <1>16 DEF Close, Kill, Alive, ChildAt, Child, At, Call
  <1>17. CASE Exit
    BY <1>17 DEF Exit
  <1>18. CASE EditConfig
    BY <1>18 DEF EditConfig
  <1>19. CASE UNCHANGED vars
    BY <1>19 DEF vars
  <1> QED
    BY <1>1, <1>2, <1>3, <1>4, <1>5, <1>6, <1>7, <1>8, <1>9, <1>10, <1>11, <1>12, <1>13, <1>14, <1>15, <1>16, <1>17, <1>18, <1>19,
       <1>20, <1>21 DEF Next, Handle

(* A request is decided by the child's own lists. *)
LEMMA RequestStep == IInv /\ [Next]_vars => RequestInv'
  <1> SUFFICES ASSUME IInv, [Next]_vars PROVE RequestInv'
    OBVIOUS
  <1> USE DEF IInv, TypeOK, CallType, ChildType, ChildInv, RequestInv, NoOrphans, Alive
  <1>1. ASSUME NEW c \in Calls, Receive(c) PROVE RequestInv'
    BY <1>1 DEF Receive, Serving, Call
  <1>2. ASSUME NEW c \in Calls, ReceiveDocument(c) PROVE RequestInv'
    BY <1>2 DEF ReceiveDocument, Serving, Call
  <1>3. ASSUME NEW c \in Calls, RefuseDocument(c) PROVE RequestInv'
    BY <1>3 DEF RefuseDocument, Serving, Answer, At, Call
  <1>4. ASSUME NEW c \in Calls, Spawn(c) PROVE RequestInv'
    BY <1>4 DEF Spawn, Serving, Goto, At, Call, Child
  <1>5. ASSUME NEW c \in Calls, ChildAnswered(c) PROVE RequestInv'
    BY <1>5 DEF ChildAnswered, Serving, Answer, At, Call
  <1>6. ASSUME NEW c \in Calls, ChildTimeout(c) PROVE RequestInv'
    BY <1>6 DEF ChildTimeout, Serving, Answer, At, Call, Kill, Alive, ChildAt, Child
  <1>7. ASSUME NEW c \in Calls, RefuseProbe(c) PROVE RequestInv'
    BY <1>7 DEF RefuseProbe, Serving, Answer, At, Call
  <1>8. ASSUME NEW c \in Calls, StartWorker(c) PROVE RequestInv'
    BY <1>8 DEF StartWorker, Serving, Goto, At, Call
  <1>9. ASSUME NEW c \in Calls, WorkerAnswered(c) PROVE RequestInv'
    BY <1>9 DEF WorkerAnswered, Serving, Answer, At, Call
  <1>10. ASSUME NEW c \in Calls, ProbeTimeout(c) PROVE RequestInv'
    BY <1>10 DEF ProbeTimeout, Serving, Answer, At, Call
  <1>11. ASSUME NEW c \in Calls, Version(c) PROVE RequestInv'
    BY <1>11 DEF Version, Serving, Answer, At, Call
  <1>12. ASSUME NEW c \in Calls, ChildLoads(c) PROVE RequestInv'
    BY <1>12 DEF ChildLoads, Serving, ChildAt, Child
  <1>13. ASSUME NEW c \in Calls, ChildExits(c) PROVE RequestInv'
    BY <1>13 DEF ChildExits, Serving, ChildAt, Child
  <1>20. ASSUME NEW c \in Calls, ChildRunsCommand(c) PROVE RequestInv'
    BY <1>20 DEF ChildRunsCommand
  <1>21. ASSUME NEW c \in Calls, CommandEnds(c) PROVE RequestInv'
    BY <1>21 DEF CommandEnds
  <1>14. ASSUME NEW c \in Calls, WorkerDone(c) PROVE RequestInv'
    BY <1>14 DEF WorkerDone, Serving
  <1>15. ASSUME NEW c \in Calls, NEW h \in Hosts, ChildRequests(c, h) PROVE RequestInv'
    <2>1. Effective(c) = child[c].file
      BY <1>15 DEF ChildRequests, Effective
    <2>2. /\ request' = [request EXCEPT ![c] =
                           [host |-> h, sent |-> h \in Admits(child[c].file, child[c].deny)]]
          /\ child' = child /\ child[c].at = "loaded"
      BY <1>15, <2>1 DEF ChildRequests
    <2> QED
      BY <2>2, ZenonT(40)
  <1>16. CASE Close
    BY <1>16 DEF Close, Kill, Alive, ChildAt, Child, At, Call
  <1>17. CASE Exit
    BY <1>17 DEF Exit
  <1>18. CASE EditConfig
    BY <1>18 DEF EditConfig
  <1>19. CASE UNCHANGED vars
    BY <1>19 DEF vars
  <1> QED
    BY <1>1, <1>2, <1>3, <1>4, <1>5, <1>6, <1>7, <1>8, <1>9, <1>10, <1>11, <1>12, <1>13, <1>14, <1>15, <1>16, <1>17, <1>18, <1>19,
       <1>20, <1>21 DEF Next, Handle

(* Every variable keeps its type.                                            *)
LEMMA TypeStep == IInv /\ [Next]_vars => TypeOK'
  <1> SUFFICES ASSUME IInv, [Next]_vars PROVE TypeOK'
    OBVIOUS
  <1>1. /\ config' \in Lists \cup {Invalid} /\ edits' \in 0..MaxEdits /\ operator' \in Lists
        /\ server' \in {"serving", "closing", "exited"}
        /\ worker' \in [Calls -> {"none", "running", "done"}]
        /\ command' \in [Calls -> {"none", "running", "ended"}]
    <2>1. CASE EditConfig
      BY <2>1, McpAssumption DEF EditConfig, IInv, TypeOK
    <2>2. CASE UNCHANGED vars
      BY <2>2 DEF vars, IInv, TypeOK
    <2>3. CASE Next /\ ~EditConfig
      <3>1. UNCHANGED <<config, edits, operator>>
        BY <2>3 DEF Next, Handle, Receive, ReceiveDocument, RefuseDocument, Spawn, ChildAnswered,
                    ChildTimeout, RefuseProbe, StartWorker, WorkerAnswered, ProbeTimeout, Version,
                    ChildLoads, ChildRunsCommand, CommandEnds, ChildExits, WorkerDone,
                    ChildRequests, Close, Exit
      <3>2. /\ server' \in {"serving", "closing", "exited"}
            /\ worker' \in [Calls -> {"none", "running", "done"}]
            /\ command' \in [Calls -> {"none", "running", "ended"}]
        BY <2>3, ZenonT(40) DEF Next, Handle, Receive, ReceiveDocument, RefuseDocument, Spawn, ChildAnswered,
                    ChildTimeout, RefuseProbe, StartWorker, WorkerAnswered, ProbeTimeout, Version,
                    ChildLoads, ChildRunsCommand, CommandEnds, ChildExits, WorkerDone,
                    ChildRequests, Close, Exit, IInv, TypeOK
      <3> QED
        BY <3>1, <3>2 DEF IInv, TypeOK
    <2> QED
      BY <2>1, <2>2, <2>3
  <1>2. request' \in [Calls -> [host : Hosts \cup {None}, sent : BOOLEAN]]
    <2>1. ASSUME NEW c \in Calls, NEW h \in Hosts, ChildRequests(c, h)
          PROVE  request' \in [Calls -> [host : Hosts \cup {None}, sent : BOOLEAN]]
      <3> DEFINE admitted == h \in Admits(Effective(c), child[c].deny)
      <3>0. admitted \in BOOLEAN
        BY SMT
      <3> HIDE DEF admitted
      <3>1. [host |-> h, sent |-> admitted] \in [host : Hosts \cup {None}, sent : BOOLEAN]
        BY <3>0
      <3> QED
        BY <2>1, <3>1, Zenon DEF ChildRequests, IInv, TypeOK, admitted
    <2>2. CASE \A c \in Calls, h \in Hosts : ~ChildRequests(c, h)
      BY <2>2 DEF Next, Handle, Receive, ReceiveDocument, RefuseDocument, Spawn, ChildAnswered,
                  ChildTimeout, RefuseProbe, StartWorker, WorkerAnswered, ProbeTimeout, Version,
                  ChildLoads, ChildRunsCommand, CommandEnds, ChildExits, WorkerDone, Close, Exit, EditConfig, vars, IInv, TypeOK
    <2> QED
      BY <2>1, <2>2
  <1> QED
    BY <1>1, <1>2, CallTypeStep, ChildTypeStep, ToolStep DEF TypeOK
-----------------------------------------------------------------------------
(* The inductive invariant holds in every state of the MCP server.           *)
THEOREM Inductive == Spec => []IInv
  <1>1. IInv /\ [Next]_vars => IInv'
    BY TypeStep, ChildStep, RequestStep, NoOrphansStep DEF IInv
  <1> QED
    BY InitEstablishes, <1>1, PTL DEF Spec

(* Every variable has its type (TypeOK).                                     *)
THEOREM TypeCorrect == Spec => []TypeOK
  <1>1. IInv => TypeOK
    BY DEF IInv
  <1> QED
    BY Inductive, <1>1, PTL

(* No mdok child outlives its handler, whatever times out and whenever the   *)
(* session is closed (NoOrphans).                                            *)
THEOREM OrphansCorrect == Spec => []NoOrphans
  <1>1. IInv => NoOrphans
    BY DEF IInv
  <1> QED
    BY Inductive, <1>1, PTL

(* The client's lists never widen the policy its child loaded, whatever the  *)
(* patterns match, whichever configuration the client's path leads to and    *)
(* however often mdok.toml is edited (ClientNeverWidens).                    *)
THEOREM WidensCorrect == Spec => []ClientNeverWidens
  <1>1. IInv => ClientNeverWidens
    BY AdmitsHosts DEF IInv, TypeOK, ChildType, RequestInv, ClientNeverWidens
  <1> QED
    BY Inductive, <1>1, PTL

(* The client's lists narrow the operator's policy (ClientNarrows).          *)
THEOREM NarrowsCorrect == Spec => []ClientNarrows
  <1>1. ASSUME IInv PROVE ClientNarrows
    <2> SUFFICES ASSUME NEW c \in Calls, request[c].sent
                 PROVE  /\ request[c].host \notin Match(call[c].deny)
                        /\ operator # {} /\ call[c].allow # {} /\ child[c].file = operator
                             => request[c].host \in Match(call[c].allow)
      BY DEF ClientNarrows
    <2>1. /\ request[c].host \in Admits(child[c].file, DenyList(c))
          /\ call[c].deny \in Lists /\ call[c].allow \in Lists /\ operator \in Lists
      BY <1>1 DEF IInv, TypeOK, CallType, RequestInv, ChildInv
    <2>2. request[c].host \notin Match(call[c].deny)
      BY <2>1, McpAssumption DEF Admits, Match, DenyList, Lists
    <2>3. ASSUME operator # {}, call[c].allow # {}, child[c].file = operator
          PROVE  request[c].host \in Match(call[c].allow)
      <3>1. PICK p \in operator : request[c].host \in Matching[p]
        BY <2>1, <2>3 DEF Admits, Match
      <3>2. p \notin operator \ call[c].allow
        BY <2>1, <2>3, <3>1 DEF Admits, Match, DenyList
      <3> QED
        BY <3>1, <3>2 DEF Match
    <2> QED
      BY <2>2, <2>3
  <1> QED
    BY Inductive, <1>1, PTL

(* An answered call is closed: its answer is not replaced and no request is  *)
(* made for it any more (AnswerIsFinal).                                     *)
THEOREM AnswerCorrect == Spec => AnswerIsFinal
  <1>1. ASSUME IInv, Next
        PROVE  \A c \in Calls : call[c].at = "answered"
                  => call'[c] = call[c] /\ request'[c] = request[c]
    <2> SUFFICES ASSUME NEW d \in Calls, call[d].at = "answered"
                 PROVE  call'[d] = call[d] /\ request'[d] = request[d]
      OBVIOUS
    <2> USE <1>1 DEF IInv, TypeOK, CallType, ChildType, NoOrphans, Alive
    <2>1. ASSUME NEW c \in Calls, Receive(c) \/ ReceiveDocument(c)
          PROVE  call'[d] = call[d] /\ request'[d] = request[d]
      <3>1. call[c].at = "none" /\ request' = request
        BY <2>1 DEF Receive, ReceiveDocument, Serving
      <3>2. \A e \in Calls \ {c} : call'[e] = call[e]
        BY <2>1, ZenonT(40) DEF Receive, ReceiveDocument
      <3> QED
        BY <3>1, <3>2
    <2>6. ASSUME NEW c \in Calls, RefuseDocument(c) \/ Spawn(c)
                    \/ ChildAnswered(c) \/ ChildTimeout(c)
          PROVE  call'[d] = call[d] /\ request'[d] = request[d]
      BY <2>6 DEF RefuseDocument, Spawn, ChildAnswered, ChildTimeout, Serving, Goto, Answer
    <2>2. ASSUME NEW c \in Calls, RefuseProbe(c) \/ StartWorker(c) \/ WorkerAnswered(c)
                    \/ ProbeTimeout(c) \/ Version(c)
          PROVE  call'[d] = call[d] /\ request'[d] = request[d]
      BY <2>2 DEF RefuseProbe, StartWorker, WorkerAnswered, ProbeTimeout, Version, Serving, Goto,
                  Answer
    <2>3. ASSUME NEW c \in Calls, ChildLoads(c) \/ ChildRunsCommand(c) \/ CommandEnds(c)
                    \/ ChildExits(c) \/ WorkerDone(c)
          PROVE  call'[d] = call[d] /\ request'[d] = request[d]
      BY <2>3 DEF ChildLoads, ChildRunsCommand, CommandEnds, ChildExits, WorkerDone
    <2>4. ASSUME NEW c \in Calls, NEW h \in Hosts, ChildRequests(c, h)
          PROVE  call'[d] = call[d] /\ request'[d] = request[d]
      BY <2>4 DEF ChildRequests
    <2>5. ASSUME Close \/ Exit \/ EditConfig
          PROVE  call'[d] = call[d] /\ request'[d] = request[d]
      BY <2>5 DEF Close, Exit, EditConfig
    <2> QED
      BY <2>1, <2>2, <2>3, <2>4, <2>5, <2>6 DEF Next, Handle
  <1>2. IInv /\ [Next]_vars => [\A c \in Calls : call[c].at = "answered"
                                   => call'[c] = call[c] /\ request'[c] = request[c]]_vars
    BY <1>1
  <1> QED
    BY Inductive, <1>2, PTL DEF Spec, AnswerIsFinal
=============================================================================
