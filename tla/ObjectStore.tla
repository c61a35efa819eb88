----------------------------- MODULE ObjectStore -----------------------------
(***************************************************************************)
(* The objects a RePoller keeps alive for its users (saveObject and        *)
(* findObject of source/extention/repoller.cpp).  Both are requests from   *)
(* any thread; each becomes a task of the IO thread, which looks the id up *)
(* and calls the requester back.  Callbacks may make further requests.     *)
(*                                                                         *)
(* Requests are numbered in the order they were accepted, and the object   *)
(* of a save request goes by the request's number.  The queue is that of   *)
(* the IO thread, a Fifo; its TaskDistributor may be shut down, after      *)
(* which nothing more is run.                                              *)
(***************************************************************************)
EXTENDS Naturals, Sequences, FiniteSets, Functions

CONSTANTS
    Ids,         \* object ids
    MaxRequests  \* bound on the requests accepted

ASSUME MaxRequestsAssumption == MaxRequests \in Nat

VARIABLES
    m_objects, \* the map from ids to objects
    que,       \* requests waiting for the IO thread
    saving,    \* the save whose callback runs before the object is stored
    running,   \* external: the TaskDistributor was not shut down
    log,       \* the requests accepted
    answers,   \* the callbacks made: request, success and object
    dropped    \* objects that were refused or overwritten

objectsVars == <<m_objects, que, saving, running, log, answers, dropped>>

None == 0  \* no request, no object

ObjectsInit ==
    /\ m_objects = <<>>
    /\ que = <<>>
    /\ saving = None
    /\ running = TRUE
    /\ log = <<>>
    /\ answers = <<>>
    /\ dropped = {}

-----------------------------------------------------------------------------
\* ev->addTask(...): the request waits for the IO thread.
Accept(request) ==
    /\ Len(log) < MaxRequests
    /\ log' = Append(log, request)
    /\ que' = Append(que, Len(log) + 1)
    /\ UNCHANGED <<m_objects, saving, running, answers, dropped>>

saveObject(id, force) == Accept([op |-> "save", id |-> id, flag |-> force])

findObject(id, takeOrNot) == Accept([op |-> "find", id |-> id, flag |-> takeOrNot])

-----------------------------------------------------------------------------
\* The IO thread takes the next request of a kind from its queue.
Run(op) ==
    /\ running
    /\ saving = None
    /\ que # <<>>
    /\ log[Head(que)].op = op
    /\ que' = Tail(que)

CallBack(n, ret, obj) == answers' = Append(answers, [n |-> n, ret |-> ret, obj |-> obj])

\* The id is in use: overwrite the object and tell, or refuse.
SaveAgain ==
    /\ Run("save")
    /\ LET n == Head(que)
           id == log[n].id
           force == log[n].flag
       IN  /\ id \in DOMAIN m_objects
           /\ m_objects' = IF force THEN [m_objects EXCEPT ![id] = n] ELSE m_objects
           /\ dropped' = dropped \cup {IF force THEN m_objects[id] ELSE n}
           /\ CallBack(n, force, n)
    /\ UNCHANGED <<saving, running, log>>

\* The id is free: tell the requester first ...
SaveNew ==
    /\ Run("save")
    /\ LET n == Head(que)
       IN  /\ log[n].id \notin DOMAIN m_objects
           /\ CallBack(n, TRUE, n)
           /\ saving' = n
    /\ UNCHANGED <<m_objects, running, log, dropped>>

\* Announces the object and never stores it.
StoreNew_Loses ==
    /\ saving # None
    /\ saving' = None
    /\ UNCHANGED <<m_objects, que, running, log, answers, dropped>>

\* ... and store the object when the callback has returned.
StoreNew ==
    /\ saving # None
    /\ m_objects' = [id \in DOMAIN m_objects \cup {log[saving].id} |->
                         IF id = log[saving].id THEN saving ELSE m_objects[id]]
    /\ saving' = None
    /\ UNCHANGED <<que, running, log, answers, dropped>>

\* Takes an object and leaves its entry in the map.
Find_Keeps ==
    /\ Run("find")
    /\ LET n == Head(que)
           id == log[n].id
           found == id \in DOMAIN m_objects
       IN  CallBack(n, found, IF found THEN m_objects[id] ELSE None)
    /\ UNCHANGED <<m_objects, saving, running, log, dropped>>

\* Does not call back when nothing was found.
Find_Silent ==
    /\ Run("find")
    /\ LET n == Head(que)
           id == log[n].id
           take == log[n].flag
       IN  IF id \in DOMAIN m_objects
           THEN /\ CallBack(n, TRUE, m_objects[id])
                /\ m_objects' = IF take THEN Restrict(m_objects, DOMAIN m_objects \ {id})
                                        ELSE m_objects
           ELSE UNCHANGED <<answers, m_objects>>
    /\ UNCHANGED <<saving, running, log, dropped>>

Find ==
    /\ Run("find")
    /\ LET n == Head(que)
           id == log[n].id
           take == log[n].flag
           found == id \in DOMAIN m_objects
       IN  /\ CallBack(n, found, IF found THEN m_objects[id] ELSE None)
           /\ m_objects' = IF found /\ take
                           THEN Restrict(m_objects, DOMAIN m_objects \ {id})
                           ELSE m_objects
    /\ UNCHANGED <<saving, running, log, dropped>>

\* TaskDistributor::shutdown: the IO thread leaves its loop after some task;
\* what is queued then stays there.
Shutdown ==
    /\ running
    /\ saving = None
    /\ running' = FALSE
    /\ UNCHANGED <<m_objects, que, saving, log, answers, dropped>>

ObjectsNext ==
    \/ \E id \in Ids, flag \in BOOLEAN : saveObject(id, flag) \/ findObject(id, flag)
    \/ SaveAgain \/ SaveNew \/ StoreNew \/ Find
    \/ Shutdown

ObjectsSpec == ObjectsInit /\ [][ObjectsNext]_objectsVars

\* The IO thread runs its tasks and callbacks return.
ObjectsFairSpec == ObjectsSpec /\ WF_objectsVars(SaveAgain \/ SaveNew \/ Find) /\ WF_objectsVars(StoreNew)

-----------------------------------------------------------------------------
(* Every variable stays within its type (the members of _private and the   *)
(* captures of the two lambdas).                                           *)
ObjectsTypeOK ==
    /\ log \in Seq([op : {"save", "find"}, id : Ids, flag : BOOLEAN])
    /\ DOMAIN m_objects \subseteq Ids
    /\ Range(m_objects) \subseteq DOMAIN log
    /\ que \in Seq(DOMAIN log)
    /\ saving \in DOMAIN log \cup {None}
    /\ running \in BOOLEAN
    /\ answers \in Seq([n : DOMAIN log, ret : BOOLEAN, obj : DOMAIN log \cup {None}])
    /\ dropped \subseteq DOMAIN log

Request(k) == log[answers[k].n]

(* Requests are called back exactly once and in the order they were        *)
(* accepted, whether they succeed or not (repoller.hh:104: whatever the    *)
(* outcome, onSave is called; the same for onFind).                        *)
AnsweredInOrder ==
    /\ \A k \in DOMAIN answers : answers[k].n = k
    /\ Len(answers) + Len(que) = Len(log)

\* The callbacks that were handed object n for good.
Takers(n) ==
    {k \in DOMAIN answers :
        Request(k).op = "find" /\ Request(k).flag /\ answers[k].obj = n}

(* An object has one place: it waits in a request, is held by the save     *)
(* that runs, is in the map under one id, was handed to one taker, or was  *)
(* dropped.  Taking it away and storing it again never duplicates it.      *)
OnePlace ==
    \A n \in {m \in DOMAIN log : log[m].op = "save"} :
        Cardinality({k \in DOMAIN que : que[k] = n})
        + Cardinality({id \in DOMAIN m_objects : m_objects[id] = n})
        + Cardinality(Takers(n))
        + (IF saving = n THEN 1 ELSE 0)
        + (IF n \in dropped THEN 1 ELSE 0)  = 1

(* What holds of the store between any two steps: each request has had one *)
(* answer in its turn or waits for it, and each object has one place.      *)
StoreInv == ObjectsTypeOK /\ AnsweredInOrder /\ OnePlace

\* Callbacks before the k-th that put an object under id or took it away.
Changes(k, id) ==
    {j \in 1 .. k - 1 :
        /\ answers[j].ret
        /\ Request(j).id = id
        /\ Request(j).op = "save" \/ Request(j).flag}

(* The k-th callback, if it answers a find, is given what the last         *)
(* successful save or take on that id left there, although a save is       *)
(* announced before it is stored.                                          *)
FindsLatest ==
    \A k \in DOMAIN answers :
        Request(k).op = "find" =>
            LET before == Changes(k, Request(k).id)
                last == CHOOSE j \in before : \A i \in before : i <= j
            IN  answers[k].obj =
                    IF before = {} \/ Request(last).op = "find"
                    THEN None ELSE answers[last].obj

(* While the TaskDistributor runs, a request that was accepted is answered *)
(* (the lambdas of saveObject and findObject on the IO thread).            *)
Answers ==
    \A n \in 1 .. MaxRequests :
        n \in DOMAIN log ~> (n \in DOMAIN answers \/ ~running)
=============================================================================
