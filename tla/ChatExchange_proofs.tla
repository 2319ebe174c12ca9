------------------------ MODULE ChatExchange_proofs ------------------------
(***************************************************************************)
(* The chat turn, proved for any users, sessions and turns, any number of  *)
(* them in flight and any number of failures.                              *)
(*                                                                         *)
(* OwnersStay needs only that every session has a row, perhaps "absent".   *)
(* The other properties rest on Inv: the types, and TurnState, what a turn *)
(* has done at each label.  On top of it each has its own invariant:       *)
(* LookedUp (who found a session owned, and who wrote its messages),       *)
(* Claims (what the flags of a turn say), KeyState (the cache keys of the  *)
(* turns behind an entry) and SourcesState (the two histories of a session *)
(* at each label of its only turn).                                        *)
(***************************************************************************)
EXTENDS ChatExchange, SequenceTheorems, TLAPS

\* The only fact about the state the argument needs: every session id has a row
\* (perhaps "absent") in owner.  Which turn writes it, and when, does not matter.
OwnerTotal == owner = [s \in SessionIds |-> owner[s]]

\* Before any turn.
LEMMA InitOwnerTotal == Init => OwnerTotal
BY DEF Init, OwnerTotal

\* What one step may do to the owners: nothing, or give an unowned session,
\* or one that does not exist, to somebody.
OwnerStep ==
    \/ owner' = owner
    \/ \E s, u : owner' = [owner EXCEPT ![s] = IF @ \in {None, "absent"} THEN u ELSE @]

\* ClaimSession names only unowned sessions in its WHERE clause, CreateSession
\* does nothing on a conflict, and no other statement writes chat_sessions.
LEMMA StepOwners == ASSUME [Next]_vars PROVE OwnerStep
<1>1. ASSUME NEW r \in Requests, ClaimSession(r) PROVE OwnerStep
  <2>1. PICK ok \in BOOLEAN, done \in BOOLEAN :
          owner' = [owner EXCEPT ![Sid(r)] = IF done /\ @ = None THEN req[r].user ELSE @]
    BY <1>1 DEF ClaimSession
  <2>2. CASE done /\ owner[Sid(r)] = None
    BY <2>1, <2>2 DEF OwnerStep
  <2>3. CASE ~(done /\ owner[Sid(r)] = None)
    <3>1. owner' = [owner EXCEPT ![Sid(r)] = owner[Sid(r)]]
      BY <2>1, <2>3
    <3> QED BY <3>1 DEF OwnerStep
  <2> QED BY <2>2, <2>3
<1>2. ASSUME NEW r \in Requests, CreateSession(r) PROVE OwnerStep
  <2>1. PICK ok \in BOOLEAN, done \in BOOLEAN :
          owner' = [owner EXCEPT ![Sid(r)] = IF done /\ @ = "absent" THEN req[r].user ELSE @]
    BY <1>2 DEF CreateSession
  <2>2. CASE done /\ owner[Sid(r)] = "absent"
    BY <2>1, <2>2 DEF OwnerStep
  <2>3. CASE ~(done /\ owner[Sid(r)] = "absent")
    <3>1. owner' = [owner EXCEPT ![Sid(r)] = owner[Sid(r)]]
      BY <2>1, <2>3
    <3> QED BY <3>1 DEF OwnerStep
  <2> QED BY <2>2, <2>3
<1>3. ASSUME NEW r \in Requests, Proceed(r), ~ClaimSession(r), ~CreateSession(r)
      PROVE owner' = owner
  BY <1>3 DEF Proceed, RestoreSession, LoadContext, LoadDurable, LookupSession, AppendUserMessage,
       PushUserMessage, ReadCache, Respond, StoreCache, AppendAssistantMessage,
       PushAssistantMessage, PersistToolLogs, PersistOperationalRecords, PersistAudit, database
<1>4. ASSUME NEW r \in Requests, NEW b \in Bodies, Receive(r, b) PROVE owner' = owner
  BY <1>4 DEF Receive, database
<1>5. CASE Crash \/ Idle \/ UNCHANGED vars
  BY <1>5 DEF Crash, Idle, vars, database, OwnerStep
<1> QED BY <1>1, <1>2, <1>3, <1>4, <1>5 DEF Next, OwnerStep

\* Every step.
LEMMA OwnerTotalStays == ASSUME OwnerTotal, [Next]_vars PROVE OwnerTotal'
BY StepOwners DEF OwnerTotal, OwnerStep

\* However turns interleave, fail and die, a session that has an owner keeps
\* it: neither a take-over of an unowned session nor a first turn replaces it.
THEOREM OwnerIsFinal == Spec => OwnersStay
<1>1. OwnerTotal /\ [Next]_vars
        => [\A s \in SessionIds : owner[s] \in Users => owner'[s] = owner[s]]_vars
  <2> SUFFICES ASSUME OwnerTotal, [Next]_vars, NEW s \in SessionIds, owner[s] \in Users
               PROVE owner'[s] = owner[s]
    OBVIOUS
  <2>1. owner[s] \notin {None, "absent"}
    BY NoneAssumption, IdsAssumption
  <2>2. CASE owner' = owner
    BY <2>2
  <2>3. ASSUME NEW t, NEW u,
               owner' = [owner EXCEPT ![t] = IF @ \in {None, "absent"} THEN u ELSE @]
        PROVE owner'[s] = owner[s]
    BY <2>1, <2>3 DEF OwnerTotal
  <2> QED BY <2>2, <2>3, StepOwners DEF OwnerStep
<1>2. Spec => []OwnerTotal
  BY InitOwnerTotal, OwnerTotalStays, PTL DEF Spec
<1> QED BY <1>1, <1>2, PTL DEF Spec, OwnersStay

-----------------------------------------------------------------------------
(* Recent messages *)

\* TakeLast keeps the last Limit elements of a sequence, in order.
LEMMA TakeLastProperties ==
    ASSUME NEW S, NEW s \in Seq(S)
    PROVE  /\ TakeLast(s) \in Seq(S)
           /\ Len(TakeLast(s)) = IF Len(s) <= Limit THEN Len(s) ELSE Limit
           /\ \A i \in 1 .. Len(TakeLast(s)) :
                TakeLast(s)[i] = s[i + Len(s) - Len(TakeLast(s))]
<1>1. Len(s) \in Nat /\ Limit \in Nat \ {0} /\ \A i \in 1 .. Len(s) : s[i] \in S
  BY BoundsAssumption
<1>2. CASE Len(s) <= Limit
  BY <1>1, <1>2 DEF TakeLast
<1>3. CASE ~(Len(s) <= Limit)
  <2> DEFINE m == Len(s) - Limit + 1
  <2>1. TakeLast(s) = SubSeq(s, m, Len(s)) /\ m \in Int /\ m > 0 /\ m <= Len(s)
    BY <1>1, <1>3 DEF TakeLast
  <2>2. \A i \in m .. Len(s) : s[i] \in S
    BY <1>1, <2>1
  <2>3. /\ SubSeq(s, m, Len(s)) \in Seq(S)
        /\ Len(SubSeq(s, m, Len(s))) = IF m <= Len(s) THEN Len(s) - m + 1 ELSE 0
        /\ \A i \in 1 .. Len(s) - m + 1 : SubSeq(s, m, Len(s))[i] = s[m + i - 1]
    <3> HIDE DEF m
    <3> QED
      BY <1>1, <2>1, <2>2, SubSeqProperties
  <2> QED
    BY <1>1, <1>3, <2>1, <2>3
<1> QED
  BY <1>2, <1>3

\* Two sequences of the same length with the same elements are the same.
LEMMA SameSequence ==
    ASSUME NEW S, NEW s \in Seq(S), NEW t \in Seq(S), Len(s) = Len(t),
           \A i \in 1 .. Len(s) : s[i] = t[i]
    PROVE  s = t
<1>1. s \in [1 .. Len(s) -> S] /\ t \in [1 .. Len(s) -> S]
  BY LenProperties
<1> QED
  BY <1>1

\* Trimming after every message keeps what trimming the whole list would.
LEMMA TrimmedAppend ==
    ASSUME NEW S, NEW s \in Seq(S), NEW m \in S
    PROVE  TakeLast(Append(TakeLast(s), m)) = TakeLast(Append(s, m))
<1> DEFINE a == TakeLast(s)
           b == Append(a, m)
           c == Append(s, m)
<1>1. /\ a \in Seq(S) /\ Len(s) \in Nat /\ Limit \in Nat \ {0}
      /\ Len(a) = IF Len(s) <= Limit THEN Len(s) ELSE Limit
      /\ \A i \in 1 .. Len(a) : a[i] = s[i + Len(s) - Len(a)]
  BY TakeLastProperties, BoundsAssumption
<1>2. /\ b \in Seq(S) /\ Len(b) = Len(a) + 1 /\ b[Len(a) + 1] = m
      /\ \A i \in 1 .. Len(a) : b[i] = a[i]
  <2> HIDE DEF a
  <2> QED
    BY <1>1, AppendProperties
<1>3. /\ c \in Seq(S) /\ Len(c) = Len(s) + 1 /\ c[Len(s) + 1] = m
      /\ \A i \in 1 .. Len(s) : c[i] = s[i]
  BY AppendProperties
<1> HIDE DEF a, b, c
<1>4. /\ TakeLast(b) \in Seq(S)
      /\ Len(TakeLast(b)) = IF Len(b) <= Limit THEN Len(b) ELSE Limit
      /\ \A i \in 1 .. Len(TakeLast(b)) : TakeLast(b)[i] = b[i + Len(b) - Len(TakeLast(b))]
  BY <1>2, TakeLastProperties
<1>5. /\ TakeLast(c) \in Seq(S)
      /\ Len(TakeLast(c)) = IF Len(c) <= Limit THEN Len(c) ELSE Limit
      /\ \A i \in 1 .. Len(TakeLast(c)) : TakeLast(c)[i] = c[i + Len(c) - Len(TakeLast(c))]
  BY <1>3, TakeLastProperties
<1>6. /\ Len(TakeLast(b)) = Len(TakeLast(c))
      /\ Len(a) \in Nat /\ Len(b) \in Nat /\ Len(c) \in Nat /\ Len(TakeLast(b)) \in Nat
      /\ Len(TakeLast(b)) <= Len(b) /\ Len(TakeLast(b)) <= Len(c)
      /\ Len(s) \in Nat /\ Len(b) = Len(a) + 1 /\ Len(c) = Len(s) + 1
  BY <1>1, <1>2, <1>3, <1>4, <1>5
<1>7. ASSUME NEW i \in 1 .. Len(TakeLast(b)) PROVE TakeLast(b)[i] = TakeLast(c)[i]
  <2> DEFINE j == i + Len(b) - Len(TakeLast(b))
             k == i + Len(c) - Len(TakeLast(c))
  <2>1. TakeLast(b)[i] = b[j] /\ TakeLast(c)[i] = c[k]
    BY <1>4, <1>5, <1>6
  <2>2. /\ j \in 1 .. Len(a) + 1 /\ k \in 1 .. Len(s) + 1
        /\ k = j + Len(s) - Len(a)
    BY <1>6
  <2> HIDE DEF j, k
  <2>3. CASE j = Len(a) + 1
    <3>1. k = Len(s) + 1
      BY <1>6, <2>2, <2>3
    <3> QED
      BY <1>2, <1>3, <2>1, <2>3, <3>1
  <2>4. CASE j \in 1 .. Len(a)
    <3>1. k \in 1 .. Len(s)
      BY <1>6, <2>2, <2>4
    <3>2. b[j] = s[j + Len(s) - Len(a)] /\ c[k] = s[k]
      BY <1>1, <1>2, <1>3, <2>4, <3>1
    <3> QED
      BY <2>1, <2>2, <3>2
  <2> QED
    BY <1>6, <2>2, <2>3, <2>4
<1> QED
  BY <1>4, <1>5, <1>6, <1>7, SameSequence DEF b, c, a

-----------------------------------------------------------------------------
(* Types, and what a turn has done at each label *)

\* The record a turn works with.
Work == [history : Seq(Message), seen : Users \cup {"none", "absent", None},
         cacheStatus : {"none", "miss", "hit"},
         response : Response, sessionOk : BOOLEAN, userOk : BOOLEAN, assistantOk : BOOLEAN,
         logsOk : BOOLEAN, recordsOk : BOOLEAN]

Restoring == {"restore", "load_context", "load_durable"}
Starting == {"lookup", "claim", "create", "append_user", "push_user", "cache"}
Finishing == {"append_assistant", "push_assistant", "tool_logs", "records", "audit"}
Over == {"done", "lost"}

\* A request that has not been received has done nothing; a turn uses the cache
\* for questions only; and the flags of a step are not set before the step.
TurnState ==
    \A r \in Requests :
      /\ pc[r] = "idle" => req[r] = NoRequest /\ work[r] = NoWork
      /\ pc[r] # "idle" => req[r] \in Bodies
      /\ work[r].cacheStatus # "none" =>
           /\ req[r].ask = "read"
           /\ pc[r] \in {"respond", "store"} \cup Finishing \cup Over
      /\ work[r].cacheStatus = "hit" => pc[r] \in Finishing \cup Over
      /\ pc[r] = "store" => work[r].response.by = r /\ req[r].ask = "read"
      /\ work[r].logsOk => pc[r] \in {"records", "audit"}
      /\ work[r].recordsOk => pc[r] = "audit"

Inv == TypeOK /\ TurnState

\* What has happened to the history variables after a call to a store.
Counted(r) ==
    \/ UNCHANGED ghosts
    \/ /\ failures < MaxFailures
       /\ failures' = failures + 1
       /\ disturbed' = disturbed \cup {Sid(r)}

\* Nothing done yet is a record of the right shape.
LEMMA NoWorkType == NoWork \in Work /\ Len(NoWork.history) <= Limit
<1>1. NoResponse \in Response
  BY DEF NoResponse, Response
<1> QED
  BY <1>1, BoundsAssumption DEF NoWork, Work

\* When a turn is over its flags are gone, and the rest of its work is kept.
LEMMA OutlivesFields ==
    ASSUME NEW w \in Work
    PROVE  /\ Outlives(w) \in Work
           /\ Outlives(w).history = w.history /\ Outlives(w).seen = w.seen
           /\ Outlives(w).cacheStatus = w.cacheStatus /\ Outlives(w).response = w.response
           /\ ~Outlives(w).sessionOk /\ ~Outlives(w).userOk /\ ~Outlives(w).assistantOk
           /\ ~Outlives(w).logsOk /\ ~Outlives(w).recordsOk
<1>1. /\ NoWork \in Work
      /\ ~NoWork.sessionOk /\ ~NoWork.userOk /\ ~NoWork.assistantOk
      /\ ~NoWork.logsOk /\ ~NoWork.recordsOk
  BY NoWorkType DEF NoWork
<1> QED
  BY <1>1 DEF Outlives, Work

\* The session of a turn, its messages and what survives of its work.
LEMMA TurnTypes ==
    ASSUME TypeOK, NEW r \in Requests
    PROVE  /\ Sid(r) \in SessionIds
           /\ work[r] \in Work
           /\ Outlives(work[r]) \in Work
           /\ AssistantMessage(r) \in Message
           /\ req[r] \in Bodies => UserMessage(r) \in Message /\ req[r].user \in Users
<1>1. /\ work[r] \in Work /\ req[r] \in Bodies \cup {NoRequest}
  BY DEF TypeOK, Work
<1>2. Sid(r) \in SessionIds
  BY <1>1 DEF Sid, SessionIds, Bodies, NoRequest
<1>3. Outlives(work[r]) \in Work
  BY <1>1, OutlivesFields
<1>4. AssistantMessage(r) \in Message
  BY DEF AssistantMessage, Message
<1>5. req[r] \in Bodies => UserMessage(r) \in Message /\ req[r].user \in Users
  BY DEF UserMessage, Message, Bodies
<1> QED
  BY <1>1, <1>2, <1>3, <1>4, <1>5

\* Before any turn there is nothing but sessions without an owner.
LEMMA InitInv == Init => Inv
<1> SUFFICES ASSUME Init PROVE Inv
  OBVIOUS
<1>2. NoWork \in Work /\ Len(NoWork.history) <= Limit
  BY NoWorkType
<1>3. Legacy \in Message
  BY DEF Legacy, Message, Asks
<1>4. /\ owner \in [SessionIds -> Users \cup {"absent", None}]
      /\ messages \in [SessionIds -> Seq(Message)]
      /\ context \in [Users \X SessionIds -> Seq(Message)]
      /\ disturbed \subseteq SessionIds
  BY <1>3 DEF Init
<1>5. TypeOK
  BY <1>2, <1>4, BoundsAssumption DEF Init, TypeOK, Work, Labels
<1>6. TurnState
  BY DEF Init, TurnState, NoWork
<1> QED
  BY <1>5, <1>6 DEF Inv

\* A step of one turn: which turn, and what it may touch of the others.
LEMMA Frame ==
    ASSUME TypeOK, NEW r \in Requests, Proceed(r)
    PROVE  /\ req' = req
           /\ pc[r] \notin {"idle"} \cup Over
           /\ \E label \in Labels \ {"idle", "lost"} : pc' = [pc EXCEPT ![r] = label]
           /\ \E w : work' = [work EXCEPT ![r] = w]
           /\ \/ answer' = answer
              \/ \E what \in {"ok", "forbidden", "prompted", "failed"} :
                   answer' = [answer EXCEPT ![r] = what]
           /\ Counted(r)
<1>w. work' = work => \E w : work' = [work EXCEPT ![r] = w]
  <2>1. work = [work EXCEPT ![r] = work[r]]
    BY DEF TypeOK
  <2> QED
    BY <2>1
<1> USE DEF Goto, Keep, Return, AfterRestore, Attempt, Counted, Labels, Over, Push
<1>1. CASE RestoreSession(r)
  BY <1>1, <1>w DEF RestoreSession
<1>2. CASE LoadContext(r)
  BY <1>2, <1>w DEF LoadContext
<1>3. CASE LoadDurable(r)
  BY <1>3, <1>w DEF LoadDurable
<1>4. CASE LookupSession(r)
  BY <1>4, <1>w DEF LookupSession
<1>5. CASE ClaimSession(r)
  BY <1>5 DEF ClaimSession
<1>6. CASE CreateSession(r)
  BY <1>6 DEF CreateSession
<1>7. CASE AppendUserMessage(r)
  BY <1>7, <1>w DEF AppendUserMessage
<1>8. CASE PushUserMessage(r)
  BY <1>8, <1>w DEF PushUserMessage
<1>9. CASE ReadCache(r)
  BY <1>9 DEF ReadCache
<1>10. CASE Respond(r)
  BY <1>10, <1>w DEF Respond
<1>11. CASE StoreCache(r)
  BY <1>11 DEF StoreCache
<1>12. CASE AppendAssistantMessage(r)
  BY <1>12, <1>w DEF AppendAssistantMessage
<1>13. CASE PushAssistantMessage(r)
  BY <1>13, <1>w DEF PushAssistantMessage
<1>14. CASE PersistToolLogs(r)
  BY <1>14 DEF PersistToolLogs
<1>15. CASE PersistOperationalRecords(r)
  BY <1>15 DEF PersistOperationalRecords
<1>16. CASE PersistAudit(r)
  BY <1>16 DEF PersistAudit
<1> QED
  BY <1>1, <1>2, <1>3, <1>4, <1>5, <1>6, <1>7, <1>8, <1>9, <1>10, <1>11, <1>12, <1>13,
     <1>14, <1>15, <1>16 DEF Proceed

\* The tables and lists have their types.
StoreTypes ==
    /\ owner \in [SessionIds -> Users \cup {"absent", None}]
    /\ messages \in [SessionIds -> Seq(Message)]
    /\ toolLogs \subseteq [by : Requests, session : SessionIds, tool : Tools]
    /\ alerts \subseteq [by : Requests, session : SessionIds]
    /\ audits \subseteq [by : Requests, session : SessionIds, hit : BOOLEAN, user : BOOLEAN,
                         assistant : BOOLEAN, logs : BOOLEAN, records : BOOLEAN]
    /\ context \in [Users \X SessionIds -> Seq(Message)]
    /\ \A e \in cache : e.key \in Key /\ e.response \in Response

\* A record of a turn, with at most Limit messages.
Fits(v) == v \in Work /\ Len(v.history) <= Limit

\* What is left to show of a step of a turn: the tables, and its own work.
LEMMA TurnStepTypes ==
    ASSUME TypeOK, NEW r \in Requests, Proceed(r), StoreTypes',
           NEW w, Fits(w), work' = [work EXCEPT ![r] = w]
    PROVE  TypeOK'
<1>1. work' \in [Requests -> Work] /\ \A q \in Requests : Len(work'[q].history) <= Limit
  BY DEF TypeOK, Work, Fits
<1>2. req' = req /\ pc' \in [Requests -> Labels]
  <2>1. PICK label \in Labels \ {"idle", "lost"} : pc' = [pc EXCEPT ![r] = label]
    BY Frame
  <2>2. pc \in [Requests -> Labels] /\ req' = req
    BY Frame DEF TypeOK
  <2> QED
    BY <2>1, <2>2
<1>3. answer' \in [Requests -> {"none", "ok", "forbidden", "prompted", "failed"}]
  BY Frame DEF TypeOK
<1>4. failures' \in 0 .. MaxFailures /\ disturbed' \subseteq SessionIds
  <2>1. Counted(r) /\ Sid(r) \in SessionIds
    BY Frame, TurnTypes
  <2>2. failures \in 0 .. MaxFailures /\ disturbed \subseteq SessionIds
    BY DEF TypeOK
  <2> QED
    BY <2>1, <2>2, BoundsAssumption DEF Counted, ghosts
<1> QED
  BY <1>1, <1>2, <1>3, <1>4 DEF TypeOK, StoreTypes, Work

\* A question's cache key has no more of the history than who said what.
LEMMA CacheKeyType ==
    ASSUME Inv, NEW r \in Requests, req[r] \in Bodies, req[r].ask = "read"
    PROVE  CacheKey(r) \in Key
<1> DEFINE h == work[r].history
           Said == [from : {"user", "assistant"}, content : Asks \cup {"reply", "refusal"}]
<1>1. h \in Seq(Message) /\ Sid(r) \in SessionIds /\ req[r].user \in Users
  BY TurnTypes DEF Inv, Work, Bodies
<1>2. Plain(h) \in Seq(Said)
  <2>1. /\ Len(h) \in Nat /\ DOMAIN h = 1 .. Len(h) /\ \A i \in DOMAIN h : h[i] \in Message
    BY <1>1
  <2> HIDE DEF h
  <2>2. \A i \in DOMAIN h : [from |-> h[i].from, content |-> h[i].content] \in Said
    BY <2>1 DEF Message
  <2>3. Plain(h) \in [1 .. Len(h) -> Said]
    BY <2>1, <2>2 DEF Plain
  <2> HIDE DEF Said
  <2> QED
    BY <2>1, <2>3, SeqDef
<1> QED
  BY <1>1, <1>2 DEF CacheKey, Key

\* A response names its turn and is made of the two tools.
LEMMA ResponsesType ==
    ASSUME NEW r \in Requests, NEW response \in Responses(r)
    PROVE  response \in Response /\ response.by = r
<1>1. \A tools \in Plans : tools \in SUBSET Tools
  BY PlansAssumption DEF Tools
<1>2. CASE \E tools \in Plans :
             response = [by |-> r, tools |-> tools, grounded |-> FALSE, ops |-> "none"]
  BY <1>1, <1>2 DEF Response
<1>3. CASE \E tools \in Plans, grounded \in BOOLEAN :
             response = [by |-> r, tools |-> tools, grounded |-> grounded,
                         ops |-> IF ToolAllowed(r, grounded) THEN "run" ELSE "blocked"]
  <2>1. PICK tools \in Plans, grounded \in BOOLEAN :
             response = [by |-> r, tools |-> tools, grounded |-> grounded,
                         ops |-> IF ToolAllowed(r, grounded) THEN "run" ELSE "blocked"]
    BY <1>3
  <2>2. (IF ToolAllowed(r, grounded) THEN "run" ELSE "blocked") \in {"none", "blocked", "run"}
    OBVIOUS
  <2> QED
    BY <1>1, <2>1, <2>2 DEF Response
<1> DEFINE evidence == IF RoleOf[req[r].user] \in ACTION_ENABLED_ROLES THEN BOOLEAN ELSE {FALSE}
<1>4. evidence \subseteq BOOLEAN
  OBVIOUS
<1>r. Responses(r) =
        {[by |-> r, tools |-> tools, grounded |-> FALSE, ops |-> "none"] : tools \in Plans \cap {{"read"}}}
        \cup
        {[by |-> r, tools |-> tools, grounded |-> grounded,
          ops |-> IF ToolAllowed(r, grounded) THEN "run" ELSE "blocked"] :
           tools \in Plans \ {{"read"}}, grounded \in evidence}
  BY DEF Responses
<1> HIDE DEF evidence
<1>5. \/ \E tools \in Plans \cap {{"read"}} :
             response = [by |-> r, tools |-> tools, grounded |-> FALSE, ops |-> "none"]
      \/ \E tools \in Plans \ {{"read"}}, grounded \in evidence :
             response = [by |-> r, tools |-> tools, grounded |-> grounded,
                         ops |-> IF ToolAllowed(r, grounded) THEN "run" ELSE "blocked"]
  BY <1>r
<1> QED
  BY <1>2, <1>3, <1>4, <1>5

\* A record with one more field known is still a record of a turn.
LEMMA WorkFields ==
    ASSUME NEW w \in Work, Len(w.history) <= Limit
    PROVE  /\ \A ok \in BOOLEAN : /\ Fits([w EXCEPT !.userOk = ok]) /\ Fits([w EXCEPT !.assistantOk = ok])
                                 /\ Fits([w EXCEPT !.sessionOk = ok]) /\ Fits([w EXCEPT !.logsOk = ok])
                                 /\ Fits([w EXCEPT !.recordsOk = ok])
           /\ \A o \in Users \cup {"absent", None}, ok \in BOOLEAN :
                Fits([w EXCEPT !.seen = o, !.sessionOk = ok])
           /\ \A c \in {"none", "miss"} : Fits([w EXCEPT !.cacheStatus = c])
           /\ \A d \in Response : /\ Fits([w EXCEPT !.response = d])
                                 /\ Fits([w EXCEPT !.cacheStatus = "hit", !.response = d])
           /\ \A l \in Seq(Message) : Fits([w EXCEPT !.history = TakeLast(l)])
<1>1. \A ok \in BOOLEAN : /\ Fits([w EXCEPT !.userOk = ok]) /\ Fits([w EXCEPT !.assistantOk = ok])
                           /\ Fits([w EXCEPT !.sessionOk = ok]) /\ Fits([w EXCEPT !.logsOk = ok])
                           /\ Fits([w EXCEPT !.recordsOk = ok])
  BY DEF Work, Fits
<1>2. \A o \in Users \cup {"absent", None}, ok \in BOOLEAN :
        Fits([w EXCEPT !.seen = o, !.sessionOk = ok])
  BY DEF Work, Fits
<1>3. \A c \in {"none", "miss"} : Fits([w EXCEPT !.cacheStatus = c])
  BY DEF Work, Fits
<1>4. \A d \in Response : /\ Fits([w EXCEPT !.response = d])
                          /\ Fits([w EXCEPT !.cacheStatus = "hit", !.response = d])
  BY DEF Work, Fits
<1>5. ASSUME NEW l \in Seq(Message) PROVE Fits([w EXCEPT !.history = TakeLast(l)])
  <2>1. TakeLast(l) \in Seq(Message) /\ Len(TakeLast(l)) <= Limit
    BY TakeLastProperties, BoundsAssumption
  <2> QED
    BY <2>1 DEF Work, Fits
<1> QED
  BY <1>1, <1>2, <1>3, <1>4, <1>5

\* Every step of a turn.
LEMMA ProceedTypes ==
    ASSUME Inv, NEW r \in Requests, Proceed(r)
    PROVE  TypeOK'
<1> DEFINE w == work[r]
<1>t. /\ TypeOK /\ StoreTypes /\ work = [work EXCEPT ![r] = w]
      /\ w \in Work /\ Len(w.history) <= Limit /\ Fits(w)
      /\ Sid(r) \in SessionIds
      /\ AssistantMessage(r) \in Message
  BY TurnTypes DEF Inv, TypeOK, StoreTypes, Fits
<1>b. req[r] \in Bodies /\ UserMessage(r) \in Message /\ req[r].user \in Users
  BY <1>t, Frame, TurnTypes DEF Inv, TurnState
<1>k. req' = req
  BY <1>t, Frame
\* the tables are left alone
<1>s. ASSUME UNCHANGED <<database, redis>> PROVE StoreTypes'
  BY <1>s, <1>t DEF StoreTypes, database, redis
<1>n. Fits(Outlives(w))
  BY <1>t, OutlivesFields DEF Fits
\* one more message, of Redis or of PostgreSQL
<1>m. \A message \in Message : \A l \in Seq(Message) :
        Append(l, message) \in Seq(Message) /\ TakeLast(Append(l, message)) \in Seq(Message)
  <2> SUFFICES ASSUME NEW message \in Message, NEW l \in Seq(Message)
               PROVE  Append(l, message) \in Seq(Message) /\ TakeLast(Append(l, message)) \in Seq(Message)
    OBVIOUS
  <2>1. Append(l, message) \in Seq(Message)
    BY AppendProperties
  <2> QED
    BY <2>1, TakeLastProperties
<1>p. ASSUME NEW message \in Message, Push(r, message)
      PROVE  context' \in [Users \X SessionIds -> Seq(Message)]
  <2>1. <<req[r].user, Sid(r)>> \in Users \X SessionIds
    BY <1>t, <1>b
  <2> DEFINE k == <<req[r].user, Sid(r)>>
  <2>2. context[k] \in Seq(Message)
    BY <1>t, <2>1 DEF StoreTypes
  <2>3. PICK list \in {context[k], Append(context[k], message), TakeLast(Append(context[k], message))} :
          context' = [context EXCEPT ![k] = list]
    BY <1>p DEF Push
  <2>4. list \in Seq(Message)
    BY <1>m, <2>2, <2>3
  <2> QED
    BY <1>t, <2>1, <2>3, <2>4 DEF StoreTypes
<1>a. ASSUME NEW message \in Message
      PROVE  Stored(r, message) \in [SessionIds -> Seq(Message)]
  BY <1>t, <1>a, <1>m DEF StoreTypes, Stored
<1> HIDE DEF w
<1>1. CASE RestoreSession(r)
  BY <1>1, <1>t, <1>s, TurnStepTypes DEF RestoreSession
<1>2. CASE LoadContext(r)
  <2>1. context[<<req[r].user, Sid(r)>>] \in Seq(Message)
    BY <1>t, <1>b DEF StoreTypes
  <2>2. UNCHANGED <<database, redis>>
        /\ \/ work' = work
           \/ work' = [work EXCEPT ![r] = [w EXCEPT !.history = TakeLast(context[<<req[r].user, Sid(r)>>])]]
    BY <1>2 DEF LoadContext, Keep, w
  <2> QED
    BY <1>t, <1>s, WorkFields, <2>1, <2>2, TurnStepTypes
<1>3. CASE LoadDurable(r)
  <2>1. messages[Sid(r)] \in Seq(Message)
    BY <1>t DEF StoreTypes
  <2>2. UNCHANGED <<database, redis>>
        /\ (work' = work \/ work' = [work EXCEPT ![r] = [w EXCEPT !.history = TakeLast(messages[Sid(r)])]])
    BY <1>3 DEF LoadDurable, Keep, w
  <2> QED
    BY <1>t, <1>s, WorkFields, <2>1, <2>2, TurnStepTypes
<1>4. CASE LookupSession(r)
  <2>1. owner[Sid(r)] \in Users \cup {"absent", None}
    BY <1>t DEF StoreTypes
  <2>2. UNCHANGED <<database, redis>>
        /\ \/ work' = work
           \/ \E ok \in BOOLEAN :
                work' = [work EXCEPT ![r] = [w EXCEPT !.seen = owner[Sid(r)], !.sessionOk = ok]]
    BY <1>4 DEF LookupSession, Keep, w
  <2> QED
    BY <1>t, WorkFields, <1>s, <2>1, <2>2, TurnStepTypes
<1>5. CASE ClaimSession(r) \/ CreateSession(r)
  <2>1. PICK ok \in BOOLEAN :
          /\ work' = [work EXCEPT ![r] = [w EXCEPT !.sessionOk = ok]]
          /\ UNCHANGED <<messages, toolLogs, alerts, audits, redis>>
          /\ \/ owner' = [owner EXCEPT ![Sid(r)] = req[r].user]
             \/ owner' = [owner EXCEPT ![Sid(r)] = @]
    BY <1>5 DEF ClaimSession, CreateSession, Keep, w
  <2>2. StoreTypes'
    BY <1>t, <1>b, <2>1 DEF StoreTypes, redis
  <2> QED
    BY <1>t, WorkFields, <2>1, <2>2, TurnStepTypes
<1>6. CASE AppendUserMessage(r) \/ AppendAssistantMessage(r)
  <2>1. PICK message \in Message :
          /\ messages' = messages \/ messages' = Stored(r, message)
          /\ UNCHANGED <<owner, toolLogs, alerts, audits, redis>>
    BY <1>6, <1>t, <1>b DEF AppendUserMessage, AppendAssistantMessage
  <2>2. \/ work' = work
        \/ \E ok \in BOOLEAN : \/ work' = [work EXCEPT ![r] = [w EXCEPT !.userOk = ok]]
                               \/ work' = [work EXCEPT ![r] = [w EXCEPT !.assistantOk = ok]]
    BY <1>6 DEF AppendUserMessage, AppendAssistantMessage, Keep, w
  <2>3. StoreTypes'
    BY <1>a, <1>t, <2>1 DEF StoreTypes, redis
  <2> QED
    BY <1>t, WorkFields, <2>2, <2>3, TurnStepTypes
<1>7. CASE PushUserMessage(r) \/ PushAssistantMessage(r)
  <2>1. /\ Push(r, UserMessage(r)) \/ Push(r, AssistantMessage(r))
        /\ UNCHANGED <<database, cache, work>>
    BY <1>7 DEF PushUserMessage, PushAssistantMessage
  <2>2. StoreTypes'
    BY <1>p, <1>t, <1>b, <2>1 DEF StoreTypes, database
  <2> QED
    BY <1>t, <2>1, <2>2, TurnStepTypes
<1>8. CASE ReadCache(r)
  <2>1. /\ UNCHANGED <<database, context>> /\ cache' \subseteq cache
        /\ \/ \E c \in {"none", "miss"} : work' = [work EXCEPT ![r] = [w EXCEPT !.cacheStatus = c]]
           \/ \E e \in cache :
                work' = [work EXCEPT ![r] = [w EXCEPT !.cacheStatus = "hit", !.response = e.response]]
    BY <1>8 DEF ReadCache, Keep, w
  <2>2. StoreTypes'
    BY <1>t, <2>1 DEF StoreTypes, database
  <2>3. \A e \in cache : e.response \in Response
    BY <1>t DEF StoreTypes
  <2> QED
    BY <1>t, WorkFields, <2>1, <2>2, <2>3, TurnStepTypes
<1>9. CASE Respond(r)
  <2>1. [NoResponse EXCEPT !.by = r] \in Response
    BY DEF NoResponse, Response
  <2>2. UNCHANGED <<database, redis>>
        /\ \/ work' = work
           \/ \E d \in Responses(r) \cup {[NoResponse EXCEPT !.by = r]} :
                work' = [work EXCEPT ![r] = [w EXCEPT !.response = d]]
    BY <1>9 DEF Respond, Keep, w
  <2>3. ASSUME NEW d \in Responses(r) \cup {[NoResponse EXCEPT !.by = r]},
               work' = [work EXCEPT ![r] = [w EXCEPT !.response = d]]
        PROVE  TypeOK'
    <3>1. d \in Response
      BY <2>1, ResponsesType
    <3>2. Fits([w EXCEPT !.response = d])
      BY <1>t, <3>1, WorkFields
    <3> QED
      BY <1>t, <1>s, <2>2, <2>3, <3>2, TurnStepTypes
  <2> QED
    BY <1>t, <1>s, <2>2, <2>3, TurnStepTypes
<1>10. CASE StoreCache(r)
  <2>1. /\ UNCHANGED <<database, context>>
        /\ cache' = cache \/ cache' = WithEntry(r)
        /\ work' = [work EXCEPT ![r] = [w EXCEPT !.cacheStatus = "none"]]
        /\ pc[r] = "store"
    BY <1>10 DEF StoreCache, Keep, w
  <2>2. CacheKey(r) \in Key /\ w.response \in Response
    BY <1>t, <1>b, <2>1, CacheKeyType DEF Inv, TurnState, Work
  <2>3. \A e \in cache' : e.key \in Key /\ e.response \in Response
    BY <1>t, <2>1, <2>2 DEF StoreTypes, WithEntry, w
  <2>4. StoreTypes'
    BY <1>t, <2>1, <2>3 DEF StoreTypes, database
  <2> QED
    BY <1>t, WorkFields, <2>1, <2>4, TurnStepTypes
<1>11. CASE PersistToolLogs(r)
  <2>1. \E ok \in BOOLEAN : work' = [work EXCEPT ![r] = [w EXCEPT !.logsOk = ok]]
    BY <1>11 DEF PersistToolLogs, Keep, w
  <2>2. /\ \/ toolLogs' = toolLogs
           \/ \E written \in SUBSET w.response.tools :
                toolLogs' = toolLogs \cup [by : {r}, session : {Sid(r)}, tool : written]
        /\ UNCHANGED <<owner, messages, alerts, audits, redis>>
    BY <1>11 DEF PersistToolLogs, w
  <2>3. w.response.tools \subseteq Tools
    BY <1>t DEF Work, Response
  <2>4. toolLogs' \subseteq [by : Requests, session : SessionIds, tool : Tools]
    BY <1>t, <2>2, <2>3 DEF StoreTypes
  <2>5. StoreTypes'
    BY <1>t, <2>2, <2>4 DEF StoreTypes, redis
  <2> QED
    BY <1>t, WorkFields, <2>1, <2>5, TurnStepTypes
<1>12. CASE PersistOperationalRecords(r)
  <2>1. \E ok \in BOOLEAN : work' = [work EXCEPT ![r] = [w EXCEPT !.recordsOk = ok]]
    <3>1. (w.response.ops = "none" \/ w.assistantOk) \in BOOLEAN
      OBVIOUS
    <3> QED
      BY <1>12, <3>1 DEF PersistOperationalRecords, Keep, w
  <2>2. /\ alerts' = alerts \/ alerts' = alerts \cup {NewAlert(r)}
        /\ UNCHANGED <<owner, messages, toolLogs, audits, redis>>
    BY <1>12 DEF PersistOperationalRecords
  <2>3. StoreTypes'
    BY <1>t, <2>2 DEF StoreTypes, NewAlert, redis
  <2> QED
    BY <1>t, WorkFields, <2>1, <2>3, TurnStepTypes
<1>13. CASE PersistAudit(r)
  <2>1. /\ work' = [work EXCEPT ![r] = Outlives(w)]
        /\ audits' = audits \/ audits' = audits \cup {AuditRecord(r)}
        /\ UNCHANGED <<owner, messages, toolLogs, alerts, redis>>
    BY <1>13 DEF PersistAudit, w
  <2>2. AuditRecord(r) \in [by : Requests, session : SessionIds, hit : BOOLEAN, user : BOOLEAN,
                            assistant : BOOLEAN, logs : BOOLEAN, records : BOOLEAN]
    BY <1>t DEF AuditRecord, Work, w
  <2>3. StoreTypes'
    BY <1>t, <2>1, <2>2 DEF StoreTypes, redis
  <2> QED
    BY <1>n, <1>t, <2>1, <2>3, TurnStepTypes
<1> QED
  BY <1>1, <1>2, <1>3, <1>4, <1>5, <1>6, <1>7, <1>8, <1>9, <1>10, <1>11, <1>12, <1>13 DEF Proceed

\* A step of one turn leaves what the others are doing.
LEMMA OthersKeep ==
    ASSUME TypeOK, NEW r \in Requests, Proceed(r), NEW q \in Requests, q # r
    PROVE  /\ pc'[q] = pc[q] /\ work'[q] = work[q] /\ req'[q] = req[q]
           /\ Sid(q)' = Sid(q)
<1>1. pc \in [Requests -> Labels] /\ DOMAIN work = Requests
  BY DEF TypeOK
<1> QED
  BY <1>1, Frame DEF Sid

\* What each step of a turn leaves of TurnState.
LEMMA ProceedTurnState ==
    ASSUME Inv, NEW r \in Requests, Proceed(r)
    PROVE  TurnState'
<1> SUFFICES TurnState!(r)'
  BY OthersKeep DEF TurnState, Inv
<1> DEFINE w == work[r]
<1>t. /\ TypeOK /\ w \in Work /\ DOMAIN work = Requests /\ pc \in [Requests -> Labels]
  BY TurnTypes DEF Inv, TypeOK
<1>b. /\ req' = req /\ req[r] \in Bodies /\ pc'[r] # "idle"
  <2>1. PICK label \in Labels \ {"idle", "lost"} : pc' = [pc EXCEPT ![r] = label]
    BY <1>t, Frame
  <2> QED
    BY <1>t, <2>1, Frame DEF Inv, TurnState
<1>h. TurnState!(r)
  BY DEF Inv, TurnState
<1> USE DEF Goto, Keep, Return, AfterRestore, Finishing, Over
\* before the cache nothing but the history, the session and the message is known
<1>1. ASSUME pc[r] \in Restoring \cup Starting,
             \/ work'[r] = w
             \/ /\ work'[r].cacheStatus = w.cacheStatus /\ work'[r].logsOk = w.logsOk
                /\ work'[r].recordsOk = w.recordsOk,
             pc'[r] \notin {"store"}
      PROVE  TurnState!(r)'
  BY <1>1, <1>b, <1>h DEF Restoring, Starting
<1>2. CASE RestoreSession(r)
  BY <1>1, <1>2, <1>t DEF RestoreSession, Restoring
<1>3. CASE LoadContext(r)
  <2>1. /\ pc[r] = "load_context" /\ pc'[r] \in {"done", "lookup", "load_durable"}
        /\ \/ work' = work
           \/ \E l \in {TakeLast(context[<<req[r].user, Sid(r)>>])} :
                work' = [work EXCEPT ![r] = [w EXCEPT !.history = l]]
    BY <1>3, <1>t DEF LoadContext
  <2> HIDE DEF w
  <2> QED
    BY <1>1, <1>t, <2>1 DEF Restoring, Work, w
<1>4. CASE LoadDurable(r)
  <2>1. /\ pc[r] = "load_durable" /\ pc'[r] \in {"done", "lookup"}
        /\ \/ work' = work
           \/ \E l \in {TakeLast(messages[Sid(r)])} : work' = [work EXCEPT ![r] = [w EXCEPT !.history = l]]
    BY <1>4, <1>t DEF LoadDurable
  <2> HIDE DEF w
  <2> QED
    BY <1>1, <1>t, <2>1 DEF Restoring, Work, w
<1>5. CASE LookupSession(r)
  <2>1. /\ pc[r] = "lookup" /\ pc'[r] \in {"done", "create", "claim", "append_user"}
        /\ \/ work' = work
           \/ \E o \in {owner[Sid(r)]}, ok \in BOOLEAN :
                work' = [work EXCEPT ![r] = [w EXCEPT !.seen = o, !.sessionOk = ok]]
    BY <1>5, <1>t DEF LookupSession
  <2> HIDE DEF w
  <2> QED
    BY <1>1, <1>t, <2>1 DEF Starting, Work, w
<1>6. CASE ClaimSession(r) \/ CreateSession(r)
  BY <1>1, <1>6, <1>t DEF ClaimSession, CreateSession, Starting, Work
<1>7. CASE AppendUserMessage(r)
  BY <1>1, <1>7, <1>t DEF AppendUserMessage, Starting, Work
<1>8. CASE PushUserMessage(r)
  BY <1>1, <1>8, <1>t DEF PushUserMessage, Starting
<1>9. CASE ReadCache(r)
  <2>1. /\ pc[r] = "cache" /\ ~w.logsOk /\ ~w.recordsOk
        /\ \/ pc'[r] = "respond" /\ work' = [work EXCEPT ![r] = [w EXCEPT !.cacheStatus = "none"]]
           \/ /\ pc'[r] = "respond" /\ req[r].ask = "read"
              /\ work' = [work EXCEPT ![r] = [w EXCEPT !.cacheStatus = "miss"]]
           \/ /\ pc'[r] = "append_assistant" /\ req[r].ask = "read"
              /\ \E e \in cache :
                   work' = [work EXCEPT ![r] = [w EXCEPT !.cacheStatus = "hit", !.response = e.response]]
    BY <1>9, <1>t, <1>h DEF ReadCache
  <2> HIDE DEF w
  <2>2. CASE \E c \in {"none", "miss"} : /\ work' = [work EXCEPT ![r] = [w EXCEPT !.cacheStatus = c]]
                                        /\ (c = "none" \/ req[r].ask = "read")
                                        /\ pc'[r] = "respond"
    BY <1>b, <1>t, <2>1, <2>2 DEF Work
  <2>3. ASSUME NEW d, pc'[r] = "append_assistant", req[r].ask = "read",
               work' = [work EXCEPT ![r] = [w EXCEPT !.cacheStatus = "hit", !.response = d]]
        PROVE  TurnState!(r)'
    <3>1. /\ work'[r].cacheStatus = "hit" /\ work'[r].logsOk = w.logsOk
          /\ work'[r].recordsOk = w.recordsOk
      BY <1>t, <2>3 DEF Work
    <3> QED
      BY <1>b, <2>1, <2>3, <3>1
  <2> QED
    BY <2>1, <2>2, <2>3
<1>10. CASE Respond(r)
  <2>1. /\ pc[r] = "respond" /\ ~w.logsOk /\ ~w.recordsOk /\ w.cacheStatus # "hit"
        /\ w.cacheStatus # "none" => req[r].ask = "read"
    BY <1>10, <1>h DEF Respond
  <2>2. CASE Refused(r) /\ work' = [work EXCEPT ![r] = [w EXCEPT !.response = [NoResponse EXCEPT !.by = r]]]
             /\ pc'[r] = "append_assistant"
    <3> HIDE DEF w
    <3> QED
      BY <1>b, <1>t, <2>1, <2>2 DEF Work
  <2>3. ASSUME NEW d \in Responses(r), work' = [work EXCEPT ![r] = [w EXCEPT !.response = d]],
               pc'[r] = IF w.cacheStatus = "miss" THEN "store" ELSE "append_assistant"
        PROVE  TurnState!(r)'
    <3>1. d.by = r
      BY ResponsesType
    <3> HIDE DEF w
    <3> QED
      BY <1>b, <1>t, <2>1, <2>3, <3>1 DEF Work
  <2>4. CASE work' = work /\ pc'[r] = "done"
    BY <1>b, <2>1, <2>4
  <2> QED
    BY <1>10, <1>t, <2>2, <2>3, <2>4 DEF Respond
<1>11. CASE StoreCache(r)
  <2>1. /\ pc[r] = "store" /\ ~w.logsOk /\ ~w.recordsOk
        /\ work' = [work EXCEPT ![r] = [w EXCEPT !.cacheStatus = "none"]]
        /\ pc'[r] = "append_assistant"
    BY <1>11, <1>t, <1>h DEF StoreCache
  <2> HIDE DEF w
  <2> QED
    BY <1>b, <1>t, <2>1 DEF Work
<1>12. CASE AppendAssistantMessage(r)
  <2>1. /\ pc[r] = "append_assistant" /\ ~w.logsOk /\ ~w.recordsOk
        /\ \/ work' = work
           \/ \E ok \in BOOLEAN : work' = [work EXCEPT ![r] = [w EXCEPT !.assistantOk = ok]]
        /\ pc'[r] = "push_assistant"
    BY <1>12, <1>t, <1>h DEF AppendAssistantMessage
  <2> HIDE DEF w
  <2> QED
    BY <1>b, <1>t, <1>h, <2>1 DEF Work, w
<1>13. CASE PushAssistantMessage(r)
  BY <1>13, <1>b, <1>t, <1>h DEF PushAssistantMessage
<1>14. CASE PersistToolLogs(r)
  <2>1. PICK ok \in BOOLEAN : work' = [work EXCEPT ![r] = [w EXCEPT !.logsOk = ok]]
    BY <1>14 DEF PersistToolLogs
  <2>2. pc[r] = "tool_logs" /\ pc'[r] = "records"
    BY <1>14, <1>t DEF PersistToolLogs
  <2> QED
    BY <1>b, <1>t, <1>h, <2>1, <2>2 DEF Work
<1>15. CASE PersistOperationalRecords(r)
  <2>1. PICK ok \in BOOLEAN : work' = [work EXCEPT ![r] = [w EXCEPT !.recordsOk = ok]]
    <3>1. (w.response.ops = "none" \/ w.assistantOk) \in BOOLEAN
      OBVIOUS
    <3> QED
      BY <1>15, <3>1 DEF PersistOperationalRecords
  <2>2. pc[r] = "records" /\ pc'[r] = "audit"
    BY <1>15, <1>t DEF PersistOperationalRecords
  <2> QED
    BY <1>b, <1>t, <1>h, <2>1, <2>2 DEF Work
<1>16. CASE PersistAudit(r)
  <2>1. pc[r] = "audit" /\ pc'[r] = "done" /\ work' = [work EXCEPT ![r] = Outlives(w)]
    BY <1>16, <1>t DEF PersistAudit
  <2> QED
    BY <1>b, <1>t, <1>h, <2>1, OutlivesFields
<1> QED
  BY <1>2, <1>3, <1>4, <1>5, <1>6, <1>7, <1>8, <1>9, <1>10, <1>11, <1>12, <1>13,
     <1>14, <1>15, <1>16 DEF Proceed

\* A message arrives for a turn that has not begun.
LEMMA ReceiveFrame ==
    ASSUME TypeOK, NEW r \in Requests, NEW b \in Bodies, Receive(r, b)
    PROVE  /\ pc[r] = "idle" /\ req' = [req EXCEPT ![r] = b] /\ req'[r] = b
           /\ UNCHANGED <<database, redis, work, failures>>
           /\ \E label \in {"restore", "create", "done"} : pc' = [pc EXCEPT ![r] = label]
           /\ pc'[r] \in {"restore", "create", "done"}
           /\ \A q \in Requests : q # r => pc'[q] = pc[q] /\ req'[q] = req[q] /\ Sid(q)' = Sid(q)
           /\ disturbed \subseteq disturbed'
<1>1. pc \in [Requests -> Labels] /\ DOMAIN req = Requests
  BY DEF TypeOK
<1> QED
  BY <1>1 DEF Receive, Goto, Return, Sid

\* After a crash the turns in flight are lost, and with them their flags.
LEMMA CrashFrame ==
    ASSUME TypeOK, Crash
    PROVE  /\ UNCHANGED <<database, redis, req, answer>> /\ failures' = failures + 1 /\ failures < MaxFailures
           /\ disturbed' = disturbed \cup {Sid(r) : r \in InFlight}
           /\ \A r \in Requests :
                /\ pc'[r] = (IF pc[r] \in {"idle"} \cup Over THEN pc[r] ELSE "lost")
                /\ work'[r] = Outlives(work[r])
                /\ Sid(r)' = Sid(r)
           /\ pc' \in [Requests -> Labels] /\ DOMAIN work' = Requests
<1>1. pc \in [Requests -> Labels]
  BY DEF TypeOK
<1> QED
  BY <1>1 DEF Crash, InFlight, Over, Sid, Labels

\* Every step.
LEMMA InvStep == Inv /\ [Next]_vars => Inv'
<1> SUFFICES ASSUME Inv, [Next]_vars PROVE Inv'
  OBVIOUS
<1>t. TypeOK
  BY DEF Inv
<1>1. ASSUME NEW r \in Requests, NEW b \in Bodies, Receive(r, b) PROVE Inv'
  <2>1. /\ req' = [req EXCEPT ![r] = b] /\ UNCHANGED <<database, redis, work, failures>>
        /\ pc[r] = "idle" /\ pc'[r] \in {"restore", "create", "done"}
        /\ \E label \in {"restore", "create", "done"} : pc' = [pc EXCEPT ![r] = label]
    BY <1>t, <1>1, ReceiveFrame
  <2>2. answer' = answer \/ answer' = [answer EXCEPT ![r] = "prompted"]
    BY <1>1 DEF Receive, Return
  <2>3. disturbed' \subseteq SessionIds
    BY <1>t, <1>1 DEF Receive, TypeOK, Bodies, SessionIds
  <2>4. TypeOK'
    <3>1. pc' \in [Requests -> Labels]
      BY <1>t, <2>1 DEF TypeOK, Labels
    <3>2. req' \in [Requests -> Bodies \cup {NoRequest}]
      BY <1>t, <2>1 DEF TypeOK
    <3>3. answer' \in [Requests -> {"none", "ok", "forbidden", "prompted", "failed"}]
      BY <1>t, <2>2 DEF TypeOK
    <3> QED
      BY <1>t, <2>1, <2>3, <3>1, <3>2, <3>3 DEF TypeOK, database, redis
  <2>5. TurnState'
    <3>1. work[r] = NoWork
      BY <2>1 DEF Inv, TurnState
    <3>2. /\ NoWork.cacheStatus = "none" /\ ~NoWork.logsOk /\ ~NoWork.recordsOk
      BY DEF NoWork
    <3>3. TurnState!(r)'
      BY <1>t, <1>1, <2>1, <3>1, <3>2, ReceiveFrame
    <3> QED
      BY <1>t, <1>1, <2>1, <3>3, ReceiveFrame DEF Inv, TurnState
  <2> QED
    BY <2>4, <2>5 DEF Inv
<1>2. ASSUME NEW r \in Requests, Proceed(r) PROVE Inv'
  BY <1>2, ProceedTypes, ProceedTurnState DEF Inv
<1>3. CASE Crash
  <2>1. /\ UNCHANGED <<database, redis, req, answer>> /\ failures' = failures + 1 /\ failures < MaxFailures
        /\ disturbed' = disturbed \cup {Sid(r) : r \in InFlight}
        /\ pc' \in [Requests -> Labels] /\ DOMAIN work' = Requests
    BY <1>t, <1>3, CrashFrame
  <2>2. work' \in [Requests -> Work] /\ \A r \in Requests : Len(work'[r].history) <= Limit
    <3>1. \A r \in Requests : Outlives(work[r]) \in Work /\ Outlives(work[r]).history = work[r].history
      BY <1>t, TurnTypes, OutlivesFields
    <3>2. \A r \in Requests : Len(work[r].history) <= Limit
      BY <1>t DEF TypeOK
    <3> QED
      BY <1>3, <3>1, <3>2 DEF Crash
  <2>3. disturbed' \subseteq SessionIds
    BY <1>t, <2>1, TurnTypes DEF TypeOK, InFlight
  <2>4. failures' \in 0 .. MaxFailures
    BY <1>t, <2>1, BoundsAssumption DEF TypeOK
  <2>5. TypeOK'
    BY <1>t, <2>1, <2>2, <2>3, <2>4 DEF TypeOK, Work, database, redis
  <2>6. ASSUME NEW r \in Requests PROVE TurnState!(r)'
    <3>1. TurnState!(r) /\ work[r] \in Work
      BY <1>t, TurnTypes DEF Inv, TurnState
    <3>2. /\ pc'[r] = (IF pc[r] \in {"idle"} \cup Over THEN pc[r] ELSE "lost")
          /\ work'[r] = Outlives(work[r])
      BY <1>t, <1>3, CrashFrame
    <3>3. pc[r] = "idle" => work'[r] = NoWork
      BY <3>1, <3>2 DEF Outlives, NoWork
    <3> QED
      BY <2>1, <3>1, <3>2, <3>3, OutlivesFields DEF Over, Finishing
  <2> QED
    BY <2>5, <2>6 DEF Inv, TurnState
<1>4. CASE UNCHANGED vars
  BY <1>4 DEF vars, Inv, TypeOK, TurnState
<1> QED
  BY <1>1, <1>2, <1>3, <1>4 DEF Next, Idle

\* Every value stays of its type, and no turn works with more than Limit messages.
THEOREM TypeCorrectness == Spec => []TypeOK
<1>1. Inv => TypeOK
  BY DEF Inv
<1> QED
  BY <1>1, InitInv, InvStep, PTL DEF Spec

-----------------------------------------------------------------------------
(* What a step does, by the label it starts from *)

\* Every label has one statement.
LEMMA StatementAt ==
    ASSUME NEW r \in Requests, Proceed(r)
    PROVE  /\ pc[r] = "restore" => RestoreSession(r)
           /\ pc[r] = "load_context" => LoadContext(r)
           /\ pc[r] = "load_durable" => LoadDurable(r)
           /\ pc[r] = "lookup" => LookupSession(r)
           /\ pc[r] = "claim" => ClaimSession(r)
           /\ pc[r] = "create" => CreateSession(r)
           /\ pc[r] = "append_user" => AppendUserMessage(r)
           /\ pc[r] = "push_user" => PushUserMessage(r)
           /\ pc[r] = "cache" => ReadCache(r)
           /\ pc[r] = "respond" => Respond(r)
           /\ pc[r] = "store" => StoreCache(r)
           /\ pc[r] = "append_assistant" => AppendAssistantMessage(r)
           /\ pc[r] = "push_assistant" => PushAssistantMessage(r)
           /\ pc[r] = "tool_logs" => PersistToolLogs(r)
           /\ pc[r] = "records" => PersistOperationalRecords(r)
           /\ pc[r] = "audit" => PersistAudit(r)
           /\ pc[r] \in Restoring \cup Starting \cup {"respond", "store"} \cup Finishing
BY DEF Proceed, RestoreSession, LoadContext, LoadDurable, LookupSession, ClaimSession, CreateSession,
   AppendUserMessage, PushUserMessage, ReadCache, Respond, StoreCache, AppendAssistantMessage,
   PushAssistantMessage, PersistToolLogs, PersistOperationalRecords, PersistAudit,
   Restoring, Starting, Finishing

\* Which fields of a turn's work a statement may write.
LEMMA FieldsStep ==
    ASSUME Inv, NEW r \in Requests, Proceed(r)
    PROVE  /\ pc[r] \notin Restoring => work'[r].history = work[r].history
           /\ pc[r] # "lookup" => work'[r].seen = work[r].seen
           /\ pc[r] \notin {"cache", "store"} => work'[r].cacheStatus = work[r].cacheStatus
           /\ pc[r] \notin {"cache", "respond"} => work'[r].response = work[r].response
           /\ pc[r] \notin {"lookup", "claim", "create", "audit"} =>
                work'[r].sessionOk = work[r].sessionOk
           /\ pc[r] \notin {"append_user", "audit"} => work'[r].userOk = work[r].userOk
           /\ pc[r] \notin {"append_assistant", "audit"} => work'[r].assistantOk = work[r].assistantOk
           /\ pc[r] \notin {"tool_logs", "audit"} => work'[r].logsOk = work[r].logsOk
           /\ pc[r] \notin {"records", "audit"} => work'[r].recordsOk = work[r].recordsOk
<1> DEFINE w == work[r]
<1>t. /\ TypeOK /\ w \in Work /\ DOMAIN work = Requests
  BY TurnTypes DEF Inv, TypeOK
<1> USE DEF Restoring, Keep
<1>1. CASE work' = work
  BY <1>1
<1>2. CASE LoadContext(r) \/ LoadDurable(r)
  <2>1. /\ pc[r] \in Restoring
        /\ work' = work \/ \E l : work' = [work EXCEPT ![r] = [w EXCEPT !.history = l]]
    BY <1>2 DEF LoadContext, LoadDurable
  <2> HIDE DEF w
  <2> QED
    BY <1>1, <1>t, <2>1 DEF Work, w
<1>3. CASE LookupSession(r)
  <2>1. /\ pc[r] = "lookup"
        /\ work' = work \/ \E o, ok : work' = [work EXCEPT ![r] = [w EXCEPT !.seen = o, !.sessionOk = ok]]
    BY <1>3 DEF LookupSession
  <2>2. CASE \E o, ok : work' = [work EXCEPT ![r] = [w EXCEPT !.seen = o, !.sessionOk = ok]]
    <3>1. PICK o, ok : work' = [work EXCEPT ![r] = [w EXCEPT !.seen = o, !.sessionOk = ok]]
      BY <2>2
    <3>2. work'[r] = [w EXCEPT !.seen = o, !.sessionOk = ok]
      BY <1>t, <3>1
    <3> HIDE DEF w
    <3>3. /\ work'[r].history = w.history
          /\ work'[r].cacheStatus = w.cacheStatus /\ work'[r].response = w.response
          /\ work'[r].userOk = w.userOk /\ work'[r].assistantOk = w.assistantOk
          /\ work'[r].logsOk = w.logsOk /\ work'[r].recordsOk = w.recordsOk
      BY <1>t, <3>2 DEF Work
    <3> QED
      BY <2>1, <3>3 DEF w
  <2> QED
    BY <1>1, <2>1, <2>2
<1>4. CASE ClaimSession(r) \/ CreateSession(r)
  <2>1. /\ pc[r] \in {"claim", "create"}
        /\ \E ok : work' = [work EXCEPT ![r] = [w EXCEPT !.sessionOk = ok]]
    BY <1>4 DEF ClaimSession, CreateSession
  <2>2. PICK ok : work' = [work EXCEPT ![r] = [w EXCEPT !.sessionOk = ok]]
    BY <2>1
  <2>3. work'[r] = [w EXCEPT !.sessionOk = ok]
    BY <1>t, <2>2
  <2> HIDE DEF w
  <2>4. /\ work'[r].history = w.history /\ work'[r].seen = w.seen
        /\ work'[r].cacheStatus = w.cacheStatus /\ work'[r].response = w.response
        /\ work'[r].userOk = w.userOk /\ work'[r].assistantOk = w.assistantOk
        /\ work'[r].logsOk = w.logsOk /\ work'[r].recordsOk = w.recordsOk
    BY <1>t, <2>3 DEF Work
  <2> QED
    BY <2>1, <2>4 DEF w
<1>5. CASE AppendUserMessage(r)
  <2>1. /\ pc[r] = "append_user"
        /\ work' = work \/ \E ok : work' = [work EXCEPT ![r] = [w EXCEPT !.userOk = ok]]
    BY <1>5 DEF AppendUserMessage
  <2> HIDE DEF w
  <2> QED
    BY <1>1, <1>t, <2>1 DEF Work, w
<1>6. CASE ReadCache(r)
  <2>1. /\ pc[r] = "cache"
        /\ \/ \E c : work' = [work EXCEPT ![r] = [w EXCEPT !.cacheStatus = c]]
           \/ \E d : work' = [work EXCEPT ![r] = [w EXCEPT !.cacheStatus = "hit", !.response = d]]
    BY <1>6 DEF ReadCache
  <2> HIDE DEF w
  <2>2. \/ \E c : work'[r] = [w EXCEPT !.cacheStatus = c]
        \/ \E d : work'[r] = [w EXCEPT !.cacheStatus = "hit", !.response = d]
    BY <1>t, <2>1
  <2>4. /\ work'[r].history = w.history /\ work'[r].seen = w.seen /\ work'[r].sessionOk = w.sessionOk
        /\ work'[r].userOk = w.userOk /\ work'[r].assistantOk = w.assistantOk
        /\ work'[r].logsOk = w.logsOk /\ work'[r].recordsOk = w.recordsOk
    BY <1>t, <2>2 DEF Work
  <2> QED
    BY <2>1, <2>4 DEF w
<1>7. CASE Respond(r)
  <2>1. /\ pc[r] = "respond"
        /\ work' = work \/ \E d : work' = [work EXCEPT ![r] = [w EXCEPT !.response = d]]
    BY <1>7 DEF Respond
  <2> HIDE DEF w
  <2> QED
    BY <1>1, <1>t, <2>1 DEF Work, w
<1>8. CASE StoreCache(r)
  <2>1. /\ pc[r] = "store" /\ work' = [work EXCEPT ![r] = [w EXCEPT !.cacheStatus = "none"]]
    BY <1>8 DEF StoreCache
  <2> HIDE DEF w
  <2> QED
    BY <1>t, <2>1 DEF Work, w
<1>9. CASE AppendAssistantMessage(r)
  <2>1. /\ pc[r] = "append_assistant"
        /\ work' = work \/ \E ok : work' = [work EXCEPT ![r] = [w EXCEPT !.assistantOk = ok]]
    BY <1>9 DEF AppendAssistantMessage
  <2> HIDE DEF w
  <2> QED
    BY <1>1, <1>t, <2>1 DEF Work, w
<1>10. CASE PersistToolLogs(r)
  <2>1. pc[r] = "tool_logs" /\ \E ok : work' = [work EXCEPT ![r] = [w EXCEPT !.logsOk = ok]]
    BY <1>10 DEF PersistToolLogs
  <2> HIDE DEF w
  <2> QED
    BY <1>t, <2>1 DEF Work, w
<1>11. CASE PersistOperationalRecords(r)
  <2>1. pc[r] = "records" /\ \E ok : work' = [work EXCEPT ![r] = [w EXCEPT !.recordsOk = ok]]
    BY <1>11 DEF PersistOperationalRecords
  <2> HIDE DEF w
  <2> QED
    BY <1>t, <2>1 DEF Work, w
<1>12. CASE PersistAudit(r)
  <2>1. pc[r] = "audit" /\ work' = [work EXCEPT ![r] = Outlives(w)]
    BY <1>12 DEF PersistAudit
  <2> QED
    BY <1>t, <2>1, OutlivesFields
<1> QED
  BY <1>1, <1>2, <1>3, <1>4, <1>5, <1>6, <1>7, <1>8, <1>9, <1>10, <1>11, <1>12
     DEF Proceed, RestoreSession, PushUserMessage, PushAssistantMessage

\* The tables only grow: a message is appended to its session, and at their
\* labels the other statements add their rows.
LEMMA TablesGrow ==
    ASSUME TypeOK, NEW r \in Requests, Proceed(r)
    PROVE  /\ \/ messages' = messages
              \/ /\ pc[r] = "append_user" /\ work[r].sessionOk
                 /\ messages' = Stored(r, UserMessage(r))
              \/ /\ pc[r] = "append_assistant" /\ work[r].sessionOk
                 /\ messages' = Stored(r, AssistantMessage(r))
           /\ toolLogs \subseteq toolLogs' /\ alerts \subseteq alerts'
           /\ pc[r] # "tool_logs" => toolLogs' = toolLogs
           /\ pc[r] # "records" => alerts' = alerts
           /\ pc[r] # "audit" => audits' = audits
           /\ audits' \in {audits, audits \cup {AuditRecord(r)}}
BY DEF Proceed, RestoreSession, LoadContext, LoadDurable, LookupSession, ClaimSession, CreateSession,
   AppendUserMessage, PushUserMessage, ReadCache, Respond, StoreCache, AppendAssistantMessage,
   PushAssistantMessage, PersistToolLogs, PersistOperationalRecords, PersistAudit, database

\* One more message in one session.
LEMMA StoredMessages ==
    ASSUME TypeOK, NEW r \in Requests, NEW message \in Message, NEW s \in SessionIds,
           messages' = Stored(r, message)
    PROVE  /\ \A i \in DOMAIN messages[s] : i \in DOMAIN messages'[s] /\ messages'[s][i] = messages[s][i]
           /\ \A i \in DOMAIN messages'[s] :
                \/ i \in DOMAIN messages[s] /\ messages'[s][i] = messages[s][i]
                \/ s = Sid(r) /\ messages'[s][i] = message
           /\ s = Sid(r) => \E i \in DOMAIN messages'[s] : messages'[s][i] = message
<1>1. messages \in [SessionIds -> Seq(Message)]
  BY DEF TypeOK
<1>2. CASE s # Sid(r)
  BY <1>1, <1>2 DEF Stored
<1>3. CASE s = Sid(r)
  <2> DEFINE old == messages[s]
             new == messages'[s]
  <2>1. new = Append(old, message) /\ old \in Seq(Message)
    BY <1>1, <1>3 DEF Stored
  <2> HIDE DEF old, new
  <2>2. /\ Len(old) \in Nat /\ DOMAIN old = 1 .. Len(old)
        /\ DOMAIN new = 1 .. Len(new) /\ Len(new) = Len(old) + 1
        /\ \A i \in 1 .. Len(old) : new[i] = old[i]
        /\ new[Len(old) + 1] = message
    BY <2>1, AppendProperties, LenProperties
  <2>3. /\ \A i \in DOMAIN old : i \in DOMAIN new /\ new[i] = old[i]
        /\ \A i \in DOMAIN new : i \in DOMAIN old \/ i = Len(old) + 1
        /\ Len(old) + 1 \in DOMAIN new
    BY <2>2
  <2> QED
    BY <1>3, <2>2, <2>3 DEF old, new
<1> QED
  BY <1>2, <1>3

\* A message of a turn stays.
LEMMA HasStays ==
    ASSUME TypeOK, NEW r \in Requests, Proceed(r), req[r] \in Bodies,
           NEW s \in SessionIds, NEW q, NEW from, Has(s, q, from)
    PROVE  Has(s, q, from)'
<1>1. UserMessage(r) \in Message /\ AssistantMessage(r) \in Message
  BY TurnTypes
<1>2. \A i \in DOMAIN messages[s] : i \in DOMAIN messages'[s] /\ messages'[s][i] = messages[s][i]
  BY <1>1, TablesGrow, StoredMessages
<1> QED
  BY <1>2 DEF Has

-----------------------------------------------------------------------------
(* Messages of others *)

\* The author of a message of a session is unknown or a turn of that session.
Author(s, q) ==
    \/ q = None
    \/ q \in Requests /\ pc[q] # "idle" /\ Sid(q) = s

\* Who has found the session owned is its owner, and messages are by turns of
\* their session.
LookedUp ==
    /\ \A r \in Requests :
         work[r].seen \notin {"none", "absent", None} => owner[Sid(r)] = req[r].user
    /\ \A s \in SessionIds : \A i \in DOMAIN messages[s] : Author(s, messages[s][i].by)

\* A session that is found owned by the user of a turn stays so.
LEMMA OwnedStays ==
    ASSUME Inv, [Next]_vars, NEW q \in Requests, req[q] \in Bodies, owner[Sid(q)] = req[q].user
    PROVE  owner'[Sid(q)] = req[q].user
<1>1. req[q].user \in Users /\ Sid(q) \in SessionIds
  BY TurnTypes DEF Inv
<1>2. owner[Sid(q)] \notin {None, "absent"}
  BY <1>1, NoneAssumption, IdsAssumption
<1>3. DOMAIN owner = SessionIds
  BY DEF Inv, TypeOK
<1>4. OwnerStep
  BY StepOwners
<1> QED
  BY <1>1, <1>2, <1>3, <1>4 DEF OwnerStep

\* Every step.
LEMMA LookedUpStep == Inv /\ LookedUp /\ [Next]_vars => LookedUp'
<1> SUFFICES ASSUME Inv, LookedUp, [Next]_vars PROVE LookedUp'
  OBVIOUS
<1>t. TypeOK
  BY DEF Inv
<1>n. \A r \in Requests : pc[r] = "idle" => work[r].seen = "none"
  BY DEF Inv, TurnState, NoWork
<1>b. \A r \in Requests : pc[r] # "idle" => req[r] \in Bodies
  BY DEF Inv, TurnState
\* turns whose request and look-up are as before
<1>o. ASSUME NEW r \in Requests, work'[r].seen = work[r].seen, pc[r] = "idle" \/ req'[r] = req[r],
             pc[r] = "idle" \/ Sid(r)' = Sid(r),
             work'[r].seen \notin {"none", "absent", None}
      PROVE  owner'[Sid(r)'] = req'[r].user
  BY <1>o, <1>n, <1>b, OwnedStays DEF LookedUp
\* messages as before
<1>m. ASSUME messages' = messages,
             \A q \in Requests : pc[q] # "idle" => pc'[q] # "idle" /\ Sid(q)' = Sid(q)
      PROVE  LookedUp!2'
  <2> SUFFICES ASSUME NEW s \in SessionIds, NEW i \in DOMAIN messages[s], NEW q, q = messages[s][i].by
               PROVE  Author(s, q)'
    BY <1>m
  <2>1. Author(s, q)
    BY DEF LookedUp
  <2> QED
    BY <1>m, <2>1 DEF Author
<1>1. ASSUME NEW r \in Requests, NEW b \in Bodies, Receive(r, b) PROVE LookedUp'
  <2>1. /\ pc[r] = "idle" /\ UNCHANGED <<database, work>> /\ pc'[r] # "idle"
        /\ \A q \in Requests : q # r => pc'[q] = pc[q] /\ req'[q] = req[q] /\ Sid(q)' = Sid(q)
    BY <1>t, <1>1, ReceiveFrame
  <2>2. LookedUp!1'
    BY <1>o, <2>1 DEF LookedUp
  <2>3. LookedUp!2'
    BY <1>m, <2>1 DEF database
  <2> QED
    BY <2>2, <2>3 DEF LookedUp
<1>2. ASSUME NEW r \in Requests, Proceed(r) PROVE LookedUp'
  <2>f. /\ req' = req /\ pc[r] # "idle" /\ Sid(r)' = Sid(r) /\ Sid(r) \in SessionIds
        /\ \A q \in Requests : pc[q] # "idle" => pc'[q] # "idle" /\ Sid(q)' = Sid(q)
    <3>1. PICK label \in Labels \ {"idle", "lost"} : pc' = [pc EXCEPT ![r] = label]
      BY <1>t, <1>2, Frame
    <3>2. req' = req /\ pc[r] # "idle" /\ pc \in [Requests -> Labels] /\ Sid(r) \in SessionIds
      BY <1>t, <1>2, Frame, TurnTypes DEF TypeOK
    <3> QED
      BY <3>1, <3>2 DEF Sid
  <2>1. ASSUME NEW q \in Requests, work'[q].seen \notin {"none", "absent", None}
        PROVE  owner'[Sid(q)'] = req'[q].user
    <3>1. CASE q # r \/ pc[r] # "lookup"
      BY <1>o, <1>t, <1>2, <2>1, <2>f, <3>1, OthersKeep, FieldsStep
    <3>2. CASE q = r /\ pc[r] = "lookup"
      <4>1. LookupSession(r)
        BY <1>2, <3>2, StatementAt
      <4>2. /\ owner' = owner
            /\ \/ work' = work
               \/ /\ owner[Sid(r)] \in {"absent", None, req[r].user}
                  /\ \E ok \in BOOLEAN :
                       work' = [work EXCEPT ![r] = [work[r] EXCEPT !.seen = owner[Sid(r)], !.sessionOk = ok]]
        BY <4>1 DEF LookupSession, Keep, database
      <4>3. CASE work' = work
        BY <1>o, <2>1, <2>f, <3>2, <4>3
      <4>4. CASE work' # work
        <5>1. work'[r].seen = owner[Sid(r)]
          <6>1. work[r] \in Work /\ DOMAIN work = Requests
            BY <1>t, TurnTypes DEF TypeOK
          <6> QED
            BY <4>2, <4>4, <6>1 DEF Work
        <5> QED
          BY <2>1, <2>f, <3>2, <4>2, <4>4, <5>1
      <4> QED
        BY <4>3, <4>4
    <3> QED
      BY <3>1, <3>2
  <2>2. LookedUp!2'
    <3>1. CASE messages' = messages
      BY <1>m, <2>f, <3>1
    <3>2. ASSUME NEW message \in Message, message.by = r, messages' = Stored(r, message)
          PROVE  LookedUp!2'
      <4> SUFFICES ASSUME NEW s \in SessionIds, NEW i \in DOMAIN messages'[s],
                          NEW q, q = messages'[s][i].by
                   PROVE  Author(s, q)'
        OBVIOUS
      <4>1. CASE i \in DOMAIN messages[s] /\ messages'[s][i] = messages[s][i]
        <5>1. Author(s, q)
          BY <4>1 DEF LookedUp
        <5> QED
          BY <2>f, <5>1 DEF Author
      <4>2. CASE s = Sid(r) /\ messages'[s][i] = message
        <5>1. q = r /\ pc'[r] # "idle" /\ Sid(r)' = s
          BY <2>f, <3>2, <4>2
        <5> QED
          BY <5>1 DEF Author
      <4> QED
        BY <1>t, <3>2, <4>1, <4>2, StoredMessages
    <3>3. /\ UserMessage(r) \in Message /\ UserMessage(r).by = r
          /\ AssistantMessage(r) \in Message /\ AssistantMessage(r).by = r
      BY <1>t, <1>b, <2>f, TurnTypes DEF UserMessage, AssistantMessage
    <3> QED
      BY <1>t, <1>2, <3>1, <3>2, <3>3, TablesGrow
  <2> QED
    BY <2>1, <2>2 DEF LookedUp
<1>3. CASE Crash
  <2>1. /\ UNCHANGED <<database, req>>
        /\ \A r \in Requests : /\ pc'[r] = (IF pc[r] \in {"idle"} \cup Over THEN pc[r] ELSE "lost")
                               /\ Sid(r)' = Sid(r) /\ work'[r].seen = work[r].seen
    BY <1>t, <1>3, CrashFrame, TurnTypes, OutlivesFields
  <2>2. LookedUp!1'
    BY <1>o, <2>1 DEF LookedUp
  <2>3. LookedUp!2'
    BY <1>m, <2>1 DEF database
  <2> QED
    BY <2>2, <2>3 DEF LookedUp
<1>4. CASE UNCHANGED vars
  BY <1>4 DEF vars, LookedUp, Author, Sid
<1> QED
  BY <1>1, <1>2, <1>3, <1>4 DEF Next, Idle

\* Once a turn has found the session owned by its user, or has been refused, no
\* message of a user who is not the owner can come of it.
THEOREM ForeignMessagesAlwaysOverlapped == Spec => []ForeignMessagesOverlapped
<1>1. Init => LookedUp
  <2> SUFFICES ASSUME Init PROVE LookedUp
    OBVIOUS
  <2>1. \A r \in Requests : work[r].seen = "none"
    BY DEF Init, NoWork
  <2>2. ASSUME NEW s \in SessionIds, NEW i \in DOMAIN messages[s] PROVE messages[s][i].by = None
    <3>1. messages[s] = <<Legacy>> \/ messages[s] = <<>>
      BY DEF Init
    <3>2. messages[s] = <<Legacy>>
      BY <2>2, <3>1
    <3>3. messages[s][i] = Legacy
      BY <2>2, <3>2
    <3> QED
      BY <3>3 DEF Legacy
  <2> QED
    BY <2>1, <2>2 DEF LookedUp, Author
<1>2. LookedUp => ForeignMessagesOverlapped
  BY DEF LookedUp, Author, ForeignMessagesOverlapped
<1> QED
  BY <1>1, <1>2, InitInv, InvStep, LookedUpStep, PTL DEF Spec

-----------------------------------------------------------------------------
(* What a turn believes to have recorded *)

\* The flags of a turn's work are true of the tables.
TurnClaims(r) ==
    /\ work[r].userOk => Has(Sid(r), r, "user")
    /\ work[r].assistantOk => Has(Sid(r), r, "assistant")
    /\ work[r].logsOk /\ work[r].cacheStatus # "hit" =>
         \A t \in work[r].response.tools : [by |-> r, session |-> Sid(r), tool |-> t] \in toolLogs
    /\ work[r].recordsOk /\ work[r].response.ops = "run" => NewAlert(r) \in alerts

\* What an audit event claims is true, and its turn is over.
AuditClaims(e) ==
    /\ pc[e.by] = "done"
    /\ e.user => Has(e.session, e.by, "user")
    /\ e.assistant => Has(e.session, e.by, "assistant")
    /\ e.logs /\ ~e.hit => \A t \in work[e.by].response.tools :
                             [by |-> e.by, session |-> e.session, tool |-> t] \in toolLogs
    /\ e.records /\ work[e.by].response.ops = "run" =>
         [by |-> e.by, session |-> e.session] \in alerts

Claims ==
    /\ \A r \in Requests : TurnClaims(r)
    /\ \A e \in audits : AuditClaims(e)

\* A message that was stored is there.
LEMMA StoredHas ==
    ASSUME TypeOK, NEW r \in Requests, NEW message \in Message, message.by = r,
           messages' = Stored(r, message), NEW s, s = Sid(r), NEW from, from = message.from
    PROVE  Has(s, r, from)'
<1>1. s \in SessionIds
  BY TurnTypes
<1>2. \E i \in DOMAIN messages'[s] : messages'[s][i] = message
  BY <1>1, StoredMessages
<1> QED
  BY <1>2 DEF Has

\* Every step of a turn, for its own flags.
LEMMA ProceedClaims ==
    ASSUME Inv, NEW r \in Requests, Proceed(r), TurnClaims(r)
    PROVE  TurnClaims(r)'
<1> DEFINE w == work[r]
           v == work'[r]
<1>s. PICK s : s = Sid(r)
  OBVIOUS
<1>t. TypeOK /\ w \in Work /\ DOMAIN work = Requests /\ req[r] \in Bodies
  BY Frame, TurnTypes DEF Inv, TurnState, TypeOK
<1>u. /\ UserMessage(r) \in Message /\ UserMessage(r).by = r /\ UserMessage(r).from = "user"
      /\ AssistantMessage(r) \in Message /\ AssistantMessage(r).by = r
      /\ AssistantMessage(r).from = "assistant"
  BY <1>t, TurnTypes DEF UserMessage, AssistantMessage
<1>f. req' = req /\ Sid(r)' = Sid(r) /\ NewAlert(r)' = NewAlert(r)
  BY <1>t, Frame DEF Sid, NewAlert
<1>h. /\ Has(s, r, "user") => Has(s, r, "user")'
      /\ Has(s, r, "assistant") => Has(s, r, "assistant")'
  <2>1. s \in SessionIds
    BY <1>s, <1>t, TurnTypes
  <2> QED
    BY <1>t, <2>1, HasStays
<1>g. toolLogs \subseteq toolLogs' /\ alerts \subseteq alerts'
  BY <1>t, TablesGrow
\* the flags of the messages
<1>1. v.userOk => Has(s, r, "user")'
  <2>1. CASE pc[r] \notin {"append_user", "audit"}
    BY <1>s, <1>h, <2>1, FieldsStep DEF TurnClaims
  <2>2. CASE pc[r] = "append_user"
    <3>1. AppendUserMessage(r)
      BY <2>2, StatementAt
    <3>2. CASE work' = work
      BY <1>s, <1>h, <3>2 DEF TurnClaims
    <3>3. ASSUME NEW ok \in BOOLEAN, NEW done \in BOOLEAN, Attempt(r, ok, done),
                 messages' = IF done THEN Stored(r, UserMessage(r)) ELSE messages,
                 work' = [work EXCEPT ![r] = [w EXCEPT !.userOk = ok]]
          PROVE  v.userOk => Has(s, r, "user")'
      <4>1. v.userOk = ok
        BY <1>t, <3>3 DEF Work
      <4>2. ok => done
        BY <3>3 DEF Attempt
      <4> QED
        BY <1>s, <1>t, <1>u, <3>3, <4>1, <4>2, StoredHas
    <3> QED
      BY <3>1, <3>2, <3>3 DEF AppendUserMessage, Keep
  <2>3. CASE pc[r] = "audit"
    BY <1>t, <2>3, StatementAt, OutlivesFields DEF PersistAudit
  <2> QED
    BY <2>1, <2>2, <2>3
<1>2. v.assistantOk => Has(s, r, "assistant")'
  <2>1. CASE pc[r] \notin {"append_assistant", "audit"}
    BY <1>s, <1>h, <2>1, FieldsStep DEF TurnClaims
  <2>2. CASE pc[r] = "append_assistant"
    <3>1. AppendAssistantMessage(r)
      BY <2>2, StatementAt
    <3>2. CASE work' = work
      BY <1>s, <1>h, <3>2 DEF TurnClaims
    <3>3. ASSUME NEW ok \in BOOLEAN, NEW done \in BOOLEAN, Attempt(r, ok, done),
                 messages' = IF done THEN Stored(r, AssistantMessage(r)) ELSE messages,
                 work' = [work EXCEPT ![r] = [w EXCEPT !.assistantOk = ok]]
          PROVE  v.assistantOk => Has(s, r, "assistant")'
      <4>1. v.assistantOk = ok
        BY <1>t, <3>3 DEF Work
      <4>2. ok => done
        BY <3>3 DEF Attempt
      <4> QED
        BY <1>s, <1>t, <1>u, <3>3, <4>1, <4>2, StoredHas
    <3> QED
      BY <3>1, <3>2, <3>3 DEF AppendAssistantMessage, Keep
  <2>3. CASE pc[r] = "audit"
    BY <1>t, <2>3, StatementAt, OutlivesFields DEF PersistAudit
  <2> QED
    BY <2>1, <2>2, <2>3
\* the tool logs
<1>3. v.logsOk /\ v.cacheStatus # "hit" =>
        \A t \in v.response.tools : [by |-> r, session |-> s, tool |-> t] \in toolLogs'
  <2>1. CASE pc[r] \notin {"cache", "respond", "store", "tool_logs", "audit"}
    BY <1>s, <1>g, <2>1, FieldsStep DEF TurnClaims
  <2>2. CASE pc[r] \in {"cache", "respond", "store"}
    BY <2>2, FieldsStep DEF Inv, TurnState
  <2>3. CASE pc[r] = "tool_logs"
    <3> DEFINE nothing == w.cacheStatus = "hit" \/ w.response.tools = {}
    <3>1. PersistToolLogs(r) /\ v.response = w.response /\ v.cacheStatus = w.cacheStatus
      BY <2>3, StatementAt, FieldsStep
    <3>2. CASE work' = [work EXCEPT ![r] = [w EXCEPT !.logsOk = nothing]]
      <4>1. v.logsOk = nothing
        <5> HIDE DEF nothing
        <5> QED
          BY <1>t, <3>2 DEF Work
      <4> QED
        BY <3>1, <4>1
    <3>3. ASSUME NEW ok \in BOOLEAN, NEW written \in SUBSET w.response.tools,
                 Attempt(r, ok, written = w.response.tools),
                 toolLogs' = toolLogs \cup [by : {r}, session : {Sid(r)}, tool : written],
                 work' = [work EXCEPT ![r] = [w EXCEPT !.logsOk = ok]]
          PROVE  v.logsOk => \A t \in w.response.tools : [by |-> r, session |-> s, tool |-> t] \in toolLogs'
      <4>1. v.logsOk = ok
        BY <1>t, <3>3 DEF Work
      <4>2. ok => written = w.response.tools
        BY <3>3 DEF Attempt
      <4> QED
        BY <1>s, <3>3, <4>1, <4>2
    <3> QED
      BY <3>1, <3>2, <3>3 DEF PersistToolLogs, Keep
  <2>4. CASE pc[r] = "audit"
    BY <1>t, <2>4, StatementAt, OutlivesFields DEF PersistAudit
  <2> QED
    BY <2>1, <2>2, <2>3, <2>4
\* the alert
<1>4. v.recordsOk /\ v.response.ops = "run" => NewAlert(r) \in alerts'
  <2>1. CASE pc[r] \notin {"cache", "respond", "records", "audit"}
    BY <1>s, <1>g, <2>1, FieldsStep DEF TurnClaims
  <2>2. CASE pc[r] \in {"cache", "respond"}
    BY <2>2, FieldsStep DEF Inv, TurnState
  <2>3. CASE pc[r] = "records"
    <3> DEFINE recorded == w.response.ops = "none" \/ w.assistantOk
    <3>1. PersistOperationalRecords(r) /\ v.response = w.response
      BY <2>3, StatementAt, FieldsStep
    <3>2. CASE /\ w.response.ops = "none" \/ ~w.assistantOk \/ w.response.ops = "blocked"
               /\ work' = [work EXCEPT ![r] = [w EXCEPT !.recordsOk = recorded]]
      <4>1. v.recordsOk = recorded
        <5> HIDE DEF recorded
        <5> QED
          BY <1>t, <3>2 DEF Work
      <4> QED
        BY <3>1, <3>2, <4>1
    <3>3. ASSUME NEW ok \in BOOLEAN, NEW done \in BOOLEAN, Attempt(r, ok, done),
                 alerts' = IF done THEN alerts \cup {NewAlert(r)} ELSE alerts,
                 work' = [work EXCEPT ![r] = [w EXCEPT !.recordsOk = ok]]
          PROVE  v.recordsOk => NewAlert(r) \in alerts'
      <4>1. v.recordsOk = ok
        BY <1>t, <3>3 DEF Work
      <4> QED
        BY <3>3, <4>1 DEF Attempt
    <3> QED
      BY <3>1, <3>2, <3>3 DEF PersistOperationalRecords, Keep
  <2>4. CASE pc[r] = "audit"
    BY <1>t, <2>4, StatementAt, OutlivesFields DEF PersistAudit
  <2> QED
    BY <2>1, <2>2, <2>3, <2>4
<1> QED
  BY <1>1, <1>2, <1>3, <1>4, <1>f, <1>s DEF TurnClaims

\* Nothing that a table has is ever taken out of it.
LEMMA RowsStay ==
    ASSUME Inv, [Next]_vars
    PROVE  /\ toolLogs \subseteq toolLogs' /\ alerts \subseteq alerts'
           /\ \A s \in SessionIds : \A q \in Requests : \A from \in {"user", "assistant"} :
                Has(s, q, from) => Has(s, q, from)'
<1>1. ASSUME NEW r \in Requests, Proceed(r)
      PROVE  /\ toolLogs \subseteq toolLogs' /\ alerts \subseteq alerts'
             /\ \A s \in SessionIds : \A q \in Requests : \A from \in {"user", "assistant"} :
                  Has(s, q, from) => Has(s, q, from)'
  <2>1. req[r] \in Bodies
    BY <1>1, Frame DEF Inv, TurnState
  <2> QED
    BY <1>1, <2>1, TablesGrow, HasStays DEF Inv
<1>2. CASE UNCHANGED database
  BY <1>2 DEF database, Has
<1>3. ASSUME NEW r \in Requests, NEW b \in Bodies, Receive(r, b) PROVE UNCHANGED database
  BY <1>3 DEF Receive
<1>4. CASE Crash
  BY <1>2, <1>4 DEF Crash
<1>5. CASE UNCHANGED vars
  BY <1>2, <1>5 DEF vars, database
<1> QED
  BY <1>1, <1>2, <1>3, <1>4, <1>5 DEF Next, Idle

\* Claims and artifacts that nobody touches stay as true as they were.
LEMMA ClaimsStay ==
    ASSUME Inv, [Next]_vars
    PROVE  /\ \A q \in Requests :
                /\ TurnClaims(q) /\ Sid(q)' = Sid(q)
                /\ work'[q] = work[q]
                => TurnClaims(q)'
           /\ \A e \in audits :
                /\ AuditClaims(e) /\ pc'[e.by] = "done"
                /\ work'[e.by].response = work[e.by].response
                => AuditClaims(e)'
<1>g. /\ toolLogs \subseteq toolLogs' /\ alerts \subseteq alerts'
      /\ \A s \in SessionIds : \A q \in Requests : \A from \in {"user", "assistant"} :
           Has(s, q, from) => Has(s, q, from)'
  BY RowsStay
<1>1. ASSUME NEW q \in Requests, TurnClaims(q), Sid(q)' = Sid(q), work'[q] = work[q]
      PROVE  TurnClaims(q)'
  <2>1. PICK s \in SessionIds : s = Sid(q)
    BY TurnTypes DEF Inv
  <2>2. /\ Has(s, q, "user") => Has(s, q, "user")'
        /\ Has(s, q, "assistant") => Has(s, q, "assistant")'
    BY <1>g
  <2> QED
    BY <1>1, <1>g, <2>1, <2>2 DEF TurnClaims, NewAlert
<1>2. ASSUME NEW e \in audits, AuditClaims(e), pc'[e.by] = "done",
             work'[e.by].response = work[e.by].response
      PROVE  AuditClaims(e)'
  <2>1. e.session \in SessionIds /\ e.by \in Requests
    BY DEF Inv, TypeOK
  <2>2. /\ Has(e.session, e.by, "user") => Has(e.session, e.by, "user")'
        /\ Has(e.session, e.by, "assistant") => Has(e.session, e.by, "assistant")'
    BY <1>g, <2>1
  <2> QED
    BY <1>2, <1>g, <2>1, <2>2 DEF AuditClaims
<1> QED
  BY <1>1, <1>2

\* Every step.
LEMMA ClaimsStep == Inv /\ Claims /\ [Next]_vars => Claims'
<1> SUFFICES ASSUME Inv, Claims, [Next]_vars PROVE Claims'
  OBVIOUS
<1>t. TypeOK /\ \A e \in audits : e.by \in Requests
  BY DEF Inv, TypeOK
<1>1. ASSUME NEW r \in Requests, NEW b \in Bodies, Receive(r, b) PROVE Claims'
  <2>1. /\ pc[r] = "idle" /\ UNCHANGED <<database, work>>
        /\ \A q \in Requests : q # r => pc'[q] = pc[q] /\ Sid(q)' = Sid(q)
    BY <1>t, <1>1, ReceiveFrame
  <2>2. TurnClaims(r)'
    <3>1. work'[r] = NoWork
      BY <2>1 DEF Inv, TurnState
    <3>2. /\ ~NoWork.userOk /\ ~NoWork.assistantOk /\ ~NoWork.logsOk /\ ~NoWork.recordsOk
      BY DEF NoWork
    <3> QED
      BY <3>1, <3>2 DEF TurnClaims
  <2>3. \A q \in Requests : TurnClaims(q)'
    BY <2>1, <2>2, ClaimsStay DEF Claims
  <2>4. ASSUME NEW e \in audits PROVE AuditClaims(e)'
    <3>1. AuditClaims(e) /\ pc[e.by] = "done"
      BY DEF Claims, AuditClaims
    <3> QED
      BY <1>t, <2>1, <3>1, ClaimsStay
  <2> QED
    BY <2>1, <2>3, <2>4 DEF Claims, database
<1>2. ASSUME NEW r \in Requests, Proceed(r) PROVE Claims'
  <2>1. \A q \in Requests : TurnClaims(q)'
    <3>1. TurnClaims(r)'
      BY <1>2, ProceedClaims DEF Claims
    <3>2. ASSUME NEW q \in Requests, q # r PROVE TurnClaims(q)'
      BY <1>t, <1>2, <3>2, OthersKeep, ClaimsStay DEF Claims
    <3> QED
      BY <3>1, <3>2
  <2>2. ASSUME NEW e \in audits PROVE AuditClaims(e)'
    <3>1. AuditClaims(e) /\ pc[e.by] = "done"
      BY DEF Claims, AuditClaims
    <3>2. e.by # r
      BY <1>t, <1>2, <3>1, Frame DEF Over
    <3> QED
      BY <1>t, <1>2, <3>1, <3>2, OthersKeep, ClaimsStay
  <2>3. ASSUME NEW e, e = AuditRecord(r), pc[r] = "audit" PROVE AuditClaims(e)'
    <3> DEFINE w == work[r]
    <3>1. /\ pc' = [pc EXCEPT ![r] = "done"] /\ work' = [work EXCEPT ![r] = Outlives(w)]
          /\ UNCHANGED <<messages, toolLogs, alerts>>
      BY <1>2, <2>3, StatementAt DEF PersistAudit, Return, Goto
    <3>2. /\ pc'[r] = "done" /\ work'[r].response = w.response
      BY <1>t, <3>1, TurnTypes, OutlivesFields DEF TypeOK
    <3>3. /\ e.by = r /\ e.session = Sid(r) /\ e.hit = (w.cacheStatus = "hit") /\ e.user = w.userOk
          /\ e.assistant = w.assistantOk /\ e.logs = w.logsOk /\ e.records = w.recordsOk
      BY <2>3 DEF AuditRecord
    <3>4. TurnClaims(r)
      BY DEF Claims
    <3>5. \A from : Has(e.session, r, from)' = Has(e.session, r, from)
      BY <3>1 DEF Has
    <3> HIDE DEF w
    <3>6. /\ e.user => Has(e.session, r, "user")
          /\ e.assistant => Has(e.session, r, "assistant")
          /\ e.logs /\ ~e.hit => \A t \in w.response.tools :
               [by |-> r, session |-> e.session, tool |-> t] \in toolLogs
          /\ e.records /\ w.response.ops = "run" => [by |-> r, session |-> e.session] \in alerts
      BY <3>3, <3>4 DEF TurnClaims, NewAlert, w
    <3> QED
      BY <3>1, <3>2, <3>3, <3>5, <3>6 DEF AuditClaims
  <2>4. \A e \in audits' : e \in audits \/ (e = AuditRecord(r) /\ pc[r] = "audit")
    BY <1>t, <1>2, TablesGrow
  <2> QED
    BY <2>1, <2>2, <2>3, <2>4 DEF Claims
<1>3. CASE Crash
  <2>1. /\ UNCHANGED <<database, req>>
        /\ \A r \in Requests : /\ pc[r] = "done" => pc'[r] = "done"
                               /\ work'[r] = Outlives(work[r])
    BY <1>t, <1>3, CrashFrame DEF Over
  <2>2. ASSUME NEW r \in Requests
        PROVE  /\ ~work'[r].userOk /\ ~work'[r].assistantOk /\ ~work'[r].logsOk /\ ~work'[r].recordsOk
               /\ work'[r].response = work[r].response
    BY <1>t, <2>1, TurnTypes, OutlivesFields
  <2>3. \A r \in Requests : TurnClaims(r)'
    BY <2>2 DEF TurnClaims
  <2>4. ASSUME NEW e \in audits PROVE AuditClaims(e)'
    <3>1. AuditClaims(e) /\ pc[e.by] = "done"
      BY DEF Claims, AuditClaims
    <3> QED
      BY <1>t, <2>1, <2>2, <3>1, ClaimsStay
  <2> QED
    BY <2>1, <2>3, <2>4 DEF Claims, database
<1>4. CASE UNCHANGED vars
  <2>1. UNCHANGED <<pc, req, work, audits>>
    BY <1>4 DEF vars
  <2>2. \A q \in Requests : TurnClaims(q)'
    BY <2>1, ClaimsStay DEF Claims, Sid
  <2>3. ASSUME NEW e \in audits PROVE AuditClaims(e)'
    BY <2>1, ClaimsStay DEF Claims, AuditClaims
  <2> QED
    BY <2>1, <2>2, <2>3 DEF Claims
<1> QED
  BY <1>1, <1>2, <1>3, <1>4 DEF Next, Idle

\* A turn that has not begun claims nothing.
LEMMA InitClaims == Init => Claims
<1> SUFFICES ASSUME Init PROVE Claims
  OBVIOUS
<1>1. ASSUME NEW r \in Requests PROVE TurnClaims(r)
  <2>1. work[r] = NoWork
    BY DEF Init
  <2>2. /\ ~NoWork.userOk /\ ~NoWork.assistantOk /\ ~NoWork.logsOk /\ ~NoWork.recordsOk
    BY DEF NoWork
  <2> QED
    BY <2>1, <2>2 DEF TurnClaims
<1> QED
  BY <1>1 DEF Init, Claims

\* The persistence flags of an audit event claim nothing that is not in the tables.
THEOREM AuditsClaimTheTruth == Spec => []AuditClaimsAreTrue
<1>1. Claims => AuditClaimsAreTrue
  BY DEF Claims, AuditClaims, AuditClaimsAreTrue
<1> QED
  BY <1>1, InitInv, InvStep, InitClaims, ClaimsStep, PTL DEF Spec

\* A step adds a tool log only behind the question, and an alert only behind
\* the reply, that its turn has recorded.
LEMMA AnchoredStep == Inv /\ Claims /\ ArtifactsAnchored /\ [Next]_vars => ArtifactsAnchored'
<1> SUFFICES ASSUME Inv, Claims, ArtifactsAnchored, [Next]_vars PROVE ArtifactsAnchored'
  OBVIOUS
<1>t. /\ TypeOK
      /\ \A l \in toolLogs : l.session \in SessionIds /\ l.by \in Requests
      /\ \A a \in alerts : a.session \in SessionIds /\ a.by \in Requests
  BY DEF Inv, TypeOK
<1>g. \A s \in SessionIds : \A q \in Requests : \A from \in {"user", "assistant"} :
        Has(s, q, from) => Has(s, q, from)'
  BY RowsStay
<1>o. /\ \A l \in toolLogs : Has(l.session, l.by, "user")'
      /\ \A a \in alerts : Has(a.session, a.by, "assistant")'
  BY <1>t, <1>g DEF ArtifactsAnchored
<1>1. CASE UNCHANGED <<toolLogs, alerts>>
  BY <1>1, <1>o DEF ArtifactsAnchored
<1>2. ASSUME NEW r \in Requests, Proceed(r) PROVE ArtifactsAnchored'
  <2>1. PICK s \in SessionIds : s = Sid(r)
    BY <1>t, TurnTypes
  <2>2. TurnClaims(r)
    BY DEF Claims
  <2>3. \A l \in toolLogs' : l \in toolLogs \/ (l.session = s /\ l.by = r /\ work[r].userOk)
    <3>1. CASE pc[r] # "tool_logs"
      BY <1>t, <1>2, <3>1, TablesGrow
    <3>2. CASE PersistToolLogs(r)
      <4>1. \/ toolLogs' = toolLogs
            \/ /\ work[r].userOk
               /\ \E written : toolLogs' = toolLogs \cup [by : {r}, session : {s}, tool : written]
        BY <2>1, <3>2 DEF PersistToolLogs
      <4>2. \A written : \A l \in [by : {r}, session : {s}, tool : written] : l.session = s /\ l.by = r
        OBVIOUS
      <4> QED
        BY <4>1, <4>2
    <3> QED
      BY <1>2, <3>1, <3>2, StatementAt
  <2>4. \A a \in alerts' : a \in alerts \/ (a.session = s /\ a.by = r /\ work[r].assistantOk)
    <3>1. CASE pc[r] # "records"
      BY <1>t, <1>2, <3>1, TablesGrow
    <3>2. CASE PersistOperationalRecords(r)
      <4>1. \/ alerts' = alerts
            \/ work[r].assistantOk /\ alerts' = alerts \cup {[by |-> r, session |-> s]}
        BY <2>1, <3>2 DEF PersistOperationalRecords, NewAlert
      <4> QED
        BY <4>1
    <3> QED
      BY <1>2, <3>1, <3>2, StatementAt
  <2>5. /\ work[r].userOk => Has(s, r, "user")'
        /\ work[r].assistantOk => Has(s, r, "assistant")'
    BY <1>g, <2>1, <2>2 DEF TurnClaims
  <2> QED
    BY <1>o, <2>3, <2>4, <2>5 DEF ArtifactsAnchored
<1>3. ASSUME NEW r \in Requests, NEW b \in Bodies, Receive(r, b) PROVE UNCHANGED <<toolLogs, alerts>>
  BY <1>3 DEF Receive, database
<1> QED
  BY <1>1, <1>2, <1>3 DEF Next, Idle, Crash, database, vars

\* A tool log belongs to a question and an alert to a reply that are recorded.
THEOREM ArtifactsStayAnchored == Spec => []ArtifactsAnchored
<1>1. Init => ArtifactsAnchored
  BY DEF Init, ArtifactsAnchored
<1> QED
  BY <1>1, InitInv, InvStep, InitClaims, ClaimsStep, AnchoredStep, PTL DEF Spec

-----------------------------------------------------------------------------
(* Answers from the cache *)

\* The history of a turn is read, and with it its cache key has the value k.
Keyed(q, k) ==
    /\ q \in Requests /\ pc[q] \notin {"idle"} \cup Restoring
    /\ CacheKey(q) = k

\* An entry is under the key of the turn that stored it, and so is the turn
\* that is answered with it.
KeyState ==
    /\ \A e \in cache : Keyed(e.response.by, e.key)
    /\ \A r \in Requests : work[r].cacheStatus = "hit" =>
         \E k : Keyed(r, k) /\ Keyed(work[r].response.by, k)

\* A turn's key does not change once its history has been read.
LEMMA KeyedStays ==
    ASSUME Inv, [Next]_vars, NEW q, NEW k, Keyed(q, k)
    PROVE  Keyed(q, k)'
<1>t. TypeOK /\ q \in Requests /\ pc[q] \notin {"idle"} \cup Restoring
  BY DEF Inv, Keyed
<1>1. ASSUME req'[q] = req[q], work'[q].history = work[q].history,
             pc'[q] \notin {"idle"} \cup Restoring
      PROVE  Keyed(q, k)'
  BY <1>1 DEF Keyed, CacheKey, Sid
<1>2. ASSUME NEW r \in Requests, NEW b \in Bodies, Receive(r, b) PROVE Keyed(q, k)'
  <2>1. q # r
    BY <1>t, <1>2, ReceiveFrame
  <2> QED
    BY <1>t, <1>1, <1>2, <2>1, ReceiveFrame
<1>3. ASSUME NEW r \in Requests, Proceed(r) PROVE Keyed(q, k)'
  <2>1. CASE q # r
    BY <1>t, <1>1, <1>3, <2>1, OthersKeep
  <2>2. CASE q = r
    <3>1. req' = req /\ work'[r].history = work[r].history
      BY <1>t, <1>3, <2>2, Frame, FieldsStep
    <3>2. pc'[r] \notin {"idle"} \cup Restoring
      <4>1. \E label \in Labels \ Restoring : label # "idle" /\ pc' = [pc EXCEPT ![r] = label]
        BY <1>t, <1>3, <2>2
        DEF Proceed, RestoreSession, LoadContext, LoadDurable, LookupSession, ClaimSession,
            CreateSession, AppendUserMessage, PushUserMessage, ReadCache, Respond, StoreCache,
            AppendAssistantMessage, PushAssistantMessage, PersistToolLogs,
            PersistOperationalRecords, PersistAudit, Goto, Return, Labels, Restoring
      <4> QED
        BY <1>t, <4>1 DEF TypeOK
    <3> QED
      BY <1>1, <2>2, <3>1, <3>2
  <2> QED
    BY <2>1, <2>2
<1>4. CASE Crash
  <2>1. /\ req' = req /\ work'[q] = Outlives(work[q]) /\ pc'[q] \in {pc[q], "lost"}
    BY <1>t, <1>4, CrashFrame
  <2>2. work'[q].history = work[q].history
    BY <1>t, <2>1, TurnTypes, OutlivesFields
  <2> QED
    BY <1>t, <1>1, <2>1, <2>2 DEF Restoring
<1>5. CASE UNCHANGED vars
  BY <1>1, <1>5, <1>t DEF vars
<1> QED
  BY <1>2, <1>3, <1>4, <1>5 DEF Next, Idle

\* Every step.
LEMMA KeyStep == Inv /\ KeyState /\ [Next]_vars => KeyState'
<1> SUFFICES ASSUME Inv, KeyState, [Next]_vars PROVE KeyState'
  OBVIOUS
<1>t. TypeOK
  BY DEF Inv
<1> DEFINE Repeats(q) == \E k : Keyed(q, k) /\ Keyed(work[q].response.by, k)
<1>e. ASSUME NEW e \in cache PROVE Keyed(e.response.by, e.key)'
  <2>1. PICK q, k : q = e.response.by /\ k = e.key
    OBVIOUS
  <2>2. Keyed(q, k)'
    BY <2>1, KeyedStays DEF KeyState
  <2> QED
    BY <2>1, <2>2
\* a hit of before this step
<1>k. ASSUME NEW q \in Requests, work[q].cacheStatus = "hit", work'[q].response = work[q].response
      PROVE  Repeats(q)'
  <2>1. PICK k : Keyed(q, k) /\ Keyed(work[q].response.by, k)
    BY <1>k DEF KeyState
  <2>2. PICK p : p = work[q].response.by
    OBVIOUS
  <2>3. Keyed(q, k)' /\ Keyed(p, k)'
    BY <2>1, <2>2, KeyedStays
  <2> QED
    BY <1>k, <2>2, <2>3
<1> HIDE DEF Repeats
\* the cache and the hits are what they were
<1>0. ASSUME cache' = cache,
             \A q \in Requests : /\ work'[q].cacheStatus = work[q].cacheStatus
                                 /\ work'[q].response = work[q].response
      PROVE  KeyState'
  BY <1>e, <1>k, <1>0 DEF KeyState, Repeats
<1>1. ASSUME NEW r \in Requests, NEW b \in Bodies, Receive(r, b) PROVE KeyState'
  BY <1>0, <1>1 DEF Receive, redis
<1>2. ASSUME NEW r \in Requests, Proceed(r) PROVE KeyState'
  <2> DEFINE w == work[r]
  <2>w. w \in Work /\ DOMAIN work = Requests
    BY <1>t, TurnTypes DEF TypeOK
  <2>1. \A e \in cache' : \/ e \in cache
                          \/ pc[r] = "store" /\ e = [key |-> CacheKey(r), response |-> work[r].response]
    BY <1>2 DEF Proceed, RestoreSession, LoadContext, LoadDurable, LookupSession, ClaimSession,
       CreateSession, AppendUserMessage, PushUserMessage, ReadCache, Respond, StoreCache, WithEntry,
       AppendAssistantMessage, PushAssistantMessage, PersistToolLogs, PersistOperationalRecords,
       PersistAudit, redis
  <2>2. ASSUME NEW e, pc[r] = "store", e = [key |-> CacheKey(r), response |-> work[r].response]
        PROVE  Keyed(e.response.by, e.key)'
    <3>1. PICK k : k = CacheKey(r)
      OBVIOUS
    <3>2. e.response.by = r /\ e.key = k
      BY <2>2, <3>1 DEF Inv, TurnState
    <3>3. Keyed(r, k)
      BY <2>2, <3>1 DEF Keyed, Restoring
    <3>4. Keyed(r, k)'
      BY <3>3, KeyedStays
    <3> QED
      BY <3>2, <3>4
  <2>3. ASSUME NEW q \in Requests, work'[q].cacheStatus = "hit" PROVE Repeats(q)'
    <3>1. CASE q # r
      BY <1>k, <1>t, <1>2, <2>3, <3>1, OthersKeep
    <3>2. CASE q = r /\ pc[r] \notin {"cache", "respond", "store"}
      BY <1>k, <1>2, <2>3, <3>2, FieldsStep
    <3>3. CASE pc[r] = "respond"
      BY <1>2, <1>k, <1>t, <2>3, <3>1, <3>3, FieldsStep DEF Inv, TurnState, Finishing, Over
    <3>4. CASE q = r /\ pc[r] = "store"
      <4>1. work' = [work EXCEPT ![r] = [w EXCEPT !.cacheStatus = "none"]]
        BY <1>2, <3>4, StatementAt DEF StoreCache, Keep
      <4> HIDE DEF w
      <4> QED
        BY <2>3, <2>w, <3>4, <4>1 DEF Work
    <3>5. CASE q = r /\ pc[r] = "cache"
      <4>1. \/ \E c \in {"none", "miss"} : work' = [work EXCEPT ![r] = [w EXCEPT !.cacheStatus = c]]
            \/ \E e \in cache : /\ e.key = CacheKey(r)
                 /\ work' = [work EXCEPT ![r] = [w EXCEPT !.cacheStatus = "hit", !.response = e.response]]
        BY <1>2, <3>5, StatementAt DEF ReadCache, Keep
      <4>2. PICK k : k = CacheKey(r)
        OBVIOUS
      <4>3. Keyed(r, k)'
        BY <3>5, <4>2, KeyedStays DEF Keyed, Restoring
      <4> HIDE DEF w
      <4>4. PICK e \in cache :
              /\ e.key = k
              /\ work' = [work EXCEPT ![r] = [w EXCEPT !.cacheStatus = "hit", !.response = e.response]]
        BY <2>3, <2>w, <3>5, <4>1, <4>2 DEF Work
      <4>5. work'[r].response = e.response
        BY <2>w, <4>4 DEF Work
      <4> QED
        BY <1>e, <3>5, <4>3, <4>4, <4>5 DEF Repeats
    <3> QED
      BY <3>1, <3>2, <3>3, <3>4, <3>5
  <2> QED
    BY <1>e, <2>1, <2>2, <2>3 DEF KeyState, Repeats
<1>3. CASE Crash
  <2>1. /\ cache' = cache
        /\ \A q \in Requests : work'[q] = Outlives(work[q]) /\ work[q] \in Work
    BY <1>t, <1>3, CrashFrame, TurnTypes DEF redis
  <2> QED
    BY <1>0, <2>1, OutlivesFields
<1>4. CASE UNCHANGED vars
  BY <1>0, <1>4 DEF vars
<1> QED
  BY <1>1, <1>2, <1>3, <1>4 DEF Next, Idle

\* A turn answered from the cache gets the reply to the same question, asked by
\* the same user in the same session after the same messages.
THEOREM HitsAlwaysRepeatTheTurn == Spec => []HitsRepeatTheTurn
<1>1. Init => KeyState
  BY DEF Init, KeyState, NoWork
<1>2. KeyState => HitsRepeatTheTurn
  <2> SUFFICES ASSUME KeyState, NEW r \in Requests, work[r].cacheStatus = "hit"
               PROVE  /\ CacheKey(work[r].response.by) = CacheKey(r)
                      /\ Plain(work[work[r].response.by].history) = Plain(work[r].history)
    BY DEF HitsRepeatTheTurn
  <2>1. CacheKey(work[r].response.by) = CacheKey(r)
    BY DEF KeyState, Keyed
  <2>2. \A q : CacheKey(q).history = Plain(work[q].history)
    BY DEF CacheKey
  <2> QED
    BY <2>1, <2>2
<1> QED
  BY <1>1, <1>2, InitInv, InvStep, KeyStep, PTL DEF Spec

-----------------------------------------------------------------------------
(* The two histories of a session *)

\* A session nobody has used is empty in both stores; one that is owned has in
\* Redis the last messages of PostgreSQL.
Agrees(s) ==
    \/ owner[s] = "absent" /\ messages[s] = <<>> /\ \A u \in Users : context[<<u, s>>] = <<>>
    \/ owner[s] \in Users /\ context[<<owner[s], s>>] = TakeLast(messages[s])

\* Redis does not have this message yet.
Behind(s, message) ==
    /\ owner[s] \in Users
    /\ \E m \in Seq(Message) :
         messages[s] = Append(m, message) /\ context[<<owner[s], s>>] = TakeLast(m)

\* What the only turn of a session finds at each label when nothing has failed.
Undisturbed(r, s) ==
    /\ pc[r] # "claim"
    /\ pc[r] \in Restoring \cup {"lookup", "create"} => Agrees(s)
    /\ pc[r] = "create" => owner[s] = "absent"
    /\ pc[r] \in {"append_user", "push_user", "cache", "respond", "store"} \cup Finishing =>
         owner[s] = req[r].user /\ work[r].sessionOk
    /\ pc[r] \in {"append_user", "cache", "respond", "store", "append_assistant",
                  "tool_logs", "records", "audit"} => Agrees(s)
    /\ pc[r] = "push_user" => Behind(s, UserMessage(r))
    /\ pc[r] = "push_assistant" => Behind(s, AssistantMessage(r))

\* An undisturbed session has one turn at a time, and agrees between turns.
Sources(s) ==
    /\ \A q, r \in InFlight : Sid(q) = s /\ Sid(r) = s => q = r
    /\ (\A r \in InFlight : Sid(r) # s) => Agrees(s)
    /\ s \in Requests /\ pc[s] = "idle" => owner[s] = "absent"
    /\ \A r \in InFlight : Sid(r) = s => Undisturbed(r, s)

SourcesState == \A s \in SessionIds \ disturbed : Sources(s)

\* The id a turn draws is nobody else's.
LEMMA OwnId ==
    ASSUME Inv, NEW r \in InFlight, Sid(r) \in Requests
    PROVE  Sid(r) = r
<1>1. r \in Requests /\ req[r] \in Bodies
  BY DEF InFlight, Inv, TurnState
<1> QED
  BY <1>1, IdsAssumption DEF Sid, Bodies

\* A turn reads and writes the rows and lists of its own session.
LEMMA OtherSessionsKeep ==
    ASSUME Inv, NEW r \in Requests, Proceed(r), NEW z \in SessionIds, z # Sid(r)
    PROVE  /\ owner'[z] = owner[z] /\ messages'[z] = messages[z]
           /\ \A u \in Users : context'[<<u, z>>] = context[<<u, z>>]
<1>t. /\ TypeOK /\ DOMAIN owner = SessionIds /\ DOMAIN messages = SessionIds
      /\ DOMAIN context = Users \X SessionIds /\ Sid(r) \in SessionIds
  BY TurnTypes DEF Inv, TypeOK
<1>1. owner' = owner \/ \E o : owner' = [owner EXCEPT ![Sid(r)] = o]
  BY DEF Proceed, RestoreSession, LoadContext, LoadDurable, LookupSession, ClaimSession, CreateSession,
     AppendUserMessage, PushUserMessage, ReadCache, Respond, StoreCache, AppendAssistantMessage,
     PushAssistantMessage, PersistToolLogs, PersistOperationalRecords, PersistAudit, database
<1>2. messages' = messages \/ \E l : messages' = [messages EXCEPT ![Sid(r)] = l]
  BY <1>t, TablesGrow DEF Stored
<1>3. context' = context \/ \E l : context' = [context EXCEPT ![<<req[r].user, Sid(r)>>] = l]
  BY DEF Proceed, RestoreSession, LoadContext, LoadDurable, LookupSession, ClaimSession, CreateSession,
     AppendUserMessage, PushUserMessage, ReadCache, Respond, StoreCache, AppendAssistantMessage,
     PushAssistantMessage, PersistToolLogs, PersistOperationalRecords, PersistAudit, redis, Push
<1>4. \A u \in Users : <<u, z>> # <<req[r].user, Sid(r)>> /\ <<u, z>> \in Users \X SessionIds
  OBVIOUS
<1> QED
  BY <1>t, <1>1, <1>2, <1>3, <1>4

\* What is the same in both stores stays so while neither is written.
LEMMA AgreesStays ==
    ASSUME NEW s, Agrees(s), owner'[s] = owner[s], messages'[s] = messages[s],
           \A u \in Users : context'[<<u, s>>] = context[<<u, s>>]
    PROVE  Agrees(s)'
BY DEF Agrees, TakeLast

\* A message that goes to PostgreSQL is one that Redis does not have yet ...
LEMMA AgreesThenBehind ==
    ASSUME Inv, NEW r \in Requests, NEW s \in SessionIds, s = Sid(r), Agrees(s), owner[s] \in Users,
           NEW message \in Message, messages' = Stored(r, message), UNCHANGED <<owner, context>>
    PROVE  Behind(s, message)'
<1>1. messages \in [SessionIds -> Seq(Message)]
  BY DEF Inv, TypeOK
<1>2. context[<<owner[s], s>>] = TakeLast(messages[s])
  BY IdsAssumption DEF Agrees
<1>3. messages'[s] = Append(messages[s], message) /\ messages[s] \in Seq(Message)
  BY <1>1 DEF Stored
<1> QED
  BY <1>2, <1>3 DEF Behind, TakeLast

\* ... until it is pushed and the list is trimmed.
LEMMA BehindThenAgrees ==
    ASSUME Inv, NEW r \in Requests, NEW s \in SessionIds, s = Sid(r), owner[s] = req[r].user,
           NEW message \in Message, Behind(s, message), Push(r, message), s \notin disturbed',
           UNCHANGED <<owner, messages>>
    PROVE  Agrees(s)'
<1>1. PICK m \in Seq(Message) :
        messages[s] = Append(m, message) /\ context[<<owner[s], s>>] = TakeLast(m)
  BY DEF Behind
<1>2. owner[s] \in Users /\ context \in [Users \X SessionIds -> Seq(Message)]
  BY DEF Behind, Inv, TypeOK
<1> DEFINE k == <<owner[s], s>>
<1>3. context' = [context EXCEPT ![k] = TakeLast(Append(@, message))]
  BY DEF Push, Attempt
<1>4. k \in DOMAIN context
  BY <1>2
<1>5. context'[k] = TakeLast(Append(TakeLast(m), message))
  BY <1>1, <1>3, <1>4
<1>6. context'[k] = TakeLast(messages[s])
  BY <1>1, <1>5, TrimmedAppend
<1> QED
  BY <1>2, <1>6 DEF Agrees, TakeLast

\* The turn's own session: it goes on undisturbed, or it is over and all agrees.
LEMMA TurnSources ==
    ASSUME Inv, NEW r \in Requests, Proceed(r), NEW s \in SessionIds, s = Sid(r),
           s \notin disturbed', Undisturbed(r, s)
    PROVE  IF pc'[r] \in Over THEN Agrees(s)' ELSE Undisturbed(r, s)'
<1> DEFINE w == work[r]
<1>t. /\ TypeOK /\ DOMAIN owner = SessionIds /\ DOMAIN work = Requests /\ pc \in [Requests -> Labels]
      /\ w \in Work /\ AssistantMessage(r) \in Message
  BY TurnTypes DEF Inv, TypeOK
<1>b. req' = req /\ req[r] \in Bodies /\ UserMessage(r) \in Message /\ req[r].user \in Users
  BY <1>t, Frame, TurnTypes DEF Inv, TurnState
<1>u. req[r].user # "absent"
  BY <1>b, IdsAssumption
<1>a. \A ok, done : Attempt(r, ok, done) => ok /\ done
  BY DEF Attempt
<1>f. pc[r] \notin {"lookup", "claim", "create", "audit"} => work'[r].sessionOk = work[r].sessionOk
  BY FieldsStep
<1> USE DEF Goto, Return, AfterRestore, Over, Restoring, Finishing
<1>1. CASE pc[r] \in Restoring
  <2>1. UNCHANGED <<owner, messages, context>> /\ pc'[r] \in {"load_context", "load_durable", "lookup", "done"}
    BY <1>1, <1>t, StatementAt DEF RestoreSession, LoadContext, LoadDurable, database, redis
  <2>2. Agrees(s)'
    BY <1>1, <2>1, AgreesStays DEF Undisturbed
  <2> QED
    BY <2>1, <2>2 DEF Undisturbed
<1>2. CASE pc[r] = "lookup"
  <2>1. LookupSession(r) /\ Agrees(s)
    BY <1>2, StatementAt DEF Undisturbed
  <2>2. UNCHANGED <<owner, messages, context>>
    BY <2>1 DEF LookupSession, database, redis
  <2>3. Agrees(s)'
    BY <2>1, <2>2, AgreesStays
  <2>4. CASE pc'[r] = "done"
    BY <2>3, <2>4
  <2>5. CASE owner[s] = "absent" /\ pc'[r] = "create"
    BY <2>2, <2>3, <2>5 DEF Undisturbed
  <2>6. CASE /\ owner[s] = req[r].user /\ pc'[r] = "append_user"
             /\ \E o, ok : ok /\ work' = [work EXCEPT ![r] = [w EXCEPT !.seen = o, !.sessionOk = ok]]
    <3>1. work'[r].sessionOk
      <4> HIDE DEF w
      <4> QED
        BY <1>t, <2>6 DEF Work
    <3> QED
      BY <1>b, <2>2, <2>3, <2>6, <3>1 DEF Undisturbed
  <2>7. owner[s] = "absent" \/ owner[s] \in Users
    BY <2>1 DEF Agrees
  <2>8. None \notin Users
    BY NoneAssumption
  <2>9. CASE Attempt(r, FALSE, FALSE)
    BY <1>a, <2>9
  <2>10. CASE /\ owner[s] \in {"absent", None, req[r].user}
              /\ work' = [work EXCEPT ![r] = [w EXCEPT !.seen = owner[s], !.sessionOk = (owner[s] = req[r].user)]]
              /\ pc'[r] = IF owner[s] = "absent" THEN "create" ELSE IF owner[s] = None THEN "claim" ELSE "append_user"
    BY <1>u, <2>5, <2>6, <2>7, <2>8, <2>10
  <2> QED
    BY <1>t, <2>1, <2>4, <2>9, <2>10 DEF LookupSession, Keep
<1>3. CASE pc[r] = "create"
  <2>1. CreateSession(r) /\ Agrees(s) /\ owner[s] = "absent"
    BY <1>3, StatementAt DEF Undisturbed
  <2>2. /\ owner' = [owner EXCEPT ![s] = req[r].user]
        /\ work' = [work EXCEPT ![r] = [w EXCEPT !.sessionOk = TRUE]]
        /\ pc'[r] = "append_user" /\ UNCHANGED <<messages, context>>
    BY <1>a, <1>t, <2>1 DEF CreateSession, Keep, redis
  <2>3. owner'[s] = req[r].user
    BY <1>t, <2>2
  <2>4. work'[r].sessionOk
    <3> HIDE DEF w
    <3> QED
      BY <1>t, <2>2 DEF Work
  <2>5. messages[s] = <<>> /\ context[<<req[r].user, s>>] = <<>>
    BY <1>b, <2>1, IdsAssumption DEF Agrees
  <2>6. TakeLast(<<>>) = <<>>
    BY BoundsAssumption DEF TakeLast
  <2>7. Agrees(s)'
    BY <1>b, <2>2, <2>3, <2>5, <2>6 DEF Agrees, TakeLast
  <2> QED
    BY <1>b, <2>2, <2>3, <2>4, <2>7 DEF Undisturbed
<1>o. pc[r] \notin Restoring \cup {"lookup", "create"} =>
        owner[s] = req[r].user /\ w.sessionOk /\ owner[s] \in Users
  BY <1>b, StatementAt DEF Undisturbed, Starting
<1>4. CASE pc[r] = "append_user" \/ pc[r] = "append_assistant"
  <2>1. PICK message \in {UserMessage(r), AssistantMessage(r)} :
          /\ messages' = Stored(r, message) /\ UNCHANGED <<owner, context>>
          /\ \/ message = UserMessage(r) /\ pc'[r] = "push_user"
             \/ message = AssistantMessage(r) /\ pc'[r] = "push_assistant"
    <3>1. \A message : \A ok, done \in BOOLEAN :
            /\ Attempt(r, ok, done) /\ messages' = (IF done THEN Stored(r, message) ELSE messages)
            => messages' = Stored(r, message)
      BY <1>a
    <3>2. CASE AppendUserMessage(r)
      <4>1. messages' = Stored(r, UserMessage(r)) /\ pc'[r] = "push_user" /\ UNCHANGED <<owner, context>>
        BY <1>o, <1>t, <1>4, <3>1, <3>2 DEF AppendUserMessage, redis
      <4> QED
        BY <4>1
    <3>3. CASE AppendAssistantMessage(r)
      <4>1. messages' = Stored(r, AssistantMessage(r)) /\ pc'[r] = "push_assistant" /\ UNCHANGED <<owner, context>>
        BY <1>o, <1>t, <1>4, <3>1, <3>3 DEF AppendAssistantMessage, redis
      <4> QED
        BY <4>1
    <3> QED
      BY <1>4, <3>2, <3>3, StatementAt
  <2>2. Behind(s, message)'
    BY <1>4, <1>b, <1>o, <1>t, <2>1, AgreesThenBehind DEF Undisturbed
  <2>3. UserMessage(r)' = UserMessage(r) /\ AssistantMessage(r)' = AssistantMessage(r)
    BY <1>4, <1>b, FieldsStep DEF UserMessage, AssistantMessage
  <2> QED
    BY <1>4, <1>b, <1>f, <1>o, <2>1, <2>2, <2>3 DEF Undisturbed
<1>5. CASE pc[r] = "push_user" \/ pc[r] = "push_assistant"
  <2>1. PICK message \in {UserMessage(r), AssistantMessage(r)} :
          /\ Push(r, message) /\ Behind(s, message) /\ UNCHANGED <<owner, messages>>
          /\ pc'[r] \in {"cache", "tool_logs"}
    BY <1>5, <1>t, StatementAt DEF PushUserMessage, PushAssistantMessage, database, Undisturbed
  <2>2. Agrees(s)'
    BY <1>b, <1>o, <1>5, <1>t, <2>1, BehindThenAgrees
  <2> QED
    BY <1>5, <1>b, <1>f, <1>o, <2>1, <2>2 DEF Undisturbed
<1>6. CASE pc[r] \in {"cache", "respond", "store", "tool_logs", "records", "audit"}
  <2>1. /\ UNCHANGED <<owner, messages, context>>
        /\ pc'[r] \in {"respond", "store", "append_assistant", "records", "audit", "done"}
    BY <1>6, <1>t, StatementAt DEF ReadCache, Respond, StoreCache, PersistToolLogs,
       PersistOperationalRecords, PersistAudit, database, redis
  <2>2. Agrees(s)'
    BY <1>6, <2>1, AgreesStays DEF Undisturbed
  <2>3. pc[r] = "audit" => pc'[r] = "done"
    BY <1>t, StatementAt DEF PersistAudit
  <2> QED
    BY <1>6, <1>b, <1>f, <1>o, <2>1, <2>2, <2>3 DEF Undisturbed
<1> QED
  BY <1>1, <1>2, <1>3, <1>4, <1>5, <1>6, StatementAt DEF Undisturbed, Starting

\* A step of a turn.
LEMMA ProceedSources ==
    ASSUME Inv, SourcesState, NEW r \in Requests, Proceed(r), NEW z \in SessionIds \ disturbed'
    PROVE  Sources(z)'
<1>t. TypeOK /\ r \in InFlight /\ z \notin disturbed /\ pc \in [Requests -> Labels]
  BY Frame DEF Inv, TypeOK, InFlight, Over, Counted, ghosts
<1>1. PICK label \in Labels \ {"idle", "lost"} : pc' = [pc EXCEPT ![r] = label]
  BY <1>t, Frame
<1>2. /\ InFlight' = IF label = "done" THEN InFlight \ {r} ELSE InFlight
      /\ pc'[r] = label
  BY <1>t, <1>1 DEF InFlight, Labels
<1>3. \A q \in Requests : Sid(q)' = Sid(q)
  BY <1>t, Frame DEF Sid
<1>4. \A q \in Requests : q # r => pc'[q] = pc[q] /\ work'[q] = work[q] /\ req'[q] = req[q]
  BY <1>t, OthersKeep
<1>5. Sources(z)
  BY <1>t DEF SourcesState
<1>i. \A q \in InFlight : q \in Requests
  BY DEF InFlight
<1>6. CASE z # Sid(r)
  <2>1. /\ owner'[z] = owner[z] /\ messages'[z] = messages[z]
        /\ \A u \in Users : context'[<<u, z>>] = context[<<u, z>>]
    BY <1>6, OtherSessionsKeep
  <2>2. Agrees(z) => Agrees(z)'
    BY <2>1, AgreesStays
  <2>3. \A message : Behind(z, message) => Behind(z, message)'
    BY <2>1 DEF Behind, TakeLast
  <2>4. \A q \in InFlight' : Sid(q)' = z => q \in InFlight /\ q # r /\ Sid(q) = z
    BY <1>2, <1>3, <1>6, <1>i
  <2>5. \A q \in InFlight : Sid(q) = z => q \in InFlight'
    BY <1>2, <1>6
  <2>6. ASSUME NEW q \in InFlight', Sid(q)' = z PROVE Undisturbed(q, z)'
    <3>1. q \in Requests /\ q # r /\ Undisturbed(q, z)
      BY <1>5, <1>i, <2>4, <2>6 DEF Sources
    <3>2. pc'[q] = pc[q] /\ work'[q] = work[q] /\ req'[q] = req[q]
      BY <1>4, <3>1
    <3>3. UserMessage(q)' = UserMessage(q) /\ AssistantMessage(q)' = AssistantMessage(q)
      BY <3>2 DEF UserMessage, AssistantMessage
    <3> QED
      BY <2>1, <2>2, <2>3, <3>1, <3>2, <3>3 DEF Undisturbed
  <2>7. z \in Requests /\ pc'[z] = "idle" => owner'[z] = "absent"
    BY <1>1, <1>2, <1>4, <1>5, <2>1 DEF Sources
  <2>8. (\A q \in InFlight' : Sid(q)' # z) => Agrees(z)'
    <3>1. (\A q \in InFlight' : Sid(q)' # z) => \A q \in InFlight : Sid(q) # z
      BY <1>3, <1>i, <2>5
    <3> QED
      BY <1>5, <2>2, <3>1 DEF Sources
  <2>9. \A p, q \in InFlight' : Sid(p)' = z /\ Sid(q)' = z => p = q
    BY <1>5, <2>4 DEF Sources
  <2> QED
    BY <2>6, <2>7, <2>8, <2>9 DEF Sources
<1>7. CASE z = Sid(r)
  <2>1. IF label = "done" THEN Agrees(z)' ELSE Undisturbed(r, z)'
    <3>1. Undisturbed(r, z)
      BY <1>t, <1>5, <1>7 DEF Sources
    <3> QED
      BY <1>1, <1>2, <1>7, <3>1, TurnSources DEF Over
  <2>2. \A q \in InFlight' : Sid(q)' = z => q = r
    BY <1>t, <1>2, <1>3, <1>5, <1>7, <1>i DEF Sources
  <2>3. r \in InFlight' <=> label # "done"
    BY <1>t, <1>2
  <2>4. z \in Requests => pc'[z] # "idle"
    BY <1>t, <1>1, <1>2, <1>7, OwnId
  <2>5. Sid(r)' = z
    BY <1>3, <1>7
  <2> QED
    BY <2>1, <2>2, <2>3, <2>4, <2>5 DEF Sources
<1> QED
  BY <1>6, <1>7

\* A message arrives.
LEMMA ReceiveSources ==
    ASSUME Inv, SourcesState, NEW r \in Requests, NEW b \in Bodies, Receive(r, b),
           NEW z \in SessionIds \ disturbed'
    PROVE  Sources(z)'
<1>t. /\ TypeOK /\ r \notin InFlight /\ z \notin disturbed
      /\ pc[r] = "idle" /\ req'[r] = b /\ UNCHANGED <<owner, messages, context, work>>
      /\ pc'[r] \in {"restore", "create", "done"}
      /\ \A q \in Requests : q # r => pc'[q] = pc[q] /\ req'[q] = req[q] /\ Sid(q)' = Sid(q)
  BY ReceiveFrame DEF Inv, InFlight, database, redis
<1>1. /\ InFlight' = IF pc'[r] = "done" THEN InFlight ELSE InFlight \cup {r}
      /\ \A q \in InFlight : q \in Requests
  BY <1>t DEF InFlight
<1>2. Sources(z)
  BY <1>t DEF SourcesState
<1>3. /\ Agrees(z) => Agrees(z)'
      /\ \A message : Behind(z, message) => Behind(z, message)'
  BY <1>t DEF Agrees, Behind, TakeLast
<1>4. ASSUME NEW q \in InFlight, Sid(q) = z PROVE Undisturbed(q, z)'
  <2>1. q \in Requests /\ q # r /\ Undisturbed(q, z)
    BY <1>t, <1>1, <1>2, <1>4 DEF Sources
  <2>2. pc'[q] = pc[q] /\ work'[q] = work[q] /\ req'[q] = req[q]
    BY <1>t, <2>1
  <2>3. UserMessage(q)' = UserMessage(q) /\ AssistantMessage(q)' = AssistantMessage(q)
    BY <2>2 DEF UserMessage, AssistantMessage
  <2> QED
    BY <1>t, <1>3, <2>1, <2>2, <2>3 DEF Undisturbed
<1>5. z \in Requests /\ pc'[z] = "idle" => owner'[z] = "absent"
  BY <1>t, <1>2 DEF Sources
<1>6. CASE r \notin InFlight' \/ Sid(r)' # z
  <2>1. \A q \in InFlight' : Sid(q)' = z => q \in InFlight /\ Sid(q) = z
    BY <1>t, <1>1, <1>6
  <2>2. \A q \in InFlight : q \in InFlight' /\ Sid(q)' = Sid(q)
    BY <1>t, <1>1
  <2> QED
    BY <1>2, <1>3, <1>4, <1>5, <2>1, <2>2 DEF Sources
<1>7. CASE r \in InFlight' /\ Sid(r)' = z
  <2>1. \A q \in InFlight : Sid(q) # z
    <3>1. CASE b.session = None
      <4>1. z = r
        BY <1>t, <1>7, <3>1 DEF Sid
      <4> QED
        BY <1>t, <4>1, OwnId
    <3>2. CASE b.session # None
      <4>1. z = b.session
        BY <1>t, <1>7, <3>2 DEF Sid
      <4> QED
        BY <3>2, <4>1 DEF Receive
    <3> QED
      BY <3>1, <3>2
  <2>2. Agrees(z)'
    BY <1>2, <1>3, <2>1 DEF Sources
  <2>3. \A q \in InFlight' : Sid(q)' = z => q = r
    BY <1>t, <1>1, <2>1
  <2>4. pc'[r] = "create" => owner'[z] = "absent"
    <3>1. pc'[r] = "create" => b.session = None
      <4>1. DOMAIN pc = Requests
        BY <1>t DEF TypeOK
      <4> QED
        BY <4>1 DEF Receive, Goto, Return
    <3>2. b.session = None => z = r
      BY <1>t, <1>7 DEF Sid
    <3> QED
      BY <1>t, <1>2, <3>1, <3>2 DEF Sources
  <2>5. pc'[r] \in {"restore", "create"}
    BY <1>t, <1>1, <1>7
  <2>6. Undisturbed(r, z)'
    BY <2>2, <2>4, <2>5 DEF Undisturbed, Restoring, Finishing
  <2> QED
    BY <1>5, <1>7, <2>3, <2>6 DEF Sources
<1> QED
  BY <1>6, <1>7

\* Every step.
LEMMA SourcesStep == Inv /\ SourcesState /\ [Next]_vars => SourcesState'
<1> SUFFICES ASSUME Inv, SourcesState, [Next]_vars PROVE SourcesState'
  OBVIOUS
<1>1. ASSUME NEW r \in Requests, NEW b \in Bodies, Receive(r, b) PROVE SourcesState'
  BY <1>1, ReceiveSources DEF SourcesState
<1>2. ASSUME NEW r \in Requests, Proceed(r) PROVE SourcesState'
  BY <1>2, ProceedSources DEF SourcesState
<1>3. CASE Crash
  <2> SUFFICES ASSUME NEW z \in SessionIds \ disturbed' PROVE Sources(z)'
    BY DEF SourcesState
  <2>1. /\ UNCHANGED <<owner, messages, context>> /\ z \notin disturbed
        /\ \A q \in InFlight : Sid(q) # z
        /\ \A q \in Requests : pc'[q] = "idle" => pc[q] = "idle"
        /\ InFlight' = {}
    BY <1>3, CrashFrame DEF Inv, database, redis, InFlight, Over
  <2>2. Sources(z)
    BY <2>1 DEF SourcesState
  <2>3. Agrees(z)'
    BY <2>1, <2>2, AgreesStays DEF Sources
  <2> QED
    BY <2>1, <2>2, <2>3 DEF Sources
<1>4. CASE UNCHANGED vars
  <2>1. /\ UNCHANGED <<pc, req, work, owner, messages, context, disturbed>>
        /\ InFlight' = InFlight /\ \A r \in InFlight : Sid(r)' = Sid(r)
    BY <1>4 DEF vars, InFlight, Sid
  <2>2. \A r : UserMessage(r)' = UserMessage(r) /\ AssistantMessage(r)' = AssistantMessage(r)
    BY <2>1 DEF UserMessage, AssistantMessage
  <2>3. \A s : /\ Agrees(s)' = Agrees(s)
               /\ \A message : Behind(s, message)' = Behind(s, message)
    BY <2>1 DEF Agrees, Behind, TakeLast
  <2>4. \A r, s : Undisturbed(r, s)' = Undisturbed(r, s)
    BY <2>1, <2>2, <2>3 DEF Undisturbed
  <2> QED
    BY <2>1, <2>3, <2>4 DEF SourcesState, Sources
<1> QED
  BY <1>1, <1>2, <1>3, <1>4 DEF Next, Idle

\* Redis and PostgreSQL tell the same recent history of a session in which no
\* call has failed and no two turns have overlapped, once its turns are over.
THEOREM HistorySourcesAlwaysAgree == Spec => []HistorySourcesAgree
<1>1. Init => SourcesState
  <2> SUFFICES ASSUME Init, NEW s \in SessionIds \ disturbed PROVE Sources(s)
    BY DEF SourcesState
  <2>1. InFlight = {}
    BY DEF Init, InFlight
  <2>2. owner[s] = "absent" /\ messages[s] = <<>> /\ \A u \in Users : context[<<u, s>>] = <<>>
    BY DEF Init
  <2> QED
    BY <2>1, <2>2 DEF Sources, Agrees
<1>2. SourcesState => HistorySourcesAgree
  <2> SUFFICES ASSUME SourcesState, NEW s \in SessionIds \ disturbed,
                      \A r \in InFlight : Sid(r) # s, owner[s] \in Users
               PROVE  context[<<owner[s], s>>] = TakeLast(messages[s])
    BY DEF HistorySourcesAgree
  <2>1. Agrees(s)
    BY DEF SourcesState, Sources
  <2> QED
    BY <2>1, IdsAssumption DEF Agrees
<1> QED
  BY <1>1, <1>2, InitInv, InvStep, SourcesStep, PTL DEF Spec
=============================================================================
