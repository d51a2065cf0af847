------------------------- MODULE PortControls_proofs -------------------------
(***************************************************************************)
(* Proofs about PortControls.  The invariant has one part for each         *)
(* property, and LockInv, which says who holds mLock where.                *)
(***************************************************************************)
EXTENDS PortControls, TLAPS

Limit == "limitPowerTransfer"
Detection == "enableContaminantPresenceDetection"
Security == "setPortSecurityState"
Write1 == [node : Nodes, value : Values]

\* A query holds mLock from its first read to its report, limitPowerTransfer
\* from before its first write; the poll thread does nothing but queries.
LockInv ==
  /\ \A t \in Threads : pc[t] \in QueryPcs => mLock = t
  /\ pc["binder"] = "write" /\ call.op = Limit => mLock = "binder"
  /\ pc["binder"] = "property" => call.op = Detection
  /\ pc["binder"] = "lock" => call.op = Limit
  /\ pc["binder"] \in {"findBus", "busToken"} => call.op \in {Limit, Security}
  /\ pc["poll"] \in QueryPcs \cup {"idle", "query", "dead"}

\* A lookup that met no other has the text to itself between its two calls.
MetInv ==
  /\ \A t \in Threads : InLookup(t) /\ ~met[t] => last = "bus"
  /\ \A t, u \in Threads : t # u /\ InLookup(t) /\ InLookup(u) => met[t] /\ met[u]
  /\ LookupWrongOnlyIfMet

\* What is left to write is of the call.
TodoInv ==
  /\ call.op = Detection => todo \in {<<>>, <<W("ContaminantDetection", call.arg)>>}
  /\ \A i \in DOMAIN todo : todo[i] \in Asked(call)

\* Only a call that is about to write has read the property before it was set.
ForbiddenInv ==
  /\ forbidden = "no" => late = 0
  /\ pc["binder"] = "write" /\ call.op = Detection /\ todo # <<>> => late = 0
  /\ ForbiddenStaysOff

Missing(w) ==
  /\ ~(\E i \in DOMAIN todo : todo[i] = w)
  /\ ~Set(w)
  /\ w.node \notin refused
  /\ ~(w.node = "ContaminantDetection" /\ forbidden # "no")

\* A node that has been tried has its value or is among the refused ones.
ToldInv ==
  /\ told = "NO_I2C_PATH" \/ \A w \in Asked(call) : ~Missing(w)
  /\ told # "none" => pc["binder"] \notin {"findBus", "busToken", "property", "lock", "write"}
  /\ told \in {"SUCCESS", "ERROR"} => todo = <<>>
  /\ told = "SUCCESS" => refused = {}

\* Only limitPowerTransfer changes what is reported, and it reports by itself.
ReportedInv ==
  \/ call.op = Limit /\ pc["binder"] \in {"write", "query", "dead"} \cup QueryPcs
  \/ \A r \in reported : r.read => r.limited = (node["SinkLimitEnable"] = "1")

Inv ==
  /\ TypeOK /\ LockInv /\ MetInv
  /\ TodoInv /\ ForbiddenInv /\ ToldInv /\ ReportedInv

-----------------------------------------------------------------------------
(* Calls and what they write *)

\* Every call is of one of four kinds.
LEMMA CallKinds ==
  ASSUME NEW c \in Calls \cup ConstructorCalls \cup {NoCall}
  PROVE  /\ c \in Calls \cup {NoCall}
         /\ \/ c.op = Limit /\ c.arg \in {"0", "1"} /\ WritesOf(c) = LimitWrites(c.arg)
            \/ /\ c.op = Detection /\ c.arg \in {"0", "1"}
               /\ WritesOf(c) = <<W("ContaminantDetection", c.arg)>>
            \/ /\ c.op = Security /\ c.arg \in SecurityStates
               /\ WritesOf(c) = SecurityWrites[c.arg]
            \/ c.op \in {"none"} /\ WritesOf(c) = <<>>
<1>1. /\ c \in Calls \cup {NoCall}
      /\ \/ c.op \in {Limit, Detection} /\ c.arg \in {"0", "1"}
         \/ c.op = Security /\ c.arg \in SecurityStates
         \/ c.op \in {"none"}
  BY DEF Calls, ConstructorCalls, NoCall, Call, SecurityStates, Limit, Detection, Security
<1> QED BY <1>1 DEF WritesOf, Limit, Detection, Security

\* The elements of short sequences.
LEMMA Elements2 ==
  ASSUME NEW S, NEW a \in S, NEW b \in S
  PROVE  /\ <<a, b>> \in Seq(S)
         /\ {<<a, b>>[i] : i \in DOMAIN <<a, b>>} = {a, b}
<1>1. DOMAIN <<a, b>> = {1, 2}
  OBVIOUS
<1> QED BY <1>1

LEMMA Elements3 ==
  ASSUME NEW S, NEW a \in S, NEW b \in S, NEW c \in S
  PROVE  /\ <<a, b, c>> \in Seq(S)
         /\ {<<a, b, c>>[i] : i \in DOMAIN <<a, b, c>>} = {a, b, c}
<1>1. DOMAIN <<a, b, c>> = {1, 2, 3}
  OBVIOUS
<1> QED BY <1>1

LEMMA WType ==
  ASSUME NEW n \in Nodes, NEW v \in Values
  PROVE  W(n, v) \in Write1 /\ W(n, v).node = n /\ W(n, v).value = v
BY DEF W, Write1

\* The nodes of a call are its own, and each is written once.
LEMMA CallWrites ==
  ASSUME NEW c \in Calls \cup ConstructorCalls \cup {NoCall}
  PROVE  /\ WritesOf(c) \in Seq(Write1)
         /\ \A w1, w2 \in Asked(c) : w1.node = w2.node => w1 = w2
         /\ \A w \in Asked(c) : w \in Write1
         /\ c.op = Detection => WritesOf(c) = <<W("ContaminantDetection", c.arg)>>
         /\ \A w \in Asked(c) :
              /\ w.node = "SinkLimitEnable" => c.op = Limit
              /\ w.node = "ContaminantDetection" => c.op = Detection
<1>1. CASE c.op = Limit /\ c.arg \in {"0", "1"} /\ WritesOf(c) = LimitWrites(c.arg)
  <2> DEFINE a == W("SinkLimitCurrent", "0")
             b == W("SinkLimitEnable", c.arg)
             d == W("SourceLimitEnable", c.arg)
  <2>1. /\ a \in Write1 /\ a.node = "SinkLimitCurrent"
        /\ b \in Write1 /\ b.node = "SinkLimitEnable"
        /\ d \in Write1 /\ d.node = "SourceLimitEnable"
    BY <1>1, WType DEF Nodes, Values
  <2>2. WritesOf(c) = <<a, b, d>> \/ WritesOf(c) = <<b, d>>
    BY <1>1 DEF LimitWrites
  <2> HIDE DEF a, b, d
  <2>3. WritesOf(c) \in Seq(Write1) /\ Asked(c) \subseteq {a, b, d}
    <3>1. CASE WritesOf(c) = <<a, b, d>>
      <4>1. WritesOf(c) \in Seq(Write1) /\ Asked(c) = {a, b, d}
        BY <2>1, <3>1, Elements3 DEF Asked
      <4> QED BY <4>1
    <3>2. CASE WritesOf(c) = <<b, d>>
      <4>1. WritesOf(c) \in Seq(Write1) /\ Asked(c) = {b, d}
        BY <2>1, <3>2, Elements2 DEF Asked
      <4> QED BY <4>1
    <3> QED BY <2>2, <3>1, <3>2
  <2>4. c.op # Detection
    BY <1>1 DEF Limit, Detection
  <2> QED BY <1>1, <2>1, <2>3, <2>4
<1>2. CASE /\ c.op = Detection /\ c.arg \in {"0", "1"}
           /\ WritesOf(c) = <<W("ContaminantDetection", c.arg)>>
  <2> DEFINE a == W("ContaminantDetection", c.arg)
  <2>1. a \in Write1 /\ a.node = "ContaminantDetection"
    BY <1>2, WType DEF Nodes, Values
  <2>2. WritesOf(c) = <<a>>
    BY <1>2
  <2> HIDE DEF a
  <2>3. WritesOf(c) \in Seq(Write1) /\ Asked(c) = {a}
    BY <2>1, <2>2 DEF Asked
  <2> QED BY <1>2, <2>1, <2>3
<1>3. CASE /\ c.op = Security /\ c.arg \in SecurityStates
           /\ WritesOf(c) = SecurityWrites[c.arg]
  <2>1. PICK v1 \in Values, v2 \in Values :
          \/ WritesOf(c) = <<W("CcToggleEnable", v1), W("DataPathEnable", v2)>>
          \/ WritesOf(c) = <<W("DataPathEnable", v1), W("CcToggleEnable", v2)>>
    BY <1>3 DEF SecurityWrites, SecurityStates, Values
  <2>2. \A n \in {"CcToggleEnable", "DataPathEnable"}, v \in Values :
          W(n, v) \in Write1 /\ W(n, v).node = n
    BY WType DEF Nodes
  <2>3. PICK a \in Write1, b \in Write1 :
          /\ WritesOf(c) = <<a, b>>
          /\ {a.node, b.node} = {"CcToggleEnable", "DataPathEnable"}
    BY <2>1, <2>2
  <2>4. WritesOf(c) \in Seq(Write1) /\ Asked(c) = {a, b}
    BY <2>3, Elements2 DEF Asked
  <2>5. c.op # Detection
    BY <1>3 DEF Security, Detection
  <2> QED BY <2>3, <2>4, <2>5
<1>4. CASE c.op \in {"none"} /\ WritesOf(c) = <<>>
  <2>1. Asked(c) = {} /\ c.op # Detection
    BY <1>4 DEF Asked, Detection
  <2> QED BY <1>4, <2>1
<1> QED BY CallKinds, <1>1, <1>2, <1>3, <1>4

-----------------------------------------------------------------------------
(* Types *)

LEMMA PcTypes ==
  /\ \A p \in FindPcs : TokenPc[p] \in TokenPcs
  /\ \A p \in FindPcs \cup TokenPcs : AfterLookup(p) \in {"lock", "write", "assign", "report"}
  /\ FindPcs \subseteq Pcs /\ TokenPcs \subseteq Pcs
BY DEF TokenPc, FindPcs, TokenPcs, AfterLookup, AfterBus, Pcs, CallPcs, QueryPcs

\* Whom a call of strtok meets.
LEMMA MeetIs ==
  ASSUME TypeOK, NEW t \in Threads, NEW fresh \in BOOLEAN, Meet(t, fresh)
  PROVE  /\ met' \in [Threads -> BOOLEAN]
         /\ \A u \in Threads \ {t} :
              IF InLookup(u) /\ (WithoutLock(t) \/ WithoutLock(u))
              THEN met'[u] /\ (fresh => met'[t])
              ELSE met'[u] = met[u]
         /\ ~fresh => met'[t] = met[t]
<1> DEFINE others == {u \in Threads \ {t} : InLookup(u) /\ (WithoutLock(t) \/ WithoutLock(u))}
           M(u) == CASE u \in others -> TRUE
                     [] u = t /\ fresh -> others # {}
                     [] OTHER -> met[u]
<1>1. met' = [u \in Threads |-> M(u)]
  BY DEF Meet, TypeOK
<1>2. t \notin others
  OBVIOUS
<1>3. \A u \in others : M(u) = TRUE
  OBVIOUS
<1>4. fresh => M(t) = (others # {})
  BY <1>2
<1>5. \A u \in Threads \ others : ~(u = t /\ fresh) => M(u) = met[u]
  OBVIOUS
<1> HIDE DEF M
<1>6. \A u \in Threads : M(u) \in BOOLEAN
  BY <1>3, <1>4, <1>5 DEF TypeOK
<1>7. met' \in [Threads -> BOOLEAN]
  BY <1>1, <1>6
<1>8. ASSUME NEW u \in Threads \ {t}
      PROVE  IF u \in others THEN met'[u] /\ (fresh => met'[t]) ELSE met'[u] = met[u]
  BY <1>1, <1>3, <1>4, <1>5
<1>9. ~fresh => met'[t] = met[t]
  BY <1>1, <1>2, <1>5
<1> QED BY <1>7, <1>8, <1>9

\* What has met another stays so, and both of two that meet have.
LEMMA MeetKeeps ==
  ASSUME TypeOK, NEW t \in Threads, NEW fresh \in BOOLEAN, Meet(t, fresh),
         NEW u \in Threads \ {t}
  PROVE  /\ met[u] => met'[u]
         /\ InLookup(u) /\ (WithoutLock(t) \/ WithoutLock(u)) =>
              met'[u] /\ (fresh => met'[t])
<1>1. IF InLookup(u) /\ (WithoutLock(t) \/ WithoutLock(u))
      THEN met'[u] /\ (fresh => met'[t])
      ELSE met'[u] = met[u]
  BY MeetIs
<1> QED BY ONLY <1>1

\* Types are correct when the process starts.
LEMMA StartType ==
  ASSUME NEW c \in ConstructorCalls \cup {NoCall}
  PROVE  /\ c \in Calls \cup {NoCall}
         /\ WritesOf(c) \in Seq(Write1)
         /\ [t \in Threads |-> IF t = "binder" /\ c # NoCall THEN "findBus" ELSE "idle"]
              \in [Threads -> Pcs]
<1>1. c \in Calls \cup {NoCall} /\ WritesOf(c) \in Seq(Write1)
  BY CallKinds, CallWrites
<1> QED BY <1>1 DEF Threads, Pcs, CallPcs

LEMMA SeqParts ==
  ASSUME NEW S, NEW s \in Seq(S), s # <<>>
  PROVE  /\ Head(s) \in S /\ Tail(s) \in Seq(S)
         /\ {s[i] : i \in DOMAIN s} = {Head(s)} \cup {Tail(s)[i] : i \in DOMAIN Tail(s)}
<1>1. Head(s) \in S /\ Tail(s) \in Seq(S) /\ Head(s) = s[1]
  OBVIOUS
<1>2. /\ DOMAIN s = 1..Len(s) /\ Len(s) \in Nat \ {0}
      /\ DOMAIN Tail(s) = 1..(Len(s) - 1)
      /\ \A i \in 1..(Len(s) - 1) : Tail(s)[i] = s[i + 1]
  OBVIOUS
<1>3. ASSUME NEW i \in DOMAIN s
      PROVE  s[i] \in {Head(s)} \cup {Tail(s)[j] : j \in DOMAIN Tail(s)}
  <2>1. CASE i = 1
    BY <1>1, <2>1
  <2>2. CASE i # 1
    <3>1. i - 1 \in DOMAIN Tail(s) /\ Tail(s)[i - 1] = s[i]
      BY <1>2, <2>2
    <3> QED BY <3>1
  <2> QED BY <2>1, <2>2
<1>4. ASSUME NEW j \in DOMAIN Tail(s)
      PROVE  Tail(s)[j] \in {s[i] : i \in DOMAIN s}
  <2>1. j + 1 \in DOMAIN s /\ Tail(s)[j] = s[j + 1]
    BY <1>2
  <2> QED BY <2>1
<1>5. Head(s) \in {s[i] : i \in DOMAIN s}
  BY <1>1, <1>2
<1> QED BY <1>1, <1>3, <1>4, <1>5

\* What a write leaves to be written.
LEMMA WriteTypes ==
  ASSUME TypeOK, Write
  PROVE  /\ Head(todo) \in Write1 /\ todo' = Tail(todo) /\ todo' \in Seq(Write1)
         /\ {todo[i] : i \in DOMAIN todo} = {Head(todo)} \cup {todo'[i] : i \in DOMAIN todo'}
<1>1. todo \in Seq(Write1) /\ todo # <<>> /\ todo' = Tail(todo)
  BY DEF TypeOK, Write, NextWrites, Write1
<1>2. /\ Head(todo) \in Write1 /\ Tail(todo) \in Seq(Write1)
      /\ {todo[i] : i \in DOMAIN todo}
           = {Head(todo)} \cup {Tail(todo)[i] : i \in DOMAIN Tail(todo)}
  BY <1>1, SeqParts, Zenon
<1> QED BY <1>1, <1>2

LEMMA MetTypes ==
  ASSUME TypeOK
  PROVE  \A t \in Threads : FirstToken(t) \/ PortNames(t) => met' \in [Threads -> BOOLEAN]
BY MeetIs DEF FirstToken, PortNames

\* Every step keeps the types.
LEMMA TypeStep ==
  ASSUME TypeOK, [Next]_vars
  PROVE  TypeOK'
<1> USE MaxCallsAssumption
    DEF TypeOK, Threads, Pcs, CallPcs, QueryPcs, Nodes, Values, Write1,
        lockVars, callVars, kernelVars
<1>1. ASSUME NEW t \in Threads, FindFails(t)
      PROVE  TypeOK'
  BY <1>1, PcTypes DEF FindFails, Forget, LookupUnchanged, Goto
<1>2. ASSUME NEW t \in Threads, FirstToken(t)
      PROVE  TypeOK'
  <2>1. met' \in [Threads -> BOOLEAN]
    BY <1>2, MetTypes
  <2>2. pc' \in [Threads -> Pcs] /\ path' \in [Threads -> {"none", "bus", "wrong"}]
    BY <1>2, PcTypes DEF FirstToken, Goto
  <2> QED BY <1>2, <2>1, <2>2 DEF FirstToken, LookupUnchanged
<1>3. ASSUME NEW t \in Threads, SecondToken(t)
      PROVE  TypeOK'
  BY <1>3, PcTypes DEF SecondToken, LookupUnchanged, Goto, InLookup
<1>4. ASSUME NEW t \in Threads, BeginQuery(t)
      PROVE  TypeOK'
  BY <1>4 DEF BeginQuery, LockForQuery, QueryUnchanged, Goto
<1>5. ASSUME NEW t \in Threads, PortNames(t)
      PROVE  TypeOK'
  <2>1. met' \in [Threads -> BOOLEAN]
    BY <1>5, MetTypes
  <2>2. pc' \in [Threads -> Pcs]
    BY <1>5 DEF PortNames, Goto
  <2> QED BY <1>5, <2>1, <2>2 DEF PortNames, QueryUnchanged
<1>6. ASSUME NEW t \in Threads, CloseNames(t)
      PROVE  TypeOK'
  BY <1>6 DEF CloseNames, QueryUnchanged, Goto
<1>7. ASSUME NEW t \in Threads, Assign(t)
      PROVE  TypeOK'
  BY <1>7 DEF Assign, QueryUnchanged, Goto
<1>8. ASSUME NEW t \in Threads, Report(t)
      PROVE  TypeOK'
  <2> DEFINE b == node["SinkLimitEnable"] = "1"
  <2>1. b \in BOOLEAN
    OBVIOUS
  <2>2. \/ reported' = {[limited |-> b, read |-> TRUE]}
        \/ reported' = {[limited |-> FALSE, read |-> FALSE]}
    BY <1>8, Zenon DEF Report
  <2> HIDE DEF b
  <2> DEFINE limits == [limited : BOOLEAN, read : BOOLEAN]
             wasRead == [limited |-> b, read |-> TRUE]
             notRead == [limited |-> FALSE, read |-> FALSE]
  <2>3. wasRead \in limits /\ notRead \in limits
    BY <2>1
  <2>4. reported' \in SUBSET limits
    <3>1. reported' = {wasRead} \/ reported' = {notRead}
      BY <2>2
    <3> HIDE DEF limits, wasRead, notRead
    <3> QED BY ONLY <2>3, <3>1
  <2>5. pc' \in [Threads -> Pcs]
    BY <1>8 DEF Report, Goto
  <2>6. path' \in [Threads -> {"none", "bus", "wrong"}]
    BY <1>8 DEF Report, Forget
  <2>7. met' \in [Threads -> BOOLEAN]
    BY <1>8 DEF Report, Forget
  <2>8. /\ mLock' = Free /\ last' = last /\ enabledPath' = enabledPath
        /\ QueryUnchanged
    BY <1>8 DEF Report
  <2> QED BY <2>4, <2>5, <2>6, <2>7, <2>8 DEF QueryUnchanged
<1>9. CASE Uevent
  BY <1>9 DEF Uevent, QueryUnchanged, Goto
<1>10. CASE Receive
  BY <1>10, CallWrites DEF Receive, FirstOf, Goto
<1>11. CASE NoPath
  BY <1>11 DEF NoPath, Forget, CallUnchanged, Goto
<1>12. CASE LockForLimit
  BY <1>12 DEF LockForLimit, CallUnchanged, Goto
<1>13. CASE ReadProperty
  BY <1>13 DEF ReadProperty, UnlessForbidden, CallUnchanged, Goto
<1>14. CASE Write
  <2>1. Head(todo).node \in Nodes /\ Head(todo).value \in Values
    BY <1>14, WriteTypes DEF Write1
  <2>2. node' \in [Nodes -> Values]
    <3>1. node' = node \/ node' = [node EXCEPT ![Head(todo).node] = Head(todo).value]
      BY ONLY <1>14, Zenon DEF Write
    <3> QED BY <2>1, <3>1
  <2>5. refused' \in SUBSET Nodes
    <3>1. refused' = refused \/ refused' = refused \cup {Head(todo).node}
      BY ONLY <1>14, Zenon DEF Write
    <3> QED BY <2>1, <3>1
  <2>3. late' \in Nat
    BY <1>14 DEF Write
  <2>4. todo' \in Seq([node : Nodes, value : Values])
    BY <1>14, WriteTypes DEF Write1
  <2> QED BY <1>14, <2>2, <2>3, <2>4, <2>5 DEF Write, CallUnchanged, Goto
<1>15. CASE Notify
  BY <1>15 DEF Notify, Result, QueryAfter, Forget, CallUnchanged, Goto
<1>16. CASE Return
  BY <1>16 DEF Return, Result, Forget, CallUnchanged, Goto
<1>17. CASE Forbid
  BY <1>17 DEF Forbid
<1>18. CASE Restart
  BY <1>18, StartType DEF Restart
<1>19. CASE UNCHANGED vars
  BY <1>19 DEF vars
<1> QED
  BY <1>1, <1>2, <1>3, <1>4, <1>5, <1>6, <1>7, <1>8, <1>9, <1>10, <1>11,
     <1>12, <1>13, <1>14, <1>15, <1>16, <1>17, <1>18, <1>19
  DEF Next, Lookup, Query

\* Types are correct at the start.
LEMMA TypeInit == Init => TypeOK
<1> SUFFICES ASSUME Init
             PROVE  TypeOK
  OBVIOUS
<1>1. PICK c \in ConstructorCalls \cup {NoCall} : Start(c)
  BY DEF Init
<1>2. node \in [Nodes -> Values]
  BY DEF Init, Nodes, Values
<1>3. todo \in Seq([node : Nodes, value : Values]) /\ call \in Calls \cup {NoCall}
  BY <1>1, StartType DEF Start, Write1
<1>4. pc \in [Threads -> Pcs]
  BY <1>1, StartType DEF Start
<1> QED
  BY <1>1, <1>2, <1>3, <1>4, MaxCallsAssumption DEF Init, Start, TypeOK, Threads

\* Every variable keeps its type, whatever the calls, the uevents and the
\* failures are.
THEOREM TypeCorrect == Spec => []TypeOK
BY TypeInit, TypeStep, PTL DEF Spec

-----------------------------------------------------------------------------
(* Locks *)

\* Every step keeps who holds mLock where.
LEMMA LockStep ==
  ASSUME TypeOK, LockInv, [Next]_vars
  PROVE  LockInv'
<1> USE DEF TypeOK, LockInv, Threads, FindPcs, TokenPcs, QueryPcs, CallPcs, Pcs, Limit,
           Detection, Security, Free, lockVars, callVars
<1>1. ASSUME NEW t \in Threads, FindFails(t)
      PROVE  LockInv'
  BY <1>1 DEF FindFails, Forget, LookupUnchanged, Goto, AfterLookup, AfterBus
<1>2. ASSUME NEW t \in Threads, FirstToken(t)
      PROVE  LockInv'
  <2>1. /\ pc[t] \in FindPcs /\ pc' = [pc EXCEPT ![t] = TokenPc[pc[t]]]
        /\ mLock' = mLock /\ call' = call
    BY <1>2 DEF FirstToken, LookupUnchanged, Goto
  <2>2. /\ pc[t] = "findBus" => TokenPc[pc[t]] = "busToken"
        /\ pc[t] = "findMoisture" => TokenPc[pc[t]] = "moistureToken"
        /\ pc[t] = "findPower" => TokenPc[pc[t]] = "powerToken"
    BY DEF TokenPc
  <2> QED BY <2>1, <2>2
<1>3. ASSUME NEW t \in Threads, SecondToken(t)
      PROVE  LockInv'
  BY <1>3
     DEF SecondToken, LookupUnchanged, Goto, InLookup, AfterLookup, AfterBus
<1>4. ASSUME NEW t \in Threads, BeginQuery(t)
      PROVE  LockInv'
  BY <1>4 DEF BeginQuery, LockForQuery, QueryUnchanged, Goto
<1>5. ASSUME NEW t \in Threads, PortNames(t)
      PROVE  LockInv'
  BY <1>5 DEF PortNames, QueryUnchanged, Goto
<1>6. ASSUME NEW t \in Threads, CloseNames(t)
      PROVE  LockInv'
  BY <1>6 DEF CloseNames, QueryUnchanged, Goto
<1>7. ASSUME NEW t \in Threads, Assign(t)
      PROVE  LockInv'
  BY <1>7 DEF Assign, QueryUnchanged, Goto
<1>8. ASSUME NEW t \in Threads, Report(t)
      PROVE  LockInv'
  BY <1>8 DEF Report, Forget, QueryUnchanged, Goto
<1>9. CASE Uevent
  BY <1>9 DEF Uevent, QueryUnchanged, Goto
<1>10. CASE Receive
  <2>1. call'.op \in {Limit, Detection, Security}
    BY <1>10 DEF Receive, Calls, Call
  <2> QED BY <1>10, <2>1 DEF Receive, FirstOf, Goto
<1>11. CASE NoPath
  BY <1>11 DEF NoPath, Forget, CallUnchanged, Goto
<1>12. CASE LockForLimit
  BY <1>12 DEF LockForLimit, CallUnchanged, Goto
<1>13. CASE ReadProperty
  BY <1>13 DEF ReadProperty, UnlessForbidden, CallUnchanged, Goto
<1>14. CASE Write
  BY <1>14 DEF Write, NextWrites, CallUnchanged, Goto
<1>15. CASE Notify
  BY <1>15 DEF Notify, Result, QueryAfter, Forget, CallUnchanged, Goto
<1>16. CASE Return
  BY <1>16 DEF Return, Result, Forget, CallUnchanged, Goto
<1>17. CASE Forbid
  BY <1>17 DEF Forbid
<1>18. CASE Restart
  BY <1>18 DEF Restart, ConstructorCalls, Call, NoCall
<1>19. CASE UNCHANGED vars
  BY <1>19 DEF vars
<1> QED
  BY <1>1, <1>2, <1>3, <1>4, <1>5, <1>6, <1>7, <1>8, <1>9, <1>10, <1>11,
     <1>12, <1>13, <1>14, <1>15, <1>16, <1>17, <1>18, <1>19
  DEF Next, Lookup, Query

-----------------------------------------------------------------------------
(* Lookups *)

\* Every step keeps lookups that met no other to themselves.
LEMMA MetStep ==
  ASSUME TypeOK, LockInv, MetInv, [Next]_vars
  PROVE  MetInv'
<1> USE DEF TypeOK, LockInv, MetInv, LookupWrongOnlyIfMet, InLookup, WithoutLock, Threads,
           FindPcs, TokenPcs, QueryPcs, lockVars, callVars
<1>1. ASSUME NEW t \in Threads, FindFails(t)
      PROVE  MetInv'
  BY <1>1 DEF FindFails, Forget, LookupUnchanged, Goto, AfterLookup, AfterBus
<1>2. ASSUME NEW t \in Threads, FirstToken(t)
      PROVE  MetInv'
  <2>1. /\ pc[t] \in FindPcs /\ Goto(t, pc[t], TokenPc[pc[t]]) /\ TokenPc[pc[t]] \in TokenPcs
        /\ last' = "bus" /\ path' = [path EXCEPT ![t] = "none"] /\ Meet(t, TRUE)
    BY <1>2, PcTypes DEF FirstToken
  <2>2. ASSUME NEW u \in Threads \ {t}, InLookup(u)
        PROVE  met'[u] /\ met'[t]
    <3>1. WithoutLock(t) \/ WithoutLock(u)
      BY <2>1, <2>2
    <3> QED BY <2>1, <2>2, <3>1, MeetKeeps, Zenon
  <2>3. \A u \in Threads \ {t} : pc'[u] = pc[u] /\ path'[u] = path[u] /\ (met[u] => met'[u])
    <3>1. \A u \in Threads \ {t} : met[u] => met'[u]
      BY <2>1, MeetKeeps, Zenon
    <3> QED BY <2>1, <3>1 DEF Goto
  <2>4. path'[t] = "none" /\ pc'[t] \in TokenPcs
    BY <2>1 DEF Goto
  <2> QED BY <2>1, <2>2, <2>3, <2>4
<1>3. ASSUME NEW t \in Threads, SecondToken(t)
      PROVE  MetInv'
  BY <1>3 DEF SecondToken, LookupUnchanged, Goto, InLookup, AfterLookup, AfterBus
<1>4. ASSUME NEW t \in Threads, BeginQuery(t)
      PROVE  MetInv'
  BY <1>4 DEF BeginQuery, LockForQuery, QueryUnchanged, Goto
<1>5. ASSUME NEW t \in Threads, PortNames(t)
      PROVE  MetInv'
  <2>1. /\ pc[t] = "names" /\ pc' = [pc EXCEPT ![t] = "closeNames"]
        /\ path' = path /\ Meet(t, FALSE)
    BY <1>5 DEF PortNames, Goto
  <2>2. ASSUME NEW u \in Threads \ {t}, InLookup(u)
        PROVE  WithoutLock(u)
    BY <2>1, <2>2
  <2>3. ASSUME NEW u \in Threads \ {t}, InLookup(u)
        PROVE  met'[u]
    BY <2>1, <2>2, <2>3, MeetKeeps, Zenon
  <2>4. \A u \in Threads \ {t} : met[u] => met'[u]
    BY <2>1, MeetKeeps, Zenon
  <2>5. met'[t] = met[t]
    BY <2>1, MeetIs, Zenon
  <2>6. /\ pc'[t] = "closeNames"
        /\ \A u \in Threads \ {t} : pc'[u] = pc[u]
    BY <2>1
  <2> QED BY <2>1, <2>3, <2>4, <2>5, <2>6
<1>6. ASSUME NEW t \in Threads, CloseNames(t)
      PROVE  MetInv'
  BY <1>6 DEF CloseNames, QueryUnchanged, Goto
<1>7. ASSUME NEW t \in Threads, Assign(t)
      PROVE  MetInv'
  BY <1>7 DEF Assign, QueryUnchanged, Goto
<1>8. ASSUME NEW t \in Threads, Report(t)
      PROVE  MetInv'
  BY <1>8 DEF Report, Forget, QueryUnchanged, Goto
<1>9. CASE Uevent
  BY <1>9 DEF Uevent, QueryUnchanged, Goto
<1>10. CASE Receive
  BY <1>10 DEF Receive, FirstOf, Goto
<1>11. CASE NoPath
  BY <1>11 DEF NoPath, Forget, CallUnchanged, Goto
<1>12. CASE LockForLimit
  BY <1>12 DEF LockForLimit, CallUnchanged, Goto
<1>13. CASE ReadProperty
  BY <1>13 DEF ReadProperty, UnlessForbidden, CallUnchanged, Goto
<1>14. CASE Write
  BY <1>14 DEF Write, NextWrites, CallUnchanged, Goto
<1>15. CASE Notify
  BY <1>15 DEF Notify, Result, QueryAfter, Forget, CallUnchanged, Goto
<1>16. CASE Return
  BY <1>16 DEF Return, Result, Forget, CallUnchanged, Goto
<1>17. CASE Forbid
  BY <1>17 DEF Forbid
<1>18. CASE Restart
  BY <1>18 DEF Restart
<1>19. CASE UNCHANGED vars
  BY <1>19 DEF vars
<1> QED
  BY <1>1, <1>2, <1>3, <1>4, <1>5, <1>6, <1>7, <1>8, <1>9, <1>10, <1>11,
     <1>12, <1>13, <1>14, <1>15, <1>16, <1>17, <1>18, <1>19
  DEF Next, Lookup, Query

-----------------------------------------------------------------------------
(* What is left to write *)

LEMMA FreshTodo ==
  ASSUME NEW c \in Calls \cup ConstructorCalls \cup {NoCall}
  PROVE  /\ c.op = Detection => WritesOf(c) = <<W("ContaminantDetection", c.arg)>>
         /\ \A i \in DOMAIN WritesOf(c) : WritesOf(c)[i] \in Asked(c)
BY CallWrites DEF Asked

\* Every step keeps what is left to write the call's.
LEMMA TodoStep ==
  ASSUME TypeOK, LockInv, TodoInv, [Next]_vars
  PROVE  TodoInv'
<1> USE DEF TypeOK, LockInv, TodoInv, callVars
<1>1. ASSUME NEW t \in Threads, FindFails(t)
      PROVE  TodoInv'
  BY <1>1 DEF FindFails, Forget, LookupUnchanged, Goto
<1>2. ASSUME NEW t \in Threads, FirstToken(t)
      PROVE  TodoInv'
  BY <1>2 DEF FirstToken, LookupUnchanged, Goto
<1>3. ASSUME NEW t \in Threads, SecondToken(t)
      PROVE  TodoInv'
  BY <1>3 DEF SecondToken, LookupUnchanged, Goto, InLookup
<1>4. ASSUME NEW t \in Threads, BeginQuery(t)
      PROVE  TodoInv'
  BY <1>4 DEF BeginQuery, LockForQuery, QueryUnchanged, Goto
<1>5. ASSUME NEW t \in Threads, PortNames(t)
      PROVE  TodoInv'
  BY <1>5 DEF PortNames, QueryUnchanged, Goto
<1>6. ASSUME NEW t \in Threads, CloseNames(t)
      PROVE  TodoInv'
  BY <1>6 DEF CloseNames, QueryUnchanged, Goto
<1>7. ASSUME NEW t \in Threads, Assign(t)
      PROVE  TodoInv'
  BY <1>7 DEF Assign, QueryUnchanged, Goto
<1>8. ASSUME NEW t \in Threads, Report(t)
      PROVE  TodoInv'
  BY <1>8 DEF Report, Forget, QueryUnchanged, Goto
<1>9. CASE Uevent
  BY <1>9 DEF Uevent, QueryUnchanged, Goto
<1>10. CASE Receive
  BY <1>10, FreshTodo DEF Receive
<1>11. CASE NoPath
  BY <1>11 DEF NoPath, Forget, CallUnchanged, Goto
<1>12. CASE LockForLimit
  BY <1>12 DEF LockForLimit, CallUnchanged, Goto
<1>13. CASE ReadProperty
  BY <1>13 DEF ReadProperty, UnlessForbidden, CallUnchanged, Goto
<1>14. CASE Write
  <2>1. call' = call /\ todo # <<>> /\ todo' = Tail(todo)
    BY <1>14 DEF Write, NextWrites, CallUnchanged
  <2>2. call.op = Detection => todo' = <<>>
    BY <2>1
  <2>3. ASSUME NEW i \in DOMAIN todo'
        PROVE  todo'[i] \in Asked(call)
    <3>1. todo'[i] \in {todo[k] : k \in DOMAIN todo}
      BY <1>14, WriteTypes, Zenon
    <3> QED BY <3>1
  <2> QED BY <2>1, <2>2, <2>3
<1>15. CASE Notify
  BY <1>15 DEF Notify, Result, QueryAfter, Forget, CallUnchanged, Goto
<1>16. CASE Return
  BY <1>16 DEF Return, Result, Forget, CallUnchanged, Goto
<1>17. CASE Forbid
  BY <1>17 DEF Forbid
<1>18. CASE Restart
  BY <1>18, FreshTodo DEF Restart
<1>19. CASE UNCHANGED vars
  BY <1>19 DEF vars
<1> QED
  BY <1>1, <1>2, <1>3, <1>4, <1>5, <1>6, <1>7, <1>8, <1>9, <1>10, <1>11,
     <1>12, <1>13, <1>14, <1>15, <1>16, <1>17, <1>18, <1>19
  DEF Next, Lookup, Query

-----------------------------------------------------------------------------
(* Contaminant detection that is forbidden *)

\* Every step keeps writes of the detection node to one once it is forbidden.
LEMMA ForbiddenStep ==
  ASSUME TypeOK, LockInv, TodoInv, ForbiddenInv, [Next]_vars
  PROVE  ForbiddenInv'
<1> USE DEF TypeOK, LockInv, TodoInv, ForbiddenInv, ForbiddenStaysOff, Threads, FindPcs,
           TokenPcs, QueryPcs, CallPcs, Limit, Detection, Security, callVars, kernelVars
<1>1. ASSUME NEW t \in Threads, FindFails(t)
      PROVE  ForbiddenInv'
  BY <1>1 DEF FindFails, Forget, LookupUnchanged, Goto, AfterLookup, AfterBus
<1>2. ASSUME NEW t \in Threads, FirstToken(t)
      PROVE  ForbiddenInv'
  BY <1>2 DEF FirstToken, LookupUnchanged, Goto, TokenPc
<1>3. ASSUME NEW t \in Threads, SecondToken(t)
      PROVE  ForbiddenInv'
  BY <1>3
     DEF SecondToken, LookupUnchanged, Goto, InLookup, AfterLookup, AfterBus
<1>4. ASSUME NEW t \in Threads, BeginQuery(t)
      PROVE  ForbiddenInv'
  BY <1>4 DEF BeginQuery, LockForQuery, QueryUnchanged, Goto
<1>5. ASSUME NEW t \in Threads, PortNames(t)
      PROVE  ForbiddenInv'
  BY <1>5 DEF PortNames, QueryUnchanged, Goto
<1>6. ASSUME NEW t \in Threads, CloseNames(t)
      PROVE  ForbiddenInv'
  BY <1>6 DEF CloseNames, QueryUnchanged, Goto
<1>7. ASSUME NEW t \in Threads, Assign(t)
      PROVE  ForbiddenInv'
  BY <1>7 DEF Assign, QueryUnchanged, Goto
<1>8. ASSUME NEW t \in Threads, Report(t)
      PROVE  ForbiddenInv'
  BY <1>8 DEF Report, Forget, QueryUnchanged, Goto
<1>9. CASE Uevent
  BY <1>9 DEF Uevent, QueryUnchanged, Goto
<1>10. CASE Receive
  BY <1>10 DEF Receive, FirstOf, Goto
<1>11. CASE NoPath
  BY <1>11 DEF NoPath, Forget, CallUnchanged, Goto
<1>12. CASE LockForLimit
  BY <1>12 DEF LockForLimit, CallUnchanged, Goto
<1>13. CASE ReadProperty
  <2>1. /\ call' = call /\ forbidden' = forbidden /\ late' = late /\ node' = node
        /\ forbidden # "no" => todo' = <<>>
    BY <1>13 DEF ReadProperty, UnlessForbidden, CallUnchanged
  <2> QED BY <2>1
<1>14. CASE Write
  <2>1. call' = call /\ forbidden' = forbidden /\ todo' = Tail(todo) /\ todo # <<>>
    BY <1>14 DEF Write, NextWrites, CallUnchanged
  <2>2. /\ Head(todo) \in Write1 /\ Head(todo) \in Asked(call)
        /\ Head(todo).node = "ContaminantDetection" => call.op = Detection
    <3>1. Head(todo) \in Asked(call)
      BY <2>1
    <3> QED BY <3>1, CallWrites, Zenon
  <2>3. call.op = Detection => todo' = <<>> /\ late = 0
    BY <1>14, <2>1 DEF Write, Goto
  <2>4. \/ node' = [node EXCEPT ![Head(todo).node] = Head(todo).value]
           /\ late' = IF Head(todo).node = "ContaminantDetection" /\ forbidden # "no"
                      THEN late + 1 ELSE late
        \/ node' = node /\ late' = late
    BY <1>14 DEF Write
  <2>5. CASE call.op = Detection
    BY <2>1, <2>2, <2>3, <2>4, <2>5 DEF Nodes
  <2>6. CASE call.op # Detection
    <3>1. late' = late /\ node'["ContaminantDetection"] = node["ContaminantDetection"]
      BY <2>2, <2>4, <2>6 DEF Nodes
    <3> QED BY <2>1, <2>6, <3>1
  <2> QED BY <2>5, <2>6
<1>15. CASE Notify
  BY <1>15 DEF Notify, Result, QueryAfter, Forget, CallUnchanged, Goto
<1>16. CASE Return
  BY <1>16 DEF Return, Result, Forget, CallUnchanged, Goto
<1>17. CASE Forbid
  BY <1>17 DEF Forbid, Nodes
<1>18. CASE Restart
  BY <1>18 DEF Restart
<1>19. CASE UNCHANGED vars
  BY <1>19 DEF vars
<1> QED
  BY <1>1, <1>2, <1>3, <1>4, <1>5, <1>6, <1>7, <1>8, <1>9, <1>10, <1>11,
     <1>12, <1>13, <1>14, <1>15, <1>16, <1>17, <1>18, <1>19
  DEF Next, Lookup, Query

-----------------------------------------------------------------------------
(* The limit that is reported *)

\* Every step keeps the last status the node's, but within limitPowerTransfer.
LEMMA ReportedStep ==
  ASSUME TypeOK, LockInv, TodoInv, ReportedInv, [Next]_vars
  PROVE  ReportedInv'
<1> USE DEF TypeOK, LockInv, TodoInv, ReportedInv, Threads, FindPcs, TokenPcs, QueryPcs,
           CallPcs, Limit, Detection, Security, callVars, kernelVars
<1>1. ASSUME NEW t \in Threads, FindFails(t)
      PROVE  ReportedInv'
  BY <1>1 DEF FindFails, Forget, LookupUnchanged, Goto, AfterLookup, AfterBus
<1>2. ASSUME NEW t \in Threads, FirstToken(t)
      PROVE  ReportedInv'
  BY <1>2 DEF FirstToken, LookupUnchanged, Goto, TokenPc
<1>3. ASSUME NEW t \in Threads, SecondToken(t)
      PROVE  ReportedInv'
  BY <1>3
     DEF SecondToken, LookupUnchanged, Goto, InLookup, AfterLookup, AfterBus
<1>4. ASSUME NEW t \in Threads, BeginQuery(t)
      PROVE  ReportedInv'
  BY <1>4 DEF BeginQuery, LockForQuery, QueryUnchanged, Goto
<1>5. ASSUME NEW t \in Threads, PortNames(t)
      PROVE  ReportedInv'
  BY <1>5 DEF PortNames, QueryUnchanged, Goto
<1>6. ASSUME NEW t \in Threads, CloseNames(t)
      PROVE  ReportedInv'
  BY <1>6 DEF CloseNames, QueryUnchanged, Goto
<1>7. ASSUME NEW t \in Threads, Assign(t)
      PROVE  ReportedInv'
  BY <1>7 DEF Assign, QueryUnchanged, Goto
<1>8. ASSUME NEW t \in Threads, Report(t)
      PROVE  ReportedInv'
  BY <1>8 DEF Report, Forget, QueryUnchanged, Goto
<1>9. CASE Uevent
  BY <1>9 DEF Uevent, QueryUnchanged, Goto
<1>10. CASE Receive
  BY <1>10 DEF Receive, FirstOf, Goto
<1>11. CASE NoPath
  BY <1>11 DEF NoPath, Forget, CallUnchanged, Goto
<1>12. CASE LockForLimit
  BY <1>12 DEF LockForLimit, CallUnchanged, Goto
<1>13. CASE ReadProperty
  BY <1>13 DEF ReadProperty, UnlessForbidden, CallUnchanged, Goto
<1>14. CASE Write
  <2>1. /\ call' = call /\ reported' = reported /\ todo # <<>>
        /\ pc["binder"] = "write" /\ pc' = pc
    BY <1>14 DEF Write, CallUnchanged, Goto
  <2>2. Head(todo).node = "SinkLimitEnable" => call.op = Limit
    <3>1. Head(todo) \in Asked(call)
      BY <2>1
    <3> QED BY <3>1, CallWrites, Zenon
  <2>3. CASE call.op = Limit
    BY <2>1, <2>3
  <2>4. CASE call.op # Limit
    <3>1. node'["SinkLimitEnable"] = node["SinkLimitEnable"]
      BY <1>14, <2>2, <2>4 DEF Write, Nodes
    <3> QED BY <2>1, <2>4, <3>1
  <2> QED BY <2>3, <2>4
<1>15. CASE Notify
  BY <1>15 DEF Notify, Result, QueryAfter, Forget, CallUnchanged, Goto
<1>16. CASE Return
  BY <1>16 DEF Return, Result, Forget, CallUnchanged, Goto
<1>17. CASE Forbid
  BY <1>17 DEF Forbid, Nodes
<1>18. CASE Restart
  BY <1>18 DEF Restart
<1>19. CASE UNCHANGED vars
  BY <1>19 DEF vars
<1> QED
  BY <1>1, <1>2, <1>3, <1>4, <1>5, <1>6, <1>7, <1>8, <1>9, <1>10, <1>11,
     <1>12, <1>13, <1>14, <1>15, <1>16, <1>17, <1>18, <1>19
  DEF Next, Lookup, Query

-----------------------------------------------------------------------------
(* What a caller is told *)

\* A call that has written nothing has everything left to write.
LEMMA NothingMissing ==
  ASSUME NEW w \in Asked(call), todo = WritesOf(call)
  PROVE  ~Missing(w)
BY DEF Asked, Missing

\* Every step keeps what a caller is told true.
LEMMA ToldStep ==
  ASSUME TypeOK, LockInv, TodoInv, ToldInv, [Next]_vars
  PROVE  ToldInv'
<1> USE DEF TypeOK, LockInv, TodoInv, ToldInv, Threads, FindPcs, TokenPcs, QueryPcs, callVars,
           kernelVars
<1>1. ASSUME NEW t \in Threads, FindFails(t)
      PROVE  ToldInv'
  BY <1>1
     DEF FindFails, Forget, LookupUnchanged, Goto, AfterLookup, AfterBus, Missing, Set
<1>2. ASSUME NEW t \in Threads, FirstToken(t)
      PROVE  ToldInv'
  BY <1>2 DEF FirstToken, LookupUnchanged, Goto, TokenPc, Missing, Set
<1>3. ASSUME NEW t \in Threads, SecondToken(t)
      PROVE  ToldInv'
  BY <1>3
     DEF SecondToken, LookupUnchanged, Goto, InLookup, AfterLookup, AfterBus, Missing,
         Set
<1>4. ASSUME NEW t \in Threads, BeginQuery(t)
      PROVE  ToldInv'
  BY <1>4 DEF BeginQuery, LockForQuery, QueryUnchanged, Goto, Missing, Set
<1>5. ASSUME NEW t \in Threads, PortNames(t)
      PROVE  ToldInv'
  BY <1>5 DEF PortNames, QueryUnchanged, Goto, Missing, Set
<1>6. ASSUME NEW t \in Threads, CloseNames(t)
      PROVE  ToldInv'
  BY <1>6 DEF CloseNames, QueryUnchanged, Goto, Missing, Set
<1>7. ASSUME NEW t \in Threads, Assign(t)
      PROVE  ToldInv'
  BY <1>7 DEF Assign, QueryUnchanged, Goto, Missing, Set
<1>8. ASSUME NEW t \in Threads, Report(t)
      PROVE  ToldInv'
  BY <1>8 DEF Report, Forget, QueryUnchanged, Goto, Missing, Set
<1>9. CASE Uevent
  BY <1>9 DEF Uevent, QueryUnchanged, Goto, Missing, Set
<1>10. CASE Receive
  <2>1. todo' = WritesOf(call') /\ told' = "none"
    BY <1>10 DEF Receive
  <2>2. \A w \in Asked(call)' : ~Missing(w)'
    BY <2>1 DEF Asked, Missing
  <2> QED BY <2>1, <2>2
<1>11. CASE NoPath
  BY <1>11 DEF NoPath, CallUnchanged, Goto
<1>12. CASE LockForLimit
  BY <1>12 DEF LockForLimit, CallUnchanged, Goto, Missing, Set
<1>13. CASE ReadProperty
  <2>1. /\ call' = call /\ node' = node /\ forbidden' = forbidden /\ refused' = refused
        /\ told' = told /\ told = "none" /\ call.op = Detection
        /\ todo' = todo \/ forbidden # "no"
    BY <1>13 DEF ReadProperty, UnlessForbidden, CallUnchanged, Goto
  <2>2. ASSUME NEW w \in Asked(call)
        PROVE  ~Missing(w)'
    <3>1. ~Missing(w)
      BY <2>1
    <3>2. w.node = "ContaminantDetection"
      BY <2>1, CallWrites DEF Asked, W
    <3> QED BY <2>1, <3>1, <3>2 DEF Missing, Set
  <2> QED BY <2>1, <2>2
<1>14. CASE Write
  <2>1. /\ call' = call /\ forbidden' = forbidden /\ told' = told /\ told = "none"
        /\ todo # <<>> /\ todo' = Tail(todo)
        /\ \/ node' = [node EXCEPT ![Head(todo).node] = Head(todo).value] /\ refused' = refused
           \/ node' = node /\ refused' = refused \cup {Head(todo).node}
    BY <1>14 DEF Write, NextWrites, CallUnchanged, Goto
  <2>2. Head(todo) \in Write1 /\ Head(todo) \in Asked(call)
    BY <1>14, <2>1, WriteTypes
  <2>3. ASSUME NEW w \in Asked(call)
        PROVE  ~Missing(w)'
    <3>1. ~Missing(w) /\ w \in Write1
      BY <2>1, CallWrites
    <3>2. CASE w = Head(todo)
      BY <2>1, <2>2, <3>2 DEF Missing, Set, Write1
    <3>3. CASE w # Head(todo)
      <4>1. w.node # Head(todo).node
        BY <2>2, <3>3, CallWrites
      <4>2. Set(w) => Set(w)'
        BY <2>1, <2>2, <3>1, <4>1 DEF Set, Write1
      <4>3. (\E i \in DOMAIN todo : todo[i] = w) => \E i \in DOMAIN todo' : todo'[i] = w
        <5>1. w \in {todo[i] : i \in DOMAIN todo} => w \in {todo'[i] : i \in DOMAIN todo'}
          BY <1>14, <3>3, WriteTypes
        <5> QED BY <5>1
      <4> QED BY <2>1, <3>1, <4>2, <4>3 DEF Missing
    <3> QED BY <3>2, <3>3
  <2> QED BY <2>1, <2>3
<1>15. CASE Notify
  BY <1>15 DEF Notify, Result, QueryAfter, CallUnchanged, Goto, Missing, Set
<1>16. CASE Return
  BY <1>16 DEF Return, Result, CallUnchanged, Goto, Missing, Set
<1>17. CASE Forbid
  <2>1. /\ call' = call /\ todo' = todo /\ refused' = refused /\ told' = told /\ pc' = pc
        /\ forbidden' # "no"
        /\ node' = node \/ node' = [node EXCEPT !["ContaminantDetection"] = "0"]
    BY <1>17 DEF Forbid
  <2>2. ASSUME NEW w \in Asked(call), ~Missing(w)
        PROVE  ~Missing(w)'
    <3>1. w \in Write1
      BY CallWrites
    <3> QED BY <2>1, <2>2, <3>1 DEF Missing, Set, Nodes, Write1
  <2> QED BY <2>1, <2>2
<1>18. CASE Restart
  <2>1. todo' = WritesOf(call') /\ told' = "none"
    BY <1>18 DEF Restart
  <2>2. \A w \in Asked(call)' : ~Missing(w)'
    BY <2>1 DEF Asked, Missing
  <2> QED BY <2>1, <2>2
<1>19. CASE UNCHANGED vars
  BY <1>19 DEF vars, Missing, Set
<1> QED
  BY <1>1, <1>2, <1>3, <1>4, <1>5, <1>6, <1>7, <1>8, <1>9, <1>10, <1>11,
     <1>12, <1>13, <1>14, <1>15, <1>16, <1>17, <1>18, <1>19
  DEF Next, Lookup, Query

-----------------------------------------------------------------------------
(* The invariant *)

LEMMA InvInit == Init => Inv
<1> SUFFICES ASSUME Init
             PROVE  Inv
  OBVIOUS
<1>1. TypeOK
  BY TypeInit
<1>2. PICK c \in ConstructorCalls \cup {NoCall} : Start(c)
  BY DEF Init
<1>3. pc["binder"] \in {"idle", "findBus"} /\ pc["poll"] = "idle"
  BY <1>2 DEF Start, Threads
<1>4. c # NoCall => c.op = Security
  BY DEF ConstructorCalls, Call, Security
<1>5. pc["binder"] = "findBus" => call.op = Security
  BY <1>2, <1>4 DEF Start, Threads
<1>6. LockInv
  BY <1>3, <1>5 DEF LockInv, Threads, QueryPcs
<1>7. MetInv
  BY <1>2, <1>3 DEF Start, MetInv, InLookup, TokenPcs, LookupWrongOnlyIfMet, Threads
<1>8. TodoInv
  BY <1>2, FreshTodo DEF Start, TodoInv
<1>9. ForbiddenInv
  BY <1>3 DEF Init, ForbiddenInv, ForbiddenStaysOff
<1>10. ToldInv
  BY <1>2, NothingMissing DEF Start, ToldInv
<1>11. ReportedInv
  BY <1>2 DEF Start, ReportedInv
<1> QED BY <1>1, <1>6, <1>7, <1>8, <1>9, <1>10, <1>11 DEF Inv

\* The invariant is kept by every step.
LEMMA InvStep ==
  ASSUME Inv, [Next]_vars
  PROVE  Inv'
BY TypeStep, LockStep, MetStep, TodoStep, ForbiddenStep, ToldStep, ReportedStep
   DEF Inv

\* Inv holds in every reachable state of the port's controls.
THEOREM Invariant == Spec => []Inv
<1>1. Init => Inv
  BY InvInit
<1>2. Inv /\ [Next]_vars => Inv'
  BY InvStep
<1> QED BY <1>1, <1>2, PTL DEF Spec

\* A lookup of the i2c bus goes wrong only if it met one made without mLock
\* (Usb.cpp:261, 778).
THEOREM LookupsUnderLockAreRight == Spec => []LookupWrongOnlyIfMet
<1>1. Inv => LookupWrongOnlyIfMet
  BY DEF Inv, MetInv
<1> QED BY <1>1, Invariant, PTL

\* What limitPowerTransfer, setPortSecurityState and the contaminant call tell
\* is true of the nodes (Usb.cpp:665, 993, 1277).
THEOREM CallersAreToldTheTruth == Spec => []ToldIsTrue
<1>1. Inv => ToldIsTrue
  <2> SUFFICES ASSUME Inv, told \in {"SUCCESS", "ERROR"}, NEW w \in Asked(call)
               PROVE  \/ Set(w)
                      \/ told = "ERROR" /\ w.node \in refused
                      \/ w.node = "ContaminantDetection" /\ forbidden # "no"
    BY DEF ToldIsTrue
  <2>1. todo = <<>> /\ ~Missing(w) /\ (told = "SUCCESS" => refused = {})
    BY DEF Inv, ToldInv
  <2> QED BY <2>1 DEF Missing
<1> QED BY <1>1, Invariant, PTL

\* Between calls the framework knows the power limit of the sink
\* (Usb.cpp:692).
THEOREM LimitIsReported == Spec => []ReportedLimitIsCurrent
<1>1. Inv => ReportedLimitIsCurrent
  BY DEF Inv, ReportedInv, ReportedLimitIsCurrent, QueryPcs
<1> QED BY <1>1, Invariant, PTL

\* Contaminant detection that is forbidden is written once more at most
\* (Usb.cpp:988).
THEOREM ForbiddenIsOff == Spec => []ForbiddenStaysOff
<1>1. Inv => ForbiddenStaysOff
  BY DEF Inv, ForbiddenInv
<1> QED BY <1>1, Invariant, PTL
=============================================================================
