---------------------------- MODULE Node_proofs ----------------------------
(***************************************************************************)
(* Proofs about Node for any accounts, sessions, jobs and bounds: the      *)
(* types, and that the node implements NonceOrder.  The strengthening says *)
(* that nonceMap is ahead of every call that has run or is running.  Last, *)
(* that a session alone on its account always signs the nonce expected:    *)
(* until a crash, all it has sent is its current call (Fresh); and that no *)
(* session goes on from a job before a call of it has run, while no call   *)
(* runs more often than it was tried (ToldInv).                            *)
(***************************************************************************)
EXTENDS Node, FiniteSetTheorems, TLAPS

\* A call that holds the lock has used the last nonce counted for its account,
\* and everything that ran before had a smaller one.
NonceAhead ==
    /\ \A a \in Account : Last(a) < nonceMap[a]
    /\ lock # Free => LET a == account[lock.session]
                      IN  lock.uid = nonceMap[a] - 1 /\ Last(a) < lock.uid

NodeInv == TypeOK /\ NonceAhead

\* The number of the last call is -1 or a nonce.
LEMMA LastType ==
    ASSUME TypeOK, NEW a \in Account
    PROVE  Last(a) \in Int /\ Last(a) >= -1
  <1>1. ran[a] \in Seq(Request)
    BY DEF TypeOK
  <1>2. CASE ran[a] = <<>>
    BY <1>2 DEF Last
  <1>3. CASE ran[a] # <<>>
    <2>1. Len(ran[a]) \in DOMAIN ran[a] /\ ran[a][Len(ran[a])] \in Request
      BY <1>1, <1>3
    <2> QED
      BY <2>1, <1>3 DEF Last, Request
  <1> QED
    BY <1>2, <1>3

\* What a session sends is a request.
LEMMA SentType ==
    ASSUME TypeOK, NEW s \in Session
    PROVE  Sent(s) \in Request
  BY DEF TypeOK, Sent, Request

\* A request that is answered belongs to a session that waits for it.
LEMMA AnsweredType ==
    ASSUME TypeOK, NEW m \in Request,
           NEW res \in Answer
    PROVE  /\ Answered(m, res) \in [Session -> Answer]
           /\ \A s \in Session : Answered(m, res)[s] # "none" => pc[s] = "wait"
  <1>1. m.session \in Session
    BY DEF Request
  <1> QED
    BY <1>1 DEF TypeOK, Answered

-----------------------------------------------------------------------------
\* At the start nothing has run and no nonce is counted.
LEMMA InitNodeInv == Init => NodeInv
  <1> SUFFICES ASSUME Init PROVE NodeInv
    OBVIOUS
  <1>1. TypeOK
    <2>1. lock \in Request \cup {Free} /\ net \subseteq Request
      BY DEF Init
    <2>2. ran \in [Account -> Seq(Request)]
      BY DEF Init
    <2>3. nonceMap \in [Account -> Nat] /\ ercMap \in BOOLEAN /\ rm \in BOOLEAN
      BY DEF Init
    <2>4. /\ pc \in [Session -> {"idle", "ready", "wait"}]
          /\ answer \in [Session -> Answer]
          /\ \A s \in Session : answer[s] # "none" => pc[s] = "wait"
      BY DEF Init, Answer
    <2>5. /\ uid \in [Session -> Nat]
          /\ job \in [Session -> Nat \ {0}]
          /\ timeouts \in [Session -> Nat]
      BY DEF Init
    <2>6. lost \in Nat /\ early \in Nat /\ soon \in Nat /\ crashes \in Nat
      BY DEF Init
    <2> QED
      BY <2>1, <2>2, <2>3, <2>4, <2>5, <2>6 DEF TypeOK
  <1>2. \A a \in Account : Last(a) = -1 /\ nonceMap[a] = 0
    BY DEF Init, Last
  <1>3. NonceAhead
    BY <1>2 DEF Init, NonceAhead
  <1> QED
    BY <1>1, <1>3 DEF NodeInv

\* The types are kept by every step.
LEMMA StepTypes == TypeOK /\ [Next]_vars => TypeOK'
  <1> SUFFICES ASSUME TypeOK, [Next]_vars PROVE TypeOK'
    OBVIOUS
  <1> USE NodeAssumption
  <1>1. ASSUME NEW s \in Session, GetNonce(s) PROVE TypeOK'
    BY <1>1 DEF GetNonce, TypeOK
  <1>2. ASSUME NEW s \in Session, Send(s) PROVE TypeOK'
    BY <1>2, SentType DEF Send, TypeOK
  <1>3. ASSUME NEW s \in Session, Receive(s) PROVE TypeOK'
    BY <1>3 DEF Receive, TypeOK, Answer
  <1>4. ASSUME NEW s \in Session, Timeout(s) PROVE TypeOK'
    BY <1>4 DEF Timeout, TypeOK
  <1>5. ASSUME Lose PROVE TypeOK'
    <2>1. answer' \in [Session -> Answer]
             /\ net' \subseteq Request
      BY <1>5 DEF Lose, TypeOK, Answer
    <2>2. \A s \in Session : answer'[s] # "none" => answer[s] # "none"
      BY <1>5 DEF Lose, TypeOK
    <2>3. /\ lost' \in Nat
          /\ UNCHANGED <<nonceMap, ercMap, rm, lock, ran, pc, uid, job,
                         timeouts, early, soon, crashes>>
      BY <1>5 DEF Lose, TypeOK
    <2> QED
      BY <2>1, <2>2, <2>3 DEF TypeOK
  <1>6. ASSUME NEW m \in net, Enter(m) PROVE TypeOK'
    <2>1. m \in Request /\ m.session \in Session
      BY DEF TypeOK, Request
    <2>2. CASE UnknownToken(m)
      <3>1. /\ answer' = Answered(m, "ErrRes")
            /\ UNCHANGED <<nonceMap, lock>>
        BY <1>6, <2>2 DEF Enter
      <3> QED
        BY <1>6, <2>1, <3>1, AnsweredType DEF Enter, TypeOK, client, Answer
    <2>3. CASE ~UnknownToken(m)
      <3>1. nonceMap' \in [Account -> Nat]
        <4>1. account[m.session] \in Account
          BY <2>1
        <4>2. nonceMap[account[m.session]] + 1 \in Nat
          BY <4>1 DEF TypeOK
        <4>3. nonceMap' = [nonceMap EXCEPT ![account[m.session]] =
                              nonceMap[account[m.session]] + 1]
          BY <1>6, <2>3 DEF Enter, Counted
        <4> QED
          BY <4>2, <4>3 DEF TypeOK
      <3>2. CASE NonceFits(m)
        <4>1. lock' = m /\ UNCHANGED answer
          BY <1>6, <2>3, <3>2 DEF Enter
        <4> QED
          BY <1>6, <2>1, <3>1, <4>1 DEF Enter, TypeOK, client
      <3>3. CASE ~NonceFits(m)
        <4>1. answer' = Answered(m, "ErrNonce") /\ UNCHANGED lock
          BY <1>6, <2>3, <3>3 DEF Enter, Refused
        <4> QED
          BY <1>6, <2>1, <3>1, <4>1, AnsweredType DEF Enter, TypeOK, client, Answer
      <3> QED
        BY <3>2, <3>3
    <2> QED
      BY <2>2, <2>3
  <1>7. ASSUME Finish PROVE TypeOK'
    <2>1. lock \in Request /\ lock.session \in Session
      BY <1>7 DEF Finish, TypeOK, Request
    <2>2. account[lock.session] \in Account
      BY <2>1
    <2>3. ran' \in [Account -> Seq(Request)]
      BY <1>7, <2>1, <2>2 DEF Finish, TypeOK
    <2>4. ercMap' \in BOOLEAN /\ rm' \in BOOLEAN
      BY <1>7 DEF Finish, TypeOK
    <2>5. lock' \in Request \cup {Free}
      BY <1>7 DEF Finish
    <2> QED
      BY <1>7, <2>1, <2>3, <2>4, <2>5, AnsweredType DEF Finish, TypeOK, client, Answer
  <1>8. ASSUME Crash PROVE TypeOK'
    <2>1. nonceMap' \in [Account -> Nat]
      BY <1>8 DEF Crash
    <2>2. ran' \in [Account -> Seq(Request)]
      BY <1>8 DEF Crash
    <2>3. net' \subseteq Request
      BY <1>8 DEF Crash, TypeOK
    <2>4. ercMap' \in BOOLEAN /\ rm' \in BOOLEAN /\ lock' \in Request \cup {Free}
      BY <1>8 DEF Crash
    <2>5. crashes' \in Nat
      BY <1>8 DEF Crash, TypeOK
    <2>6. answer' = answer /\ UNCHANGED client
      BY <1>8 DEF Crash
    <2> QED
      BY <2>1, <2>2, <2>3, <2>4, <2>5, <2>6 DEF TypeOK, client
  <1>9. ASSUME Panic PROVE TypeOK'
    <2>1. lock \in Request
      BY <1>9 DEF Panic, TypeOK
    <2>2. lock' = Free /\ answer' = Answered(lock, "panic")
      BY <1>9 DEF Panic, Unlocked
    <2> QED
      BY <1>9, <2>1, <2>2, AnsweredType DEF Panic, TypeOK, client, Answer
  <1>10. ASSUME UNCHANGED vars PROVE TypeOK'
    BY <1>10 DEF vars, TypeOK
  <1> QED
    BY <1>1, <1>2, <1>3, <1>4, <1>5, <1>6, <1>7, <1>8, <1>9, <1>10 DEF Next

-----------------------------------------------------------------------------
\* A step that leaves the node alone leaves NonceAhead alone.
LEMMA NodeUnchanged ==
    ASSUME NonceAhead, UNCHANGED <<nonceMap, lock, ran>>
    PROVE  NonceAhead'
  BY DEF NonceAhead, Last

\* Counting a nonce up keeps NonceAhead, and the call that enters the lock has
\* the nonce that was counted.
LEMMA EnterAhead ==
    ASSUME NodeInv, NEW m \in net, Enter(m)
    PROVE  NonceAhead'
  <1> USE NodeAssumption
  <1> DEFINE a == account[m.session]
  <1>1. m \in Request /\ m.session \in Session /\ a \in Account /\ m.uid \in Nat
    BY DEF NodeInv, TypeOK, Request
  <1>2. CASE UnknownToken(m)
    <2>1. UNCHANGED <<nonceMap, lock, ran>>
      BY <1>2 DEF Enter
    <2> QED
      BY <2>1, NodeUnchanged DEF NodeInv
  <1>3. CASE ~UnknownToken(m)
    <2>1. /\ nonceMap \in [Account -> Nat]
          /\ nonceMap' = [nonceMap EXCEPT ![a] = nonceMap[a] + 1]
          /\ lock = Free
          /\ UNCHANGED ran
      BY <1>3 DEF Enter, NodeInv, TypeOK, Counted
    <2>2. \A b \in Account : /\ Last(b)' = Last(b)
                             /\ Last(b) \in Int
                             /\ Last(b) < nonceMap[b]
                             /\ nonceMap'[b] \in Nat
                             /\ nonceMap'[b] >= nonceMap[b]
      BY <1>1, <2>1, LastType DEF NodeInv, NonceAhead, Last
    <2>3. \A b \in Account : Last(b)' < nonceMap'[b]
      BY <2>1, <2>2
    <2>4. CASE NonceFits(m)
      <3>1. lock' = m /\ m.uid = nonceMap[a]
        BY <1>3, <2>4 DEF Enter, NonceFits
      <3>2. m.uid = nonceMap'[a] - 1 /\ Last(a)' < m.uid
        BY <1>1, <2>1, <2>2, <3>1
      <3> QED
        BY <2>3, <3>1, <3>2 DEF NonceAhead
    <2>5. CASE ~NonceFits(m)
      <3>1. lock' = Free
        BY <1>3, <2>1, <2>5 DEF Enter
      <3> QED
        BY <2>3, <3>1 DEF NonceAhead
    <2> QED
      BY <2>4, <2>5
  <1> QED
    BY <1>2, <1>3

\* The call that ran last is the one that held the lock, for account a.
LEMMA FinishRuns ==
    ASSUME NodeInv, Finish, NEW a \in Account, a = account[lock.session]
    PROVE  /\ Last(a) < lock.uid /\ lock.uid < nonceMap[a]
           /\ Last(a)' = lock.uid /\ Len(ran'[a]) = Len(ran[a]) + 1
           /\ \A b \in Account \ {a} :
                 Last(b)' = Last(b) /\ Len(ran'[b]) = Len(ran[b])
  <1>1. lock \in Request /\ lock.uid \in Nat
    BY DEF Finish, NodeInv, TypeOK, Request
  <1>2. lock.uid = nonceMap[a] - 1 /\ Last(a) < lock.uid
    BY DEF Finish, NodeInv, NonceAhead
  <1>3. nonceMap[a] \in Nat
    BY DEF NodeInv, TypeOK
  <1>4. ran \in [Account -> Seq(Request)]
    BY DEF NodeInv, TypeOK
  <1>5. ran' = [ran EXCEPT ![a] = Append(ran[a], lock)]
    BY DEF Finish
  <1>6. ran'[a] = Append(ran[a], lock) /\ ran[a] \in Seq(Request)
    BY <1>4, <1>5
  <1>7. Len(ran'[a]) = Len(ran[a]) + 1 /\ Len(ran[a]) \in Nat
    BY <1>1, <1>6
  <1>8. ran'[a][Len(ran[a]) + 1] = lock
    BY <1>1, <1>6
  <1>9. ran'[a] # <<>>
    BY <1>7
  <1>10. Last(a)' = lock.uid
    BY <1>7, <1>8, <1>9 DEF Last
  <1>11. \A b \in Account \ {a} : ran'[b] = ran[b]
    BY <1>4, <1>5
  <1>12. \A b \in Account \ {a} : Last(b)' = Last(b) /\ Len(ran'[b]) = Len(ran[b])
    BY <1>11 DEF Last
  <1> QED
    BY <1>1, <1>2, <1>3, <1>7, <1>10, <1>12

\* The lock is held for some account.
LEMMA LockAccount ==
    ASSUME TypeOK, Finish
    PROVE  \E a \in Account : a = account[lock.session]
  <1>1. lock.session \in Session
    BY DEF Finish, TypeOK, Request
  <1> QED
    BY <1>1, NodeAssumption

\* Every step keeps the types, and the nonces ahead of the calls.
LEMMA StepNodeInv == NodeInv /\ [Next]_vars => NodeInv'
  <1> SUFFICES ASSUME NodeInv, [Next]_vars PROVE NonceAhead'
    BY StepTypes DEF NodeInv
  <1>1. ASSUME NEW s \in Session,
               GetNonce(s) \/ Send(s) \/ Receive(s) \/ Timeout(s)
        PROVE  NonceAhead'
    <2>1. UNCHANGED <<nonceMap, lock, ran>>
      BY <1>1 DEF GetNonce, Send, Receive, Timeout
    <2> QED
      BY <2>1, NodeUnchanged DEF NodeInv
  <1>2. ASSUME Lose PROVE NonceAhead'
    BY <1>2, NodeUnchanged DEF NodeInv, Lose
  <1>3. ASSUME NEW m \in net, Enter(m) PROVE NonceAhead'
    BY <1>3, EnterAhead
  <1>4. ASSUME Finish PROVE NonceAhead'
    <2>1. \A b \in Account : /\ nonceMap[b] \in Nat
                             /\ Last(b) < nonceMap[b]
                             /\ nonceMap'[b] = nonceMap[b]
      BY <1>4 DEF NodeInv, TypeOK, NonceAhead, Finish
    <2>a. PICK a \in Account : a = account[lock.session]
      BY <1>4, LockAccount DEF NodeInv
    <2>b. /\ lock.uid < nonceMap[a] /\ Last(a)' = lock.uid
          /\ \A b \in Account \ {a} : Last(b)' = Last(b)
      BY <1>4, <2>a, FinishRuns
    <2>2. \A b \in Account : Last(b)' < nonceMap'[b]
      BY <2>1, <2>b
    <2>3. lock' = Free
      BY <1>4 DEF Finish
    <2> QED
      BY <2>2, <2>3 DEF NonceAhead
  <1>5. ASSUME Crash PROVE NonceAhead'
    <2>1. lock' = Free /\ \A b \in Account : nonceMap'[b] = 0 /\ ran'[b] = <<>>
      BY <1>5 DEF Crash
    <2>2. \A b \in Account : Last(b)' = -1
      BY <2>1 DEF Last
    <2> QED
      BY <2>1, <2>2 DEF NonceAhead
  <1>6. ASSUME Panic PROVE NonceAhead'
    <2>1. lock' = Free /\ UNCHANGED <<nonceMap, ran>>
      BY <1>6 DEF Panic, Unlocked
    <2> QED
      BY <2>1 DEF NodeInv, NonceAhead, Last
  <1>7. ASSUME UNCHANGED vars PROVE NonceAhead'
    BY <1>7, NodeUnchanged DEF NodeInv, vars
  <1> QED
    BY <1>1, <1>2, <1>3, <1>4, <1>5, <1>6, <1>7 DEF Next

-----------------------------------------------------------------------------
\* In every reachable state the node's and the clients' variables have their
\* types, and only a waiting client has an answer coming.
THEOREM NodeTypes == Spec => []TypeOK
  <1>1. NodeInv => TypeOK
    BY DEF NodeInv
  <1> QED
    BY <1>1, InitNodeInv, StepNodeInv, PTL DEF Spec

\* A step of the node is a run of one account's next call, a restart, or none
\* of the abstract specification's business.
LEMMA StepRefines == NodeInv /\ [Next]_vars => [Order!Next]_(Order!vars)
  <1> SUFFICES ASSUME NodeInv, [Next]_vars
               PROVE  Order!Next \/ UNCHANGED Order!vars
    OBVIOUS
  <1>1. ASSUME UNCHANGED ran PROVE UNCHANGED Order!vars
    BY <1>1 DEF Order!vars, Last
  <1>2. ASSUME NEW s \in Session,
               GetNonce(s) \/ Send(s) \/ Receive(s) \/ Timeout(s)
        PROVE  UNCHANGED ran
    BY <1>2 DEF GetNonce, Send, Receive, Timeout
  <1>3. ASSUME Lose \/ Panic \/ UNCHANGED vars PROVE UNCHANGED ran
    BY <1>3 DEF Lose, Panic, vars
  <1>4. ASSUME NEW m \in net, Enter(m) PROVE UNCHANGED ran
    BY <1>4 DEF Enter
  <1>5. ASSUME Finish PROVE Order!Next
    <2>1. PICK a \in Account : a = account[lock.session]
      BY <1>5, LockAccount DEF NodeInv
    <2>2. /\ Last(a)' > Last(a) /\ Len(ran'[a]) = Len(ran[a]) + 1
          /\ \A b \in Account \ {a} :
                Last(b)' = Last(b) /\ Len(ran'[b]) = Len(ran[b])
      <3>1. Last(a) < lock.uid /\ Last(a)' = lock.uid
        BY <1>5, <2>1, FinishRuns
      <3>2. lock.uid \in Nat /\ Last(a) \in Int
        BY <1>5, LastType DEF NodeInv, TypeOK, Finish, Request
      <3>3. Last(a)' > Last(a)
        BY <3>1, <3>2
      <3> QED
        BY <1>5, <2>1, <3>3, FinishRuns
    <2>3. Order!Run(a)
      BY <2>2 DEF Order!Run
    <2> QED
      BY <2>3 DEF Order!Next
  <1>6. ASSUME Crash PROVE Order!Next
    <2>1. \A b \in Account : ran'[b] = <<>>
      BY <1>6 DEF Crash
    <2>2. \A b \in Account : Last(b)' = -1 /\ Len(ran'[b]) = 0
      BY <2>1 DEF Last
    <2>3. Order!Restart
      BY <2>2 DEF Order!Restart
    <2> QED
      BY <2>3 DEF Order!Next
  <1> QED
    BY <1>1, <1>2, <1>3, <1>4, <1>5, <1>6 DEF Next

\* The node implements NonceOrder: whatever is lost, resent or overtaken, it
\* runs each account's calls one by one under ever higher nonces, until it is
\* restarted.
THEOREM NodeImplementsOrder == Spec => OncePerNonce
  <1>1. Init => Order!Init
    BY DEF Init, Order!Init, Last
  <1> QED
    BY <1>1, InitNodeInv, StepNodeInv, StepRefines, PTL
       DEF Spec, OncePerNonce, Order!Spec

-----------------------------------------------------------------------------
\* A session alone on its account has one request under way at most, which it
\* waits for, and signs for the nonce the node expects.
Fresh(s) ==
    /\ answer[s] # "ErrNonce"
    /\ \A m \in net : m.session = s =>
          /\ m = Sent(s) /\ pc[s] = "wait" /\ answer[s] = "none"
          /\ lock # Free => lock.session # s
          /\ uid[s] = nonceMap[account[s]]
    /\ (lock # Free /\ lock.session = s) =>
          lock = Sent(s) /\ pc[s] = "wait" /\ answer[s] = "none"
    /\ pc[s] = "ready" => uid[s] = nonceMap[account[s]]

AloneInv == crashes = 0 => \A s \in Session : Alone(s) => Fresh(s)

\* Fresh is only about the node's nonces and the session's own variables.
LEMMA FreshUnchanged ==
    ASSUME NEW s \in Session, Fresh(s),
           UNCHANGED <<nonceMap, lock>>, net' \subseteq net,
           pc'[s] = pc[s], uid'[s] = uid[s], job'[s] = job[s],
           timeouts'[s] = timeouts[s],
           answer'[s] = answer[s] \/ answer'[s] = "none"
    PROVE  Fresh(s)'
  <1>1. Sent(s)' = Sent(s)
    BY DEF Sent
  <1> QED
    BY <1>1 DEF Fresh

\* A session's request is the only one of its session that enters, and fits.
LEMMA EnterFresh ==
    ASSUME TypeOK, NEW s \in Session, Alone(s), Fresh(s),
           NEW m \in net, Enter(m)
    PROVE  Fresh(s)'
  <1> USE NodeAssumption
  <1>1. m \in Request /\ m.session \in Session /\ lock = Free
    BY DEF TypeOK, Request, Enter
  <1>2. Sent(s)' = Sent(s) /\ UNCHANGED <<pc, uid>>
    BY DEF Enter, client, Sent
  <1>3. CASE m.session = s
    <2>1. /\ m = Sent(s) /\ pc[s] = "wait" /\ answer[s] = "none"
          /\ uid[s] = nonceMap[account[s]] /\ m.uid = uid[s]
      BY <1>3 DEF Fresh, Sent
    <2>2. \A r \in net' : r.session # s
      BY <2>1 DEF Fresh, Enter
    <2>3. NonceFits(m)
      BY <1>3, <2>1 DEF NonceFits
    <2>4. CASE UnknownToken(m)
      <3>1. lock' = Free /\ answer' = Answered(m, "ErrRes")
        BY <1>1, <2>4 DEF Enter
      <3>2. answer'[s] # "ErrNonce"
        BY <2>1, <3>1 DEF Answered, TypeOK
      <3> QED
        BY <1>2, <2>1, <2>2, <3>1, <3>2 DEF Fresh
    <2>5. CASE ~UnknownToken(m)
      <3>1. lock' = m /\ UNCHANGED answer
        BY <2>3, <2>5 DEF Enter
      <3> QED
        BY <1>2, <2>1, <2>2, <3>1 DEF Fresh
    <2> QED
      BY <2>4, <2>5
  <1>4. CASE m.session # s
    <2>1. account[m.session] # account[s]
      BY <1>1, <1>4 DEF Alone
    <2>2. nonceMap'[account[s]] = nonceMap[account[s]]
      BY <2>1 DEF Enter, TypeOK
    <2>3. answer'[s] = answer[s]
      BY <1>1, <1>4 DEF Enter, Answered, TypeOK
    <2>4. lock' = Free \/ lock' = m
      BY <1>1 DEF Enter
    <2>5. net' \subseteq net
      BY DEF Enter
    <2> QED
      BY <1>1, <1>2, <1>4, <2>2, <2>3, <2>4, <2>5 DEF Fresh
  <1> QED
    BY <1>3, <1>4

\* The call that holds the lock is answered, and not with ErrNonce.
LEMMA LeaveFresh ==
    ASSUME TypeOK, NEW s \in Session, Fresh(s), Finish \/ Panic
    PROVE  Fresh(s)'
  <1>1. /\ lock \in Request /\ lock.session \in Session /\ lock # Free
        /\ lock' = Free /\ UNCHANGED <<net, nonceMap, pc, uid>>
    BY DEF Finish, Panic, Unlocked, TypeOK, Request, client
  <1>2. Sent(s)' = Sent(s)
    BY DEF Finish, Panic, client, Sent
  <1>3. PICK res \in {"done", "panic"} : answer' = Answered(lock, res)
    BY DEF Finish, Panic
  <1>4. CASE lock.session = s
    <2>1. /\ lock = Sent(s) /\ pc[s] = "wait"
          /\ \A m \in net : m.session # s
      BY <1>1, <1>4 DEF Fresh
    <2>2. answer'[s] # "ErrNonce"
      BY <1>3, <1>4, <2>1 DEF Answered, TypeOK
    <2> QED
      BY <1>1, <1>2, <2>1, <2>2 DEF Fresh
  <1>5. CASE lock.session # s
    <2>1. answer'[s] = answer[s]
      BY <1>1, <1>3, <1>5 DEF Answered, TypeOK
    <2> QED
      BY <1>1, <1>2, <1>5, <2>1 DEF Fresh
  <1> QED
    BY <1>4, <1>5

\* A session's own steps: it signs for the nonce it has read, and has nothing
\* under way when it sends.
LEMMA ClientFresh ==
    ASSUME TypeOK, NEW s \in Session, Fresh(s), Alone(s)',
           NEW r \in Session,
           GetNonce(r) \/ Send(r) \/ Receive(r) \/ Timeout(r)
    PROVE  Fresh(s)'
  <1>1. UNCHANGED <<nonceMap, lock>>
    BY DEF GetNonce, Send, Receive, Timeout
  <1>2. CASE r # s
    <2>1. /\ pc'[s] = pc[s] /\ uid'[s] = uid[s] /\ job'[s] = job[s]
          /\ timeouts'[s] = timeouts[s] /\ answer'[s] = answer[s]
      BY <1>2 DEF GetNonce, Send, Receive, Timeout, TypeOK
    <2>2. \A m \in net' : m.session = s => m \in net
      BY <1>2 DEF GetNonce, Send, Receive, Timeout, Sent
    <2>3. Sent(s)' = Sent(s)
      BY <2>1 DEF Sent
    <2> QED
      BY <1>1, <2>1, <2>2, <2>3 DEF Fresh
  <1>3. CASE r = s /\ GetNonce(s)
    <2>1. /\ pc[s] = "idle" /\ pc'[s] = "ready"
          /\ uid'[s] = nonceMap[account[s]]
          /\ UNCHANGED <<net, answer>>
      BY <1>3 DEF GetNonce, TypeOK
    <2> QED
      BY <1>1, <2>1 DEF Fresh
  <1>4. CASE r = s /\ Send(s)
    <2>1. /\ pc[s] = "ready" /\ pc'[s] = "wait"
          /\ net' = net \cup {Sent(s)}
          /\ UNCHANGED <<uid, answer>> /\ Sent(s)' = Sent(s)
      BY <1>4 DEF Send, TypeOK, Sent
    <2>2. answer[s] = "none"
      BY <2>1 DEF TypeOK
    <2> QED
      BY <1>1, <2>1, <2>2 DEF Fresh
  <1>5. CASE r = s /\ Receive(s)
    <2>1. /\ answer[s] # "none" /\ answer'[s] = "none" /\ pc'[s] = "idle"
          /\ UNCHANGED net
      BY <1>5 DEF Receive, TypeOK
    <2> QED
      BY <1>1, <2>1 DEF Fresh
  <1>6. CASE r = s /\ Timeout(s)
    <2>1. timeouts'[s] = timeouts[s] + 1 /\ timeouts[s] \in Nat
      BY <1>6 DEF Timeout, TypeOK
    <2> QED
      BY <2>1 DEF Alone
  <1> QED
    BY <1>2, <1>3, <1>4, <1>5, <1>6

\* Every step keeps the sessions that are alone signing the nonce expected.
LEMMA StepAlone == TypeOK /\ AloneInv /\ [Next]_vars => AloneInv'
  <1> SUFFICES ASSUME TypeOK, AloneInv, [Next]_vars, crashes' = 0,
                      NEW s \in Session, Alone(s)'
               PROVE  Fresh(s)'
    BY DEF AloneInv
  <1>1. CASE Crash
    BY <1>1 DEF Crash, TypeOK
  <1>2. ASSUME ~Crash PROVE crashes = 0
    BY <1>2 DEF Next, GetNonce, Send, Receive, Timeout, Lose, Enter, Finish,
                Panic, vars
  <1>3. ASSUME ~Crash PROVE timeouts[s] = 0
    <2>1. CASE \E r \in Session : Timeout(r)
      BY <2>1 DEF Timeout, TypeOK, Alone
    <2>2. CASE ~\E r \in Session : Timeout(r)
      BY <1>3, <2>2 DEF Next, GetNonce, Send, Receive, Lose, Enter, Finish,
                        Panic, vars, client, Alone
    <2> QED
      BY <2>1, <2>2
  <1>4. ASSUME ~Crash PROVE Alone(s) /\ Fresh(s)
    <2>1. Alone(s)
      BY <1>3, <1>4 DEF Alone
    <2> QED
      BY <1>2, <1>4, <2>1 DEF AloneInv
  <1>5. ASSUME NEW r \in Session,
               GetNonce(r) \/ Send(r) \/ Receive(r) \/ Timeout(r), ~Crash
        PROVE  Fresh(s)'
    BY <1>4, <1>5, ClientFresh
  <1>6. ASSUME Lose, ~Crash PROVE Fresh(s)'
    <2>1. /\ UNCHANGED <<nonceMap, lock, pc, uid, job, timeouts>>
          /\ net' \subseteq net
          /\ answer'[s] = answer[s] \/ answer'[s] = "none"
      BY <1>6 DEF Lose, TypeOK
    <2> QED
      BY <1>4, <1>6, <2>1, FreshUnchanged
  <1>7. ASSUME NEW m \in net, Enter(m), ~Crash PROVE Fresh(s)'
    BY <1>4, <1>7, EnterFresh
  <1>8. ASSUME Finish \/ Panic, ~Crash PROVE Fresh(s)'
    BY <1>4, <1>8, LeaveFresh
  <1>9. ASSUME UNCHANGED vars, ~Crash PROVE Fresh(s)'
    <2>1. /\ UNCHANGED <<nonceMap, lock, net, pc, uid, job, timeouts, answer>>
      BY <1>9 DEF vars
    <2> QED
      BY <1>4, <1>9, <2>1, FreshUnchanged
  <1> QED
    BY <1>1, <1>5, <1>6, <1>7, <1>8, <1>9 DEF Next

\* A session alone on its account that never gave up on a call is never told
\* ErrNonce, as long as the node runs: node.go:92 turns down no call of it.
THEOREM NodeAloneFits == Spec => []AloneFits
  <1>1. Init => AloneInv
    BY DEF Init, AloneInv, Fresh
  <1>2. AloneInv => AloneFits
    BY DEF AloneInv, AloneFits, Fresh
  <1> QED
    BY <1>1, <1>2, NodeTypes, StepAlone, PTL DEF Spec

-----------------------------------------------------------------------------
(***************************************************************************)
(* What a client is told                                                   *)
(***************************************************************************)
\* Two requests of one session for the same call, made without giving up on it
\* in between.
Same(m, r) == m.session = r.session /\ m.job = r.job /\ m.try = r.try

\* A request of session s is current if it is for the session's call as the
\* session makes it now.
Current(m, s) == m.session = s /\ m.job = job[s] /\ m.try = timeouts[s]

\* The calls of session s that hold the lock.
Held(s) == {m \in {lock} : lock # Free /\ m.session = s}

\* No request of s is ahead of it.
Behind(s) ==
    /\ \A m \in net \cup Held(s) :
          m.session = s => m.job <= job[s] /\ m.try <= timeouts[s]
    /\ \A n \in DOMAIN ran[account[s]] :
          ran[account[s]][n].session = s =>
             /\ ran[account[s]][n].job <= job[s]
             /\ ran[account[s]][n].try <= timeouts[s]

\* Those under way and those that have run are all different.
Apart(s) ==
    /\ \A m, k \in net : m.session = s /\ Same(m, k) => m = k
    /\ \A m \in net, k \in Held(s) : ~Same(m, k)
    /\ \A m \in net \cup Held(s), n \in DOMAIN ran[account[s]] :
          m.session = s => ~Same(m, ran[account[s]][n])
    /\ \A n, k \in DOMAIN ran[account[s]] :
          /\ ran[account[s]][n].session = s
          /\ Same(ran[account[s]][n], ran[account[s]][k])
          => n = k

\* Nothing is under way once it is answered or before it is sent, and nothing
\* has run that the session was told has not.
NotYet(s) ==
    /\ pc[s] # "wait" \/ answer[s] # "none" =>
          \A m \in net \cup Held(s) : ~Current(m, s)
    /\ pc[s] # "wait" \/ answer[s] \notin {"none", "done"} =>
          \A n \in DOMAIN ran[account[s]] : ~Current(ran[account[s]][n], s)

\* What the session was told has run has run.
Real(s) ==
    /\ answer[s] = "done" => RanCalls(s, job[s]) # {}
    /\ \A j \in Nat \ {0} : j < job[s] => RanCalls(s, j) # {}

Told(s) == Behind(s) /\ Apart(s) /\ NotYet(s) /\ Real(s)

ToldInv == crashes = 0 => \A s \in Session : Told(s)

\* Fields of requests and of what sessions count.
LEMMA ToldTypes ==
    ASSUME TypeOK, NEW s \in Session
    PROVE  /\ account[s] \in Account
           /\ job[s] \in Nat \ {0} /\ timeouts[s] \in Nat /\ crashes \in Nat
           /\ answer[s] # "none" => pc[s] = "wait"
           /\ ran[account[s]] \in Seq(Request)
           /\ \A m \in net : /\ m \in Request /\ m.session \in Session
                             /\ m.job \in Nat /\ m.try \in Nat
           /\ lock # Free => /\ lock \in Request /\ lock.session \in Session
                             /\ lock.job \in Nat /\ lock.try \in Nat
           /\ \A n \in DOMAIN ran[account[s]] :
                 /\ ran[account[s]][n].job \in Nat
                 /\ ran[account[s]][n].try \in Nat
  <1>1. account[s] \in Account
    BY NodeAssumption
  <1>2. ran[account[s]] \in Seq(Request)
    BY <1>1 DEF TypeOK
  <1>3. \A n \in DOMAIN ran[account[s]] : ran[account[s]][n] \in Request
    BY <1>2
  <1>4. \A m \in Request : /\ m.session \in Session
                           /\ m.job \in Nat /\ m.try \in Nat
    BY DEF Request
  <1>5. net \subseteq Request /\ lock \in Request \cup {Free}
    BY DEF TypeOK
  <1> QED
    BY <1>1, <1>2, <1>3, <1>4, <1>5 DEF TypeOK

\* Steps that bring s nothing new.
LEMMA ToldKept ==
    ASSUME NEW s \in Session, Told(s), UNCHANGED <<lock, ran>>,
           \A m \in net' : m \in net \/ m.session # s,
           job'[s] = job[s], timeouts'[s] = timeouts[s],
           pc'[s] = pc[s] \/ pc[s] # "wait",
           \/ answer'[s] = answer[s]
           \/ answer'[s] = "none" /\ pc'[s] = "wait"
    PROVE  Told(s)'
  <1>1. Held(s)' = Held(s)
    BY DEF Held
  <1>2. Behind(s)'
    BY <1>1 DEF Told, Behind
  <1>3. Apart(s)'
    <2>1. \A k \in Held(s) : k.session = s
      BY DEF Held
    <2> QED
      BY <1>1, <2>1 DEF Told, Apart, Same
  <1>4. NotYet(s)'
    <2>1. (pc'[s] # "wait" \/ answer'[s] # "none")
             => pc[s] # "wait" \/ answer[s] # "none"
      OBVIOUS
    <2>2. (pc'[s] # "wait" \/ answer'[s] \notin {"none", "done"})
             => pc[s] # "wait" \/ answer[s] \notin {"none", "done"}
      OBVIOUS
    <2> QED
      BY <1>1, <2>1, <2>2 DEF Told, NotYet, Current
  <1>5. Real(s)'
    <2>1. \A j : RanCalls(s, j)' = RanCalls(s, j)
      BY DEF RanCalls
    <2>2. /\ answer[s] = "done" => RanCalls(s, job[s]) # {}
          /\ \A j \in Nat \ {0} : j < job[s] => RanCalls(s, j) # {}
      BY DEF Told, Real
    <2>3. answer'[s] = "done" => answer[s] = "done"
      OBVIOUS
    <2>4. RanCalls(s, job[s])' = RanCalls(s, job[s])
      BY DEF RanCalls
    <2> QED
      BY <2>1, <2>2, <2>3, <2>4 DEF Real
  <1> QED
    BY <1>2, <1>3, <1>4, <1>5 DEF Told

\* What s sends is new: nothing current was under way or had run.
LEMMA ToldSend ==
    ASSUME TypeOK, NEW s \in Session, Told(s), Send(s)
    PROVE  Told(s)'
  <1>1. /\ pc[s] = "ready" /\ pc'[s] = "wait" /\ answer'[s] = "none"
        /\ answer[s] = "none"
        /\ UNCHANGED <<lock, ran, job, timeouts>>
    BY DEF TypeOK, Send
  <1>2. PICK new : new = Sent(s)
    OBVIOUS
  <1>3. net' = net \cup {new} /\ Current(new, s) /\ new.session = s
    BY <1>2 DEF Send, Sent, Current
  <1>4. Held(s)' = Held(s)
    BY <1>1 DEF Held
  <1>5. /\ \A m \in net \cup Held(s) : ~Current(m, s)
        /\ \A n \in DOMAIN ran[account[s]] : ~Current(ran[account[s]][n], s)
    BY <1>1 DEF Told, NotYet
  <1>6. \A m : Same(new, m) \/ Same(m, new) => Current(m, s)
    BY <1>3 DEF Current, Same
  <1>7. Behind(s)'
    <2>1. new.job = job[s] /\ new.try = timeouts[s]
      BY <1>3 DEF Current
    <2>2. new.job <= job[s] /\ new.try <= timeouts[s]
      BY <2>1, ToldTypes
    <2> QED
      BY <1>1, <1>3, <1>4, <2>2 DEF Told, Behind
  <1>8. Apart(s)'
    <2>1. \A m, k \in net' : m.session = s /\ Same(m, k) => m = k
      <3>1. ASSUME NEW m \in net', NEW k \in net', m.session = s, Same(m, k)
            PROVE  m = k
        <4>1. CASE m = new \/ k = new
          BY <4>1, <3>1, <1>3, <1>5, <1>6
        <4>2. CASE m \in net /\ k \in net
          BY <4>2, <3>1 DEF Told, Apart
        <4> QED
          BY <4>1, <4>2, <1>3
      <3> QED
        BY <3>1
    <2>2. \A m \in net', k \in Held(s)' : ~Same(m, k)
      BY <1>3, <1>4, <1>5, <1>6 DEF Told, Apart
    <2>3. \A m \in net' \cup Held(s)', n \in DOMAIN ran'[account[s]] :
             m.session = s => ~Same(m, ran'[account[s]][n])
      <3>1. ASSUME NEW m \in net' \cup Held(s)', m.session = s,
                   NEW n \in DOMAIN ran[account[s]]
            PROVE  ~Same(m, ran[account[s]][n])
        <4>1. CASE m = new
          BY <4>1, <1>5, <1>6
        <4>2. CASE m \in net \cup Held(s)
          BY <4>2, <3>1 DEF Told, Apart
        <4> QED
          BY <4>1, <4>2, <3>1, <1>3, <1>4
      <3> QED
        BY <3>1, <1>1
    <2>4. \A n, k \in DOMAIN ran'[account[s]] :
             /\ ran'[account[s]][n].session = s
             /\ Same(ran'[account[s]][n], ran'[account[s]][k])
             => n = k
      BY <1>1 DEF Told, Apart
    <2> QED
      BY <2>1, <2>2, <2>3, <2>4 DEF Apart, Same
  <1>9. NotYet(s)'
    BY <1>1 DEF NotYet
  <1>10. Real(s)'
    BY <1>1 DEF Told, Real, RanCalls
  <1> QED
    BY <1>7, <1>8, <1>9, <1>10 DEF Told

\* A session that gives up makes its call anew.
LEMMA ToldTimeout ==
    ASSUME TypeOK, NEW s \in Session, Told(s), Timeout(s)
    PROVE  Told(s)'
  <1>1. /\ timeouts'[s] = timeouts[s] + 1 /\ answer'[s] = answer[s]
        /\ answer[s] = "none" /\ timeouts[s] \in Nat
        /\ UNCHANGED <<net, lock, ran, job>>
    BY DEF TypeOK, Timeout
  <1>2. Held(s)' = Held(s) /\ Held(s) \subseteq {lock}
    BY <1>1 DEF Held
  <1>3. /\ \A m \in net \cup Held(s) : m.session = s =>
              m.job <= job[s] /\ m.try \in Nat /\ m.try <= timeouts[s]
        /\ \A n \in DOMAIN ran[account[s]] :
              ran[account[s]][n].session = s =>
                 /\ ran[account[s]][n].job <= job[s]
                 /\ ran[account[s]][n].try \in Nat
                 /\ ran[account[s]][n].try <= timeouts[s]
    BY ToldTypes DEF Told, Behind, Held
  <1>4. /\ \A m \in net \cup Held(s) : m.session = s =>
              m.try <= timeouts'[s] /\ m.try # timeouts'[s]
        /\ \A n \in DOMAIN ran[account[s]] :
              ran[account[s]][n].session = s =>
                 /\ ran[account[s]][n].try <= timeouts'[s]
                 /\ ran[account[s]][n].try # timeouts'[s]
    BY <1>1, <1>3
  <1>5. Behind(s)'
    BY <1>1, <1>2, <1>3, <1>4 DEF Behind
  <1>6. Apart(s)'
    BY <1>1, <1>2 DEF Told, Apart, Same
  <1>7. NotYet(s)'
    BY <1>1, <1>2, <1>4 DEF NotYet, Current
  <1>8. Real(s)'
    BY <1>1 DEF Told, Real, RanCalls
  <1> QED
    BY <1>5, <1>6, <1>7, <1>8 DEF Told

\* A session that was told "done" goes on to its next call; one that was told
\* something else makes the same call again.
LEMMA ToldReceive ==
    ASSUME TypeOK, NEW s \in Session, Told(s), Receive(s)
    PROVE  Told(s)'
  <1>1. /\ answer[s] # "none" /\ answer'[s] = "none" /\ pc'[s] # "wait"
        /\ job[s] \in Nat /\ UNCHANGED <<net, lock, ran, timeouts>>
    BY DEF TypeOK, Receive
  <1>2. Held(s)' = Held(s) /\ Held(s) \subseteq {lock}
    BY <1>1 DEF Held
  <1>3. Apart(s)'
    BY <1>1, <1>2 DEF Told, Apart, Same
  <1>4. CASE answer[s] = "done"
    <2>1. job'[s] = job[s] + 1
      BY <1>4 DEF Receive, TypeOK
    <2>2. /\ \A m \in net \cup Held(s) : m.session = s =>
                m.job \in Nat /\ m.job <= job[s] /\ m.try <= timeouts[s]
          /\ \A n \in DOMAIN ran[account[s]] :
                ran[account[s]][n].session = s =>
                   /\ ran[account[s]][n].job \in Nat
                   /\ ran[account[s]][n].job <= job[s]
                   /\ ran[account[s]][n].try <= timeouts[s]
      BY ToldTypes DEF Told, Behind, Held
    <2>3. /\ \A m \in net \cup Held(s) : m.session = s =>
                m.job <= job'[s] /\ m.job # job'[s]
          /\ \A n \in DOMAIN ran[account[s]] :
                ran[account[s]][n].session = s =>
                   /\ ran[account[s]][n].job <= job'[s]
                   /\ ran[account[s]][n].job # job'[s]
      BY <1>1, <2>1, <2>2
    <2>4. Behind(s)'
      BY <1>1, <1>2, <2>2, <2>3 DEF Behind
    <2>5. NotYet(s)'
      BY <1>1, <1>2, <2>3 DEF NotYet, Current
    <2>6. Real(s)'
      <3>1. /\ RanCalls(s, job[s]) # {}
            /\ \A j \in Nat \ {0} : j < job[s] => RanCalls(s, j) # {}
        BY <1>4 DEF Told, Real
      <3>2. \A j \in Nat \ {0} : j < job'[s] => j < job[s] \/ j = job[s]
        BY <1>1, <2>1
      <3>3. \A j \in Nat \ {0} : j < job'[s] => RanCalls(s, j) # {}
        BY <3>1, <3>2
      <3>4. \A j : RanCalls(s, j)' = RanCalls(s, j)
        BY <1>1 DEF RanCalls
      <3> QED
        BY <1>1, <3>3, <3>4 DEF Real
    <2> QED
      BY <1>3, <2>4, <2>5, <2>6 DEF Told
  <1>5. CASE answer[s] # "done"
    <2>1. job' = job
      BY <1>5 DEF Receive
    <2>2. Behind(s)'
      BY <1>1, <1>2, <2>1 DEF Told, Behind
    <2>3. NotYet(s)'
      BY <1>1, <1>2, <1>5, <2>1 DEF Told, NotYet, Current
    <2>4. Real(s)'
      BY <1>1, <2>1 DEF Told, Real, RanCalls
    <2> QED
      BY <1>3, <2>2, <2>3, <2>4 DEF Told
  <1> QED
    BY <1>4, <1>5

\* Who is answered: the session itself if it waits for just this request.
LEMMA AnsweredOnlyIf ==
    ASSUME TypeOK, NEW s \in Session, NEW m \in Request, NEW res
    PROVE  \/ Answered(m, res)[s] = answer[s]
           \/ /\ Answered(m, res)[s] = res
              /\ pc[s] = "wait" /\ m.session = s /\ Current(m, s)
  <1>1. CASE pc[m.session] = "wait" /\ m = Sent(m.session)
    BY <1>1 DEF Answered, TypeOK, Current, Sent
  <1>2. CASE ~(pc[m.session] = "wait" /\ m = Sent(m.session))
    BY <1>2 DEF Answered
  <1> QED
    BY <1>1, <1>2

\* A request that is turned down was the only one for its call.
LEMMA ToldRefused ==
    ASSUME TypeOK, NEW s \in Session, Told(s), NEW m \in net,
           NEW res, res \notin {"none", "done"},
           lock = Free, UNCHANGED <<lock, ran, pc, job, timeouts>>,
           net' = net \ {m}, answer' = Answered(m, res)
    PROVE  Told(s)'
  <1>1. m \in Request
    BY DEF TypeOK
  <1>2. CASE answer'[s] = answer[s]
    BY <1>2, ToldKept
  <1>3. CASE answer'[s] = res /\ pc[s] = "wait" /\ Current(m, s)
    <2>1. Held(s) = {} /\ Held(s)' = {}
      BY DEF Held
    <2>2. m.session = s /\ \A k : Current(k, s) => Same(m, k)
      BY <1>3 DEF Current, Same
    <2>3. Behind(s)'
      BY <2>1 DEF Told, Behind
    <2>4. Apart(s)'
      BY <2>1 DEF Told, Apart, Same
    <2>5. \A k \in net' : ~Current(k, s)
      BY <2>2 DEF Told, Apart
    <2>6. \A n \in DOMAIN ran[account[s]] : ~Current(ran[account[s]][n], s)
      BY <2>2 DEF Told, Apart
    <2>7. NotYet(s)'
      BY <2>1, <2>5, <2>6 DEF NotYet, Current
    <2>8. Real(s)'
      BY <1>3 DEF Told, Real, RanCalls
    <2> QED
      BY <2>3, <2>4, <2>7, <2>8 DEF Told
  <1> QED
    BY <1>1, <1>2, <1>3, AnsweredOnlyIf

\* A request that is let in is still under way, and still the only one.
LEMMA ToldLetIn ==
    ASSUME TypeOK, NEW s \in Session, Told(s), NEW m \in net,
           lock = Free, lock' = m, UNCHANGED <<ran, pc, job, timeouts, answer>>,
           net' = net \ {m}
    PROVE  Told(s)'
  <1>1. m \in net /\ \A k \in Held(s)' : k = m /\ k.session = s
    BY DEF Held
  <1>2. Held(s) = {}
    BY DEF Held
  <1>3. net' \cup Held(s)' \subseteq net
    BY <1>1
  <1>4. Behind(s)'
    BY <1>3 DEF Told, Behind
  <1>5. Apart(s)'
    <2>1. \A k \in net', l \in Held(s)' : ~Same(k, l)
      BY <1>1 DEF Told, Apart, Same
    <2> QED
      BY <1>3, <2>1 DEF Told, Apart, Same
  <1>6. NotYet(s)'
    BY <1>3 DEF Told, NotYet, Current
  <1>7. Real(s)'
    BY DEF Told, Real, RanCalls
  <1> QED
    BY <1>4, <1>5, <1>6, <1>7 DEF Told

\* The two ways in which a request enters the node.
LEMMA ToldEnter ==
    ASSUME TypeOK, NEW s \in Session, Told(s), NEW m \in net, Enter(m)
    PROVE  Told(s)'
  <1>1. /\ lock = Free /\ net' = net \ {m}
        /\ UNCHANGED <<ran, pc, job, timeouts>>
    BY DEF Enter, client
  <1>2. CASE lock' = m /\ UNCHANGED answer
    BY <1>1, <1>2, ToldLetIn
  <1>3. CASE UNCHANGED lock /\ answer' = Answered(m, "ErrRes")
    BY <1>1, <1>3, ToldRefused
  <1>4. CASE UNCHANGED lock /\ answer' = Answered(m, "ErrNonce")
    BY <1>1, <1>4, ToldRefused
  <1> QED
    BY <1>2, <1>3, <1>4 DEF Enter, Refused

\* A call that panics has not run and will not.
LEMMA ToldPanic ==
    ASSUME TypeOK, NEW s \in Session, Told(s), Panic
    PROVE  Told(s)'
  <1>1. /\ lock \in Request /\ lock # Free /\ lock' = Free
        /\ answer' = Answered(lock, "panic")
        /\ UNCHANGED <<net, ran, pc, job, timeouts>>
    BY DEF Panic, Unlocked, client, TypeOK
  <1>2. Held(s)' = {}
    BY <1>1 DEF Held
  <1>3. Behind(s)'
    BY <1>1, <1>2 DEF Told, Behind
  <1>4. Apart(s)'
    BY <1>1, <1>2 DEF Told, Apart, Same
  <1>5. answer'[s] # "done" \/ answer'[s] = answer[s]
    BY <1>1, AnsweredOnlyIf
  <1>6. Real(s)'
    BY <1>1, <1>5 DEF Told, Real, RanCalls
  <1>7. NotYet(s)'
    <2>1. CASE answer'[s] = answer[s]
      BY <1>1, <1>2, <2>1 DEF Told, NotYet, Current
    <2>2. CASE lock.session = s /\ Current(lock, s)
      <3>1. lock \in Held(s)
        BY <1>1, <2>2 DEF Held
      <3>2. \A k : Current(k, s) => Same(k, lock) /\ Same(lock, k)
        BY <2>2 DEF Current, Same
      <3>3. \A k \in net : ~Current(k, s)
        BY <3>1, <3>2 DEF Told, Apart
      <3>4. \A n \in DOMAIN ran[account[s]] : ~Current(ran[account[s]][n], s)
        BY <2>2, <3>1, <3>2 DEF Told, Apart
      <3> QED
        BY <1>1, <1>2, <3>3, <3>4 DEF NotYet, Current
    <2> QED
      BY <1>1, <2>1, <2>2, AnsweredOnlyIf
  <1> QED
    BY <1>3, <1>4, <1>6, <1>7 DEF Told

\* What has run for the account of s after a call finishes: what had run, and
\* the call if it is for that account.
LEMMA FinishAdds ==
    ASSUME TypeOK, NEW s \in Session, Finish
    PROVE  /\ \A n \in DOMAIN ran[account[s]] :
                 /\ n \in DOMAIN ran'[account[s]]
                 /\ ran'[account[s]][n] = ran[account[s]][n]
           /\ \A n \in DOMAIN ran'[account[s]] :
                 n \in DOMAIN ran[account[s]] \/ ran'[account[s]][n] = lock
           /\ \A n, k \in DOMAIN ran'[account[s]] :
                 n \notin DOMAIN ran[account[s]]
                 /\ k \notin DOMAIN ran[account[s]] => n = k
           /\ lock.session = s =>
                 \E n \in DOMAIN ran'[account[s]] : ran'[account[s]][n] = lock
  <1>1. /\ lock \in Request /\ account[s] \in Account
        /\ account[lock.session] \in Account
        /\ ran \in [Account -> Seq(Request)]
    BY NodeAssumption DEF Finish, TypeOK, Request
  <1>2. PICK R \in Seq(Request) : R = ran[account[s]]
    BY <1>1
  <1>3. CASE account[lock.session] # account[s]
    <2>1. ran'[account[s]] = R
      BY <1>1, <1>2, <1>3 DEF Finish
    <2> QED
      BY <1>2, <1>3, <2>1
  <1>4. CASE account[lock.session] = account[s]
    <2>1. ran'[account[s]] = Append(R, lock)
      BY <1>1, <1>2, <1>4 DEF Finish
    <2>2. DOMAIN R = 1..Len(R) /\ Len(R) \in Nat
      BY <1>2
    <2>3. DOMAIN Append(R, lock) = 1..Len(R) + 1
      BY <1>1, <1>2
    <2>4. /\ \A n \in 1..Len(R) : Append(R, lock)[n] = R[n]
          /\ Append(R, lock)[Len(R) + 1] = lock
      BY <1>1, <1>2
    <2>5. /\ \A n \in 1..Len(R) : n \in 1..Len(R) + 1
          /\ \A n \in 1..Len(R) + 1 : n \in 1..Len(R) \/ n = Len(R) + 1
          /\ Len(R) + 1 \in 1..Len(R) + 1
      BY <2>2
    <2> QED
      BY <1>2, <2>1, <2>2, <2>3, <2>4, <2>5
  <1> QED
    BY <1>3, <1>4

\* The call that held the lock has run, and its session is told if it waits.
LEMMA ToldFinish ==
    ASSUME TypeOK, NEW s \in Session, Told(s), Finish
    PROVE  Told(s)'
  <1> DEFINE Old == ran[account[s]]
             New == ran'[account[s]]
  <1>1. /\ lock \in Request /\ lock # Free /\ lock' = Free
        /\ answer' = Answered(lock, "done")
        /\ UNCHANGED <<net, pc, job, timeouts>>
    BY DEF Finish, client, TypeOK
  <1>2. Held(s)' = {} /\ (lock.session = s => lock \in Held(s))
    BY <1>1 DEF Held
  <1>3. /\ \A n \in DOMAIN Old : n \in DOMAIN New /\ New[n] = Old[n]
        /\ \A n \in DOMAIN New : n \in DOMAIN Old \/ New[n] = lock
        /\ \A n, k \in DOMAIN New :
              n \notin DOMAIN Old /\ k \notin DOMAIN Old => n = k
        /\ lock.session = s => \E n \in DOMAIN New : New[n] = lock
    BY FinishAdds
  <1>4. /\ \A n \in DOMAIN Old : lock.session = s => ~Same(lock, Old[n])
        /\ \A m \in net : lock.session = s => ~Same(m, lock)
        /\ lock.session = s => lock.job <= job[s] /\ lock.try <= timeouts[s]
    BY <1>2 DEF Told, Apart, Behind
  <1>5. Behind(s)'
    <2>1. \A n \in DOMAIN New : New[n].session = s =>
             New[n].job <= job[s] /\ New[n].try <= timeouts[s]
      BY <1>3, <1>4 DEF Told, Behind
    <2> QED
      BY <1>1, <1>2, <2>1 DEF Told, Behind
  <1>6. Apart(s)'
    <2>1. ASSUME NEW m \in net, m.session = s, NEW n \in DOMAIN New
          PROVE  ~Same(m, New[n])
      <3>1. CASE n \in DOMAIN Old
        BY <1>3, <2>1, <3>1 DEF Told, Apart
      <3>2. CASE New[n] = lock
        BY <1>4, <2>1, <3>2 DEF Same
      <3> QED
        BY <1>3, <3>1, <3>2
    <2>2. ASSUME NEW n \in DOMAIN New, NEW k \in DOMAIN New,
                 New[n].session = s, Same(New[n], New[k])
          PROVE  n = k
      <3>1. CASE n \in DOMAIN Old /\ k \in DOMAIN Old
        <4>1. Old[n].session = s /\ Same(Old[n], Old[k])
          BY <1>3, <2>2, <3>1
        <4> QED
          BY <3>1, <4>1 DEF Told, Apart
      <3>2. CASE n \in DOMAIN Old /\ k \notin DOMAIN Old
        <4>1. New[k] = lock /\ New[n] = Old[n]
          BY <1>3, <3>2
        <4> QED
          BY <1>4, <2>2, <3>2, <4>1 DEF Same
      <3>3. CASE n \notin DOMAIN Old /\ k \in DOMAIN Old
        <4>1. New[n] = lock /\ New[k] = Old[k]
          BY <1>3, <3>3
        <4> QED
          BY <1>4, <2>2, <3>3, <4>1 DEF Same
      <3>4. CASE n \notin DOMAIN Old /\ k \notin DOMAIN Old
        BY <1>3, <3>4
      <3> QED
        BY <3>1, <3>2, <3>3, <3>4
    <2>3. \A m, k \in net : m.session = s /\ Same(m, k) => m = k
      BY DEF Told, Apart
    <2> QED
      BY <1>1, <1>2, <2>1, <2>2, <2>3 DEF Apart, Same
  <1>7. \A j : RanCalls(s, j) \subseteq RanCalls(s, j)'
    BY <1>3 DEF RanCalls
  <1>8. \/ answer'[s] = answer[s]
        \/ /\ answer'[s] = "done" /\ pc[s] = "wait"
           /\ lock.session = s /\ Current(lock, s)
    BY <1>1, AnsweredOnlyIf
  <1>9. CASE answer'[s] = answer[s]
    <2>1. NotYet(s)'
      <3>1. pc[s] # "wait" \/ answer[s] # "none" => \A m \in net : ~Current(m, s)
        BY DEF Told, NotYet
      <3>2. ASSUME pc[s] # "wait" \/ answer[s] \notin {"none", "done"},
                   NEW n \in DOMAIN New
            PROVE  ~Current(New[n], s)
        <4>1. ~Current(lock, s)
          BY <1>2, <3>2 DEF Told, NotYet, Current
        <4>2. \A k \in DOMAIN Old : ~Current(Old[k], s)
          BY <3>2 DEF Told, NotYet
        <4> QED
          BY <1>3, <4>1, <4>2
      <3> QED
        BY <1>1, <1>2, <1>9, <3>1, <3>2 DEF NotYet, Current
    <2>2. Real(s)'
      <3>1. /\ answer[s] = "done" => RanCalls(s, job[s]) # {}
            /\ \A j \in Nat \ {0} : j < job[s] => RanCalls(s, j) # {}
        BY DEF Told, Real
      <3>2. /\ answer[s] = "done" => RanCalls(s, job[s])' # {}
            /\ \A j \in Nat \ {0} : j < job[s] => RanCalls(s, j)' # {}
        <4>1. RanCalls(s, job[s]) \subseteq RanCalls(s, job[s])'
          BY <1>1, <1>3 DEF RanCalls
        <4> QED
          BY <3>1, <1>7, <4>1
      <3> QED
        BY <1>1, <1>9, <3>2 DEF Real
    <2> QED
      BY <1>5, <1>6, <2>1, <2>2 DEF Told
  <1>10. CASE /\ answer'[s] = "done" /\ pc[s] = "wait"
              /\ lock.session = s /\ Current(lock, s)
    <2>1. NotYet(s)'
      <3>1. \A m \in net : ~Current(m, s)
        BY <1>4, <1>10 DEF Current, Same
      <3> QED
        BY <1>1, <1>2, <1>10, <3>1 DEF NotYet, Current
    <2>2. Real(s)'
      <3>1. RanCalls(s, job[s])' # {}
        BY <1>1, <1>3, <1>10 DEF RanCalls, Current
      <3>2. \A j \in Nat \ {0} : j < job[s] => RanCalls(s, j)' # {}
        BY <1>7 DEF Told, Real
      <3> QED
        BY <1>1, <3>1, <3>2 DEF Real
    <2> QED
      BY <1>5, <1>6, <2>1, <2>2 DEF Told
  <1> QED
    BY <1>8, <1>9, <1>10

\* The steps of any client, for the session s.
LEMMA ToldClient ==
    ASSUME TypeOK, NEW s \in Session, Told(s), NEW r \in Session,
           GetNonce(r) \/ Send(r) \/ Receive(r) \/ Timeout(r)
    PROVE  Told(s)'
  <1>1. CASE r = s /\ ~GetNonce(s)
    BY <1>1, ToldSend, ToldReceive, ToldTimeout
  <1>2. CASE r = s /\ GetNonce(s)
    <2>1. /\ UNCHANGED <<lock, ran, net, job, timeouts, answer>>
          /\ pc[s] # "wait"
      BY <1>2 DEF GetNonce
    <2> QED
      BY <2>1, ToldKept
  <1>3. CASE r # s
    <2>1. /\ UNCHANGED <<lock, ran>>
          /\ pc'[s] = pc[s] /\ job'[s] = job[s]
          /\ timeouts'[s] = timeouts[s] /\ answer'[s] = answer[s]
      BY <1>3 DEF GetNonce, Send, Receive, Timeout, TypeOK
    <2>2. \A m \in net' : m \in net \/ m.session # s
      BY <1>3 DEF GetNonce, Send, Receive, Timeout, Sent
    <2> QED
      BY <2>1, <2>2, ToldKept
  <1> QED
    BY <1>1, <1>2, <1>3

\* Every step keeps what the sessions were told true.
LEMMA StepTold == TypeOK /\ ToldInv /\ [Next]_vars => ToldInv'
  <1> SUFFICES ASSUME TypeOK, ToldInv, [Next]_vars, crashes' = 0,
                      NEW s \in Session
               PROVE  Told(s)'
    BY DEF ToldInv
  <1>1. ~Crash
    BY DEF Crash, TypeOK
  <1>2. Told(s)
    <2>1. crashes = 0
      BY <1>1 DEF Next, GetNonce, Send, Receive, Timeout, Lose, Enter, Finish,
                  Panic, vars
    <2> QED
      BY <2>1 DEF ToldInv
  <1>3. ASSUME NEW r \in Session,
               GetNonce(r) \/ Send(r) \/ Receive(r) \/ Timeout(r)
        PROVE  Told(s)'
    BY <1>2, <1>3, ToldClient
  <1>4. CASE Lose
    <2>1. /\ UNCHANGED <<lock, ran, pc, job, timeouts>>
          /\ net' \subseteq net
      BY <1>4 DEF Lose
    <2>2. \/ answer'[s] = answer[s]
          \/ answer'[s] = "none" /\ pc[s] = "wait"
      BY <1>4 DEF Lose, TypeOK
    <2> QED
      BY <1>2, <2>1, <2>2, ToldKept
  <1>5. ASSUME NEW m \in net, Enter(m) PROVE Told(s)'
    BY <1>2, <1>5, ToldEnter
  <1>6. CASE Finish
    BY <1>2, <1>6, ToldFinish
  <1>7. CASE Panic
    BY <1>2, <1>7, ToldPanic
  <1>8. CASE UNCHANGED vars
    <2>1. UNCHANGED <<lock, ran, net, pc, job, timeouts, answer>>
      BY <1>8 DEF vars
    <2> QED
      BY <1>2, <2>1, ToldKept
  <1> QED
    BY <1>1, <1>3, <1>4, <1>5, <1>6, <1>7, <1>8 DEF Next

\* The calls of session s for one of its jobs that have run are as many as
\* its tries at most: no two of them were made in one try.
LEMMA RunsPerTry ==
    ASSUME TypeOK, NEW s \in Session, Told(s), NEW j
    PROVE  Cardinality(RanCalls(s, j)) <= 1 + timeouts[s]
  <1>1. timeouts[s] \in Nat
    BY ToldTypes
  <1>2. \A n \in RanCalls(s, j) : ran[account[s]][n].try \in 0..timeouts[s]
    <2>1. ASSUME NEW n \in RanCalls(s, j)
          PROVE  ran[account[s]][n].try \in 0..timeouts[s]
      <3>1. n \in DOMAIN ran[account[s]] /\ ran[account[s]][n].session = s
        BY DEF RanCalls
      <3>2. ran[account[s]][n].try \in Nat
        BY <3>1, ToldTypes
      <3>3. ran[account[s]][n].try <= timeouts[s]
        BY <3>1 DEF Told, Behind
      <3> QED
        BY <1>1, <3>2, <3>3
    <2> QED
      BY <2>1
  <1>3. PICK f : f = [n \in RanCalls(s, j) |-> ran[account[s]][n].try]
    OBVIOUS
  <1>4. f \in [RanCalls(s, j) -> 0..timeouts[s]]
    BY <1>2, <1>3
  <1>5. \A n, k \in RanCalls(s, j) : f[n] = f[k] => n = k
    BY <1>3 DEF RanCalls, Told, Apart, Same
  <1>6. f \in Injection(RanCalls(s, j), 0..timeouts[s])
    BY <1>4, <1>5 DEF Injection, IsInjective
  <1>7. /\ IsFiniteSet(0..timeouts[s])
        /\ Cardinality(0..timeouts[s]) = 1 + timeouts[s]
    BY SMTT(30), <1>1, FS_Interval
  <1> QED
    BY <1>6, <1>7, FS_Injection

\* Until a crash, a session that goes on to its next call has had the one
\* before run, and none of its calls runs more often than the session has
\* made it (node.go:92-106): what the node answers without an error has run.
THEOREM NodeDoneMeansRan == Spec => []DoneMeansRan
  <1>1. Init => ToldInv
    <2>1. Init => TypeOK
      BY InitNodeInv DEF NodeInv
    <2>2. ASSUME Init, NEW s \in Session PROVE Told(s)
      <3>1. /\ net = {} /\ Held(s) = {} /\ DOMAIN ran[account[s]] = {}
            /\ answer[s] = "none" /\ job[s] = 1
        BY <2>2, NodeAssumption DEF Init, Held
      <3>2. Behind(s) /\ Apart(s) /\ NotYet(s)
        BY <3>1 DEF Behind, Apart, NotYet
      <3>3. Real(s)
        BY <3>1 DEF Real
      <3> QED
        BY <3>2, <3>3 DEF Told
    <2> QED
      BY <2>2 DEF ToldInv
  <1>2. TypeOK /\ ToldInv => DoneMeansRan
    <2> SUFFICES ASSUME TypeOK, ToldInv, crashes = 0, NEW s \in Session,
                        NEW j \in DOMAIN Jobs[s]
                 PROVE  /\ j < job[s] => RanCalls(s, j) # {}
                        /\ Cardinality(RanCalls(s, j)) <= 1 + timeouts[s]
      BY DEF DoneMeansRan
    <2>1. Told(s)
      BY DEF ToldInv
    <2>2. j \in Nat \ {0}
      <3>1. Jobs[s] \in Seq(Kind)
        BY NodeAssumption
      <3> QED
        BY <3>1
    <2> QED
      BY <2>1, <2>2, RunsPerTry DEF Told, Real
  <1> QED
    BY <1>1, <1>2, NodeTypes, StepTold, PTL DEF Spec
=============================================================================
