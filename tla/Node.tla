-------------------------------- MODULE Node --------------------------------
(***************************************************************************)
(* The server node (server/impl/node): every call that changes anything    *)
(* takes the node's lock, counts the caller's nonce up, compares the nonce *)
(* it was signed for, and then runs one contract call.  Clients read the   *)
(* nonce, without the lock, sign a call for it and send it.                *)
(*                                                                         *)
(* Clients and the network are the environment: a session makes its calls  *)
(* one after the other, requests and answers may be lost, a client may     *)
(* give up on a call that is still on its way, and then either sends the   *)
(* same signed call again or reads the nonce anew.  Signatures are taken   *)
(* as valid.  What the contract call does is the matter of the other       *)
(* modules; here it is recorded as having run.                             *)
(*                                                                         *)
(* The node keeps everything in memory, so a crash loses it all.           *)
(***************************************************************************)
EXTENDS Integers, Sequences, FiniteSets

CONSTANTS
    Account,
    Session,        \* client sessions
    account,        \* account[s]: the account of session s
    Jobs,           \* Jobs[s]: the kinds of call session s makes, in order
    MaxLost,        \* bound: lost requests and answers
    MaxEarly,       \* bound: timeouts of calls that are still on their way
    MaxSoon,        \* bound: calls of a role manager that is not there yet
    MaxCrash        \* bound: crashes of the node

\* "create" registers a token with the node and "erc" calls that token;
\* "manager" creates the role manager and "role" calls it.
Kind == {"create", "erc", "manager", "role"}

ASSUME NodeAssumption ==
    /\ account \in [Session -> Account]
    /\ Jobs \in [Session -> Seq(Kind)]
    /\ MaxLost \in Nat /\ MaxEarly \in Nat
    /\ MaxSoon \in Nat /\ MaxCrash \in Nat

Free == [session |-> "none"]   \* no call holds the lock

VARIABLES
    nonceMap,   \* nonceMap[a]; 0 for a missing entry, as the code reads it
    ercMap,     \* whether the token is registered with the node
    rm,         \* whether there is a role manager
    lock,       \* the request that holds the write lock, or Free
    ran,        \* history: ran[a], the calls run for account a, in order
    net,        \* requests on their way, those waiting for the lock included
    pc,         \* pc[s]: "idle", "ready" (nonce read) or "wait" (call sent)
    uid,        \* uid[s]: the nonce session s signs for
    job,        \* job[s]: the call session s is at
    answer,     \* answer[s]: what the node answered to the current call
    timeouts,   \* timeouts[s]: how often s has given up on a call
    lost, early, soon, crashes

client == <<pc, uid, job, timeouts, lost, early, soon>>
vars == <<nonceMap, ercMap, rm, lock, ran, net, pc, uid, job, answer, timeouts,
          lost, early, soon, crashes>>

Init ==
    /\ nonceMap = [a \in Account |-> 0]
    /\ ercMap = FALSE
    /\ rm = FALSE
    /\ lock = Free
    /\ ran = [a \in Account |-> <<>>]
    /\ net = {}
    /\ pc = [s \in Session |-> "idle"]
    /\ uid = [s \in Session |-> 0]
    /\ job = [s \in Session |-> 1]
    /\ answer = [s \in Session |-> "none"]
    /\ timeouts = [s \in Session |-> 0]
    /\ lost = 0 /\ early = 0 /\ soon = 0 /\ crashes = 0

(***************************************************************************)
(* Clients                                                                 *)
(***************************************************************************)
\* A request remembers how often its session had timed out when it was sent.
Sent(s) == [session |-> s, uid |-> uid[s], job |-> job[s],
            try |-> timeouts[s]]

KindOf(m) == Jobs[m.session][m.job]

\* GetNonce does not take the lock: it may see the nonce of a call that is
\* still running.
GetNonce(s) ==
    /\ pc[s] = "idle"
    /\ job[s] \in DOMAIN Jobs[s]
    /\ uid' = [uid EXCEPT ![s] = nonceMap[account[s]]]
    /\ pc' = [pc EXCEPT ![s] = "ready"]
    /\ UNCHANGED <<nonceMap, ercMap, rm, lock, ran, net, job, answer,
                   timeouts, lost, early, soon, crashes>>

Send(s) ==
    /\ pc[s] = "ready"
    /\ net' = net \cup {Sent(s)}
    /\ pc' = [pc EXCEPT ![s] = "wait"]
    /\ soon' = IF Jobs[s][job[s]] = "role" /\ ~rm THEN soon + 1 ELSE soon
    /\ soon' <= MaxSoon
    /\ UNCHANGED <<nonceMap, ercMap, rm, lock, ran, uid, job, answer,
                   timeouts, lost, early, crashes>>

\* Whatever the contract call returned, the session goes on to its next one;
\* a call the node has turned down is made again with a new nonce.
Receive(s) ==
    /\ answer[s] # "none"
    /\ answer' = [answer EXCEPT ![s] = "none"]
    /\ job' = IF answer[s] = "done" THEN [job EXCEPT ![s] = @ + 1] ELSE job
    /\ pc' = [pc EXCEPT ![s] = "idle"]
    /\ UNCHANGED <<nonceMap, ercMap, rm, lock, ran, net, uid, timeouts, lost,
                   early, soon, crashes>>

Pending(s) == Sent(s) \in net \/ Sent(s) = lock \/ answer[s] # "none"

Timeout(s) ==
    /\ pc[s] = "wait"
    /\ answer[s] = "none"
    /\ early' = IF Pending(s) THEN early + 1 ELSE early
    /\ early' <= MaxEarly
    /\ timeouts' = [timeouts EXCEPT ![s] = @ + 1]
    /\ \E next \in {"ready", "idle"} : pc' = [pc EXCEPT ![s] = next]
    /\ UNCHANGED <<nonceMap, ercMap, rm, lock, ran, net, uid, job, answer,
                   lost, soon, crashes>>

Lose ==
    /\ lost < MaxLost
    /\ lost' = lost + 1
    /\ \/ \E m \in net : net' = net \ {m} /\ UNCHANGED answer
       \/ \E s \in Session : /\ answer[s] # "none"
                             /\ answer' = [answer EXCEPT ![s] = "none"]
                             /\ UNCHANGED net
    /\ UNCHANGED <<nonceMap, ercMap, rm, lock, ran, pc, uid, job, timeouts,
                   early, soon, crashes>>

(***************************************************************************)
(* The node                                                                *)
(***************************************************************************)
\* A client that has given up on the request does not see its answer.
Answered(m, res) ==
    IF pc[m.session] = "wait" /\ m = Sent(m.session)
    THEN [answer EXCEPT ![m.session] = res] ELSE answer

\* A token call looks its token up before the nonce is counted.
UnknownToken(m) == KindOf(m) = "erc" /\ ~ercMap

\* Faulty variant: a nonce that was already used is accepted.
NonceFitsOld(m) == m.uid <= nonceMap[account[m.session]]

\* Faulty variant: the nonce is compared after it was counted.
NonceFitsNext(m) == m.uid = nonceMap[account[m.session]] + 1

NonceFits(m) == m.uid = nonceMap[account[m.session]]

\* Faulty variant: a nonce that does not fit is given back.
CountedBack(m) == IF NonceFits(m) THEN nonceMap[account[m.session]] + 1
                  ELSE nonceMap[account[m.session]] - 1

\* getAndIncNonce counts the nonce whether or not it fits.
Counted(m) == nonceMap[account[m.session]] + 1

\* Faulty variant: the handler returns without an error.
RefusedSilently == "done"

Refused == "ErrNonce"

\* The handler up to the comparison of nonces, under the lock.
Enter(m) ==
    /\ lock = Free
    /\ m \in net
    /\ net' = net \ {m}
    /\ IF UnknownToken(m)
       THEN /\ answer' = Answered(m, "ErrRes")
            /\ UNCHANGED <<nonceMap, lock>>
       ELSE /\ nonceMap' = [nonceMap EXCEPT ![account[m.session]] = Counted(m)]
            /\ IF NonceFits(m)
               THEN lock' = m /\ UNCHANGED answer
               ELSE answer' = Answered(m, Refused) /\ UNCHANGED lock
    /\ UNCHANGED <<ercMap, rm, ran, crashes>>
    /\ UNCHANGED client

\* A call of the role manager before there is one dereferences nil.
Panics(m) == KindOf(m) = "role" /\ ~rm

\* The contract call, and the deferred Unlock.
Finish ==
    /\ lock # Free
    /\ ~Panics(lock)
    /\ ran' = [ran EXCEPT ![account[lock.session]] = Append(@, lock)]
    /\ ercMap' = (ercMap \/ KindOf(lock) = "create")
    /\ rm' = (rm \/ KindOf(lock) = "manager")
    /\ answer' = Answered(lock, "done")
    /\ lock' = Free
    /\ UNCHANGED <<nonceMap, net, crashes>>
    /\ UNCHANGED client

\* Faulty variant: Unlock is called at the end instead of deferred.
StillLocked == lock

\* The deferred Unlock runs also when the handler panics.
Unlocked == Free

\* The RPC server turns the panic into an error; the nonce has been counted.
Panic ==
    /\ lock # Free
    /\ Panics(lock)
    /\ answer' = Answered(lock, "panic")
    /\ lock' = Unlocked
    /\ UNCHANGED <<nonceMap, ercMap, rm, ran, net, crashes>>
    /\ UNCHANGED client

\* The process ends and is started again; requests that wait for its lock
\* are lost with their connections.
Crash ==
    /\ crashes < MaxCrash
    /\ crashes' = crashes + 1
    /\ nonceMap' = [a \in Account |-> 0]
    /\ ercMap' = FALSE
    /\ rm' = FALSE
    /\ lock' = Free
    /\ ran' = [a \in Account |-> <<>>]
    /\ net' \in SUBSET net
    /\ answer' = answer
    /\ UNCHANGED client

Next ==
    \/ \E s \in Session : GetNonce(s) \/ Send(s) \/ Receive(s) \/ Timeout(s)
    \/ Lose
    \/ \E m \in net : Enter(m)
    \/ Finish
    \/ Panic
    \/ Crash

\* A client goes on with its calls.  sync.RWMutex hands the lock to a writer
\* that has waited, so no request waits for ever while others come and go.
Fairness ==
    /\ \A s \in Session : WF_vars(GetNonce(s)) /\ WF_vars(Send(s))
                          /\ WF_vars(Receive(s)) /\ WF_vars(Timeout(s))
    /\ \A s \in Session : SF_vars(\E m \in net : m.session = s /\ Enter(m))
    /\ WF_vars(Finish) /\ WF_vars(Panic)

Spec == Init /\ [][Next]_vars /\ Fairness

(***************************************************************************)
(* Properties                                                              *)
(***************************************************************************)
Answer  == {"none", "ErrNonce", "ErrRes", "panic", "done"}
Request == [session : Session, uid : Nat, job : Nat \ {0}, try : Nat]

\* Types; only a client that waits has an answer coming.
TypeOK ==
    /\ nonceMap \in [Account -> Nat]
    /\ ercMap \in BOOLEAN /\ rm \in BOOLEAN
    /\ lock \in Request \cup {Free}
    /\ ran \in [Account -> Seq(Request)]
    /\ net \subseteq Request
    /\ pc \in [Session -> {"idle", "ready", "wait"}]
    /\ uid \in [Session -> Nat]
    /\ job \in [Session -> Nat \ {0}]
    /\ answer \in [Session -> Answer]
    /\ timeouts \in [Session -> Nat]
    /\ lost \in Nat /\ early \in Nat /\ soon \in Nat /\ crashes \in Nat
    /\ \A s \in Session : answer[s] # "none" => pc[s] = "wait"

RanCalls(s, j) == {n \in DOMAIN ran[account[s]] :
                     /\ ran[account[s]][n].session = s
                     /\ ran[account[s]][n].job = j}

\* A client told "done" can rely on it: its call has run, and it runs again
\* only if the client itself gave up on it and made it anew.
DoneMeansRan ==
    crashes = 0 =>
        \A s \in Session : \A j \in DOMAIN Jobs[s] :
            /\ j < job[s] => RanCalls(s, j) # {}
            /\ Cardinality(RanCalls(s, j)) <= 1 + timeouts[s]

\* A session that is alone on its account and never had to give up on a call.
Alone(s) == /\ timeouts[s] = 0
            /\ \A r \in Session \ {s} : account[r] # account[s]

\* Such a session is never told ErrNonce: the nonce it read is still the one
\* expected when its call arrives, also after a call that failed or panicked.
AloneFits ==
    crashes = 0 => \A s \in Session : Alone(s) => answer[s] # "ErrNonce"

Last(a) == IF ran[a] = <<>> THEN -1 ELSE ran[a][Len(ran[a])].uid

\* The node runs the calls of an account under ever higher nonces: sending a
\* signed call again, or two calls for one nonce, has no second effect.
Order == INSTANCE NonceOrder
            WITH last <- [a \in Account |-> Last(a)],
                 runs <- [a \in Account |-> Len(ran[a])]
OncePerNonce == Order!Spec

\* If every account has one session and the node does not crash, each session
\* gets through all its calls, though losses and early timeouts leave calls
\* behind that use up nonces, and calls made too early fail or panic.
AllDone ==
    (\A s, r \in Session : s # r => account[s] # account[r])
      => \/ <>(crashes > 0)
         \/ <>(\A s \in Session : job[s] > Len(Jobs[s]))
=============================================================================
