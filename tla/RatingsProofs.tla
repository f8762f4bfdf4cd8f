---------------------------- MODULE RatingsProofs ----------------------------
(* Proofs about Ratings, for every set of shipments, stars and requests and *)
(* every function Average.  The profile lock makes each average current     *)
(* when it commits (Claims), and from that every commit is a step of the    *)
(* rating book.                                                             *)
EXTENDS Ratings, TLAPS

USE RatingsAssumption

\* An average the code computes is one of Averages.
LEMMA MeanTyped ==
    ASSUME NEW r \in [Shipments -> Stars \cup {None}], NEW c
    PROVE  MeanFor(r, c) \in Averages
<1>1. RatingsFor(r, c) \in SUBSET (Shipments \X Stars)
  BY DEF RatingsFor
<1> QED
  BY <1>1 DEF MeanFor, Averages

\* A rating of another captain's shipment leaves this captain's average.
LEMMA OthersMean ==
    ASSUME NEW r \in [Shipments -> Stars \cup {None}],
           NEW s \in Shipments, NEW n \in Stars, NEW c, CaptainOf[s] # c
    PROVE  MeanFor([r EXCEPT ![s] = n], c) = MeanFor(r, c)
<1>1. RatingsFor([r EXCEPT ![s] = n], c) = RatingsFor(r, c)
  BY DEF RatingsFor
<1> QED
  BY <1>1 DEF MeanFor

\* With no rating there is nothing to average.
LEMMA EmptyMean ==
    ASSUME NEW c PROVE MeanFor([s \in Shipments |-> None], c) = Average({})
<1>1. RatingsFor([s \in Shipments |-> None], c) = {}
  BY DEF RatingsFor
<1> QED
  BY <1>1 DEF MeanFor

\* The slots start idle, the averages empty.
LEMMA InitInv == Init => RatingsInv
<1> SUFFICES ASSUME Init PROVE RatingsInv
  OBVIOUS
<1>1. Average({}) \in Averages
  BY DEF Averages
<1>2. TypeOK
  BY <1>1 DEF Init, TypeOK
<1>3. Claims
  BY DEF Init, Claims, Claim, Idle
<1>4. MeanIsCurrent
  BY EmptyMean DEF Init, MeanIsCurrent
<1> QED
  BY <1>2, <1>3, <1>4 DEF RatingsInv

\* A step of other requests that leaves u what it holds leaves its claim.
LEMMA Undisturbed ==
    ASSUME NEW u \in Txns, Claim(u), txn'[u] = txn[u], rating' = rating,
           \A s \in Shipments : key[s] = u => key'[s] = u,
           \A c \in Captains : lock[c] = u => lock'[c] = u,
           txn[u] \in {Idle} \cup Request
    PROVE  Claim(u)'
<1>1. CASE txn[u] = Idle
  BY <1>1 DEF Claim, Idle
<1>2. CASE txn[u] \in Request
  <2>1. txn[u].s \in Shipments /\ CaptainOf[txn[u].s] \in Captains
    BY <1>2 DEF Request, Captains
  <2> QED
    BY <2>1 DEF Claim
<1> QED
  BY <1>1, <1>2

\* Ending a request frees what it claims and nothing that others claim.
LEMMA GivenUp ==
    ASSUME TypeOK, Claims, NEW t \in Txns, GiveUp(t),
           txn' = [txn EXCEPT ![t] = Idle], rating' = rating
    PROVE  /\ key' \in [Shipments -> Txns \cup {None}]
           /\ lock' \in [Captains -> Txns \cup {None}]
           /\ txn' \in [Txns -> {Idle} \cup Request]
           /\ Claims'
<1>1. /\ key' \in [Shipments -> Txns \cup {None}]
      /\ lock' \in [Captains -> Txns \cup {None}]
      /\ txn' \in [Txns -> {Idle} \cup Request]
  BY DEF TypeOK, GiveUp
<1>3. Claims'
  <2> SUFFICES ASSUME NEW u \in Txns PROVE Claim(u)'
    BY DEF Claims
  <2>1. CASE u = t
    BY <2>1 DEF TypeOK, Claim, Idle
  <2>2. CASE u # t
    BY <2>2, Undisturbed DEF TypeOK, Claims, GiveUp
  <2> QED
    BY <2>1, <2>2
<1> QED
  BY <1>1, <1>3

\* Every step keeps the invariant.
LEMMA NextInv == RatingsInv /\ [Next]_vars => RatingsInv'
<1> SUFFICES ASSUME RatingsInv, [Next]_vars PROVE RatingsInv'
  OBVIOUS
<1> USE DEF RatingsInv
<1>1. ASSUME NEW s \in Shipments, Deliver(s) \/ LateMark(s) PROVE RatingsInv'
  BY <1>1 DEF Deliver, LateMark, TypeOK, Claims, Claim, MeanIsCurrent
<1>2. ASSUME NEW t \in Txns, NEW s \in Shipments, NEW n \in Stars, Rate(t, s, n)
      PROVE  RatingsInv'
  <2>1. TypeOK'
    BY <1>2 DEF Rate, TypeOK, Request
  <2>2. Claims'
    <3> SUFFICES ASSUME NEW u \in Txns PROVE Claim(u)'
      BY DEF Claims
    <3>1. CASE txn'[u] = txn[u]
      BY <1>2, <3>1, Undisturbed DEF Rate, TypeOK, Claims
    <3>2. CASE txn'[u] # txn[u]
      BY <1>2, <3>2 DEF Rate, TypeOK, Claim
    <3> QED
      BY <3>1, <3>2
  <2> QED
    BY <1>2, <2>1, <2>2 DEF Rate, MeanIsCurrent
<1>3. ASSUME NEW t \in Txns, Insert(t) PROVE RatingsInv'
  <2>1. txn[t] \in Request
    BY <1>3 DEF Insert, TypeOK, Idle
  <2>2. CASE Rated(txn[t].s)
    <3>1. GiveUp(t) /\ txn' = [txn EXCEPT ![t] = Idle] /\ reply' = "409"
      BY <1>3, <2>2 DEF Insert
    <3> QED
      BY <1>3, <3>1, GivenUp DEF Insert, TypeOK, MeanIsCurrent
  <2>3. CASE ~Rated(txn[t].s)
    <3>1. /\ key[txn[t].s] = None /\ rating[txn[t].s] = None
          /\ key' = [key EXCEPT ![txn[t].s] = t]
          /\ txn' = [txn EXCEPT ![t].pc = "lock"]
          /\ reply' = None /\ UNCHANGED <<delivered, rating, mean, lock>>
      BY <1>3, <2>3 DEF Insert, Rated
    <3>2. TypeOK'
      BY <2>1, <3>1 DEF TypeOK, Request
    <3>3. Claims'
      <4> SUFFICES ASSUME NEW u \in Txns PROVE Claim(u)'
        BY DEF Claims
      <4>1. CASE u = t
        BY <2>1, <3>1, <4>1 DEF TypeOK, Claim, Request
      <4>2. CASE u # t
        BY <2>1, <3>1, <4>2, Undisturbed DEF TypeOK, Claims, Request
      <4> QED
        BY <4>1, <4>2
    <3> QED
      BY <3>1, <3>2, <3>3 DEF MeanIsCurrent
  <2> QED
    BY <2>2, <2>3
<1>4. ASSUME NEW t \in Txns, LockProfile(t) PROVE RatingsInv'
  <2>1. txn[t] \in Request /\ CaptainOf[txn[t].s] \in Captains
    BY <1>4 DEF LockProfile, TypeOK, Idle, Request, Captains
  <2>2. TypeOK'
    BY <1>4, <2>1 DEF LockProfile, TakeProfile, TypeOK, Request
  <2>3. Claims'
    <3> SUFFICES ASSUME NEW u \in Txns PROVE Claim(u)'
      BY DEF Claims
    <3>1. CASE u = t
      BY <1>4, <2>1, <3>1 DEF LockProfile, TakeProfile, TypeOK, Claims, Claim, Request
    <3>2. CASE u # t
      BY <1>4, <2>1, <3>2, Undisturbed DEF LockProfile, TakeProfile, TypeOK, Claims
    <3> QED
      BY <3>1, <3>2
  <2> QED
    BY <1>4, <2>2, <2>3 DEF LockProfile, MeanIsCurrent
<1>5. ASSUME NEW t \in Txns, ReadAverage(t) PROVE RatingsInv'
  <2>1. txn[t] \in Request
    BY <1>5 DEF ReadAverage, TypeOK, Idle
  <2> DEFINE m == MeanFor([rating EXCEPT ![txn[t].s] = txn[t].stars],
                          CaptainOf[txn[t].s])
  <2>2. m \in Averages
    BY <2>1, MeanTyped DEF TypeOK, Request
  <2>3. /\ txn[t].pc = "average"
        /\ txn' = [txn EXCEPT ![t].pc = "store", ![t].mean = m]
        /\ reply' = None /\ UNCHANGED <<delivered, rating, mean, key, lock>>
    BY <1>5 DEF ReadAverage
  <2>4. TypeOK'
    <3> HIDE DEF m
    <3> QED  BY <2>1, <2>2, <2>3 DEF TypeOK, Request
  <2>5. Claims'
    <3>1. txn'[t].s = txn[t].s /\ txn'[t].stars = txn[t].stars /\ txn'[t].mean = m
      <4> HIDE DEF m
      <4> QED  BY <2>1, <2>3 DEF TypeOK, Request
    <3>2. \A u \in Txns \ {t} : txn'[u] = txn[u]
      BY <2>3 DEF TypeOK
    <3>3. Claim(t)'
      BY <2>3, <3>1 DEF Claims, Claim
    <3>4. \A u \in Txns \ {t} : Claim(u)'
      BY <2>3, <3>2, Undisturbed DEF TypeOK, Claims
    <3> QED
      BY <3>3, <3>4 DEF Claims
  <2> QED
    BY <2>3, <2>4, <2>5 DEF MeanIsCurrent
<1>6. ASSUME NEW t \in Txns, StoreAverage(t) PROVE RatingsInv'
  <2>1. txn[t] \in Request /\ CaptainOf[txn[t].s] \in Captains
    BY <1>6 DEF StoreAverage, TypeOK, Idle, Request, Captains
  <2>2. lock' = lock
    <3>1. /\ txn[t].pc = "store"
          /\ lock' = [lock EXCEPT ![CaptainOf[txn[t].s]] = t]
      BY <1>6 DEF StoreAverage
    <3>2. lock[CaptainOf[txn[t].s]] = t
      BY <3>1 DEF Claims, Claim
    <3> QED
      BY <3>1, <3>2 DEF TypeOK
  <2>3. TypeOK'
    BY <1>6, <2>1, <2>2 DEF StoreAverage, TypeOK, Request
  <2>4. Claims'
    <3> SUFFICES ASSUME NEW u \in Txns PROVE Claim(u)'
      BY DEF Claims
    <3>1. CASE u = t
      BY <1>6, <2>1, <2>2, <3>1 DEF StoreAverage, TypeOK, Claims, Claim, Request
    <3>2. CASE u # t
      BY <1>6, <2>2, <3>2, Undisturbed DEF StoreAverage, TypeOK, Claims
    <3> QED
      BY <3>1, <3>2
  <2> QED
    BY <1>6, <2>3, <2>4 DEF StoreAverage, MeanIsCurrent
<1>7. ASSUME NEW t \in Txns, Commit(t) PROVE RatingsInv'
  <2> DEFINE s == txn[t].s
             c == CaptainOf[s]
             r == [rating EXCEPT ![s] = txn[t].stars]
  <2>1. /\ txn[t] \in Request /\ s \in Shipments /\ txn[t].stars \in Stars
        /\ c \in Captains
    BY <1>7 DEF Commit, TypeOK, Idle, Request, Captains
  <2>2. /\ txn[t].pc = "commit" /\ rating' = r
        /\ mean' = [mean EXCEPT ![c] = txn[t].mean]
        /\ GiveUp(t) /\ txn' = [txn EXCEPT ![t] = Idle]
        /\ reply' = None /\ delivered' = delivered
    BY <1>7 DEF Commit
  <2>3. key[s] = t /\ lock[c] = t /\ txn[t].mean = MeanFor(r, c)
    BY <2>2 DEF Claims, Claim
  <2>4. TypeOK'
    <3>1. MeanFor(r, c) \in Averages
      BY <2>1, MeanTyped DEF TypeOK
    <3> QED
      BY <2>1, <2>2, <2>3, <3>1 DEF TypeOK, GiveUp
  <2>5. MeanIsCurrent'
    <3> SUFFICES ASSUME NEW d \in Captains PROVE mean'[d] = MeanFor(r, d)
      BY <2>2 DEF MeanIsCurrent
    <3>1. CASE d = c
      BY <2>1, <2>2, <2>3, <3>1 DEF TypeOK
    <3>2. CASE d # c
      <4>1. rating \in [Shipments -> Stars \cup {None}] /\ CaptainOf[s] # d
        BY <3>2 DEF TypeOK
      <4>2. MeanFor(r, d) = MeanFor(rating, d)
        BY <2>1, <4>1, OthersMean, Zenon
      <4> QED
        BY <2>1, <2>2, <3>2, <4>2 DEF TypeOK, MeanIsCurrent
    <3> QED
      BY <3>1, <3>2
  <2>6. Claims'
    <3> SUFFICES ASSUME NEW u \in Txns PROVE Claim(u)'
      BY DEF Claims
    <3>1. CASE txn'[u].pc \in {"idle", "insert"}
      BY <3>1 DEF Claim
    <3>2. CASE txn'[u].pc \notin {"idle", "insert"}
      <4>1. u # t /\ txn'[u] = txn[u] /\ txn[u] \in Request
        BY <2>2, <3>2 DEF TypeOK, Idle
      <4> DEFINE z == txn[u].s
                 q == [rating EXCEPT ![z] = txn[u].stars]
      <4>2. /\ z \in Shipments /\ txn[u].stars \in Stars
            /\ CaptainOf[z] \in Captains
        BY <4>1 DEF Request, Captains
      <4>3. key[z] = u /\ rating[z] = None
        BY <3>2, <4>1 DEF Claims, Claim, Request
      <4>4. z # s /\ key'[z] = u /\ rating'[z] = None
        BY <2>1, <2>2, <2>3, <4>1, <4>2, <4>3 DEF TypeOK, GiveUp
      <4>5. CASE txn[u].pc = "lock"
        BY <4>1, <4>4, <4>5 DEF Claim
      <4>6. CASE txn[u].pc \in {"average", "store", "commit"}
        <5>1. lock[CaptainOf[z]] = u
          BY <4>6 DEF Claims, Claim
        <5>2. CaptainOf[z] # c /\ lock'[CaptainOf[z]] = u
          BY <2>2, <2>3, <4>1, <4>2, <5>1 DEF GiveUp
        <5>3. MeanFor([rating' EXCEPT ![z] = txn[u].stars], CaptainOf[z])
                 = MeanFor(q, CaptainOf[z])
          <6>1. [rating' EXCEPT ![z] = txn[u].stars]
                   = [q EXCEPT ![s] = txn[t].stars]
            BY <2>1, <2>2, <4>2, <4>4 DEF TypeOK
          <6>2. q \in [Shipments -> Stars \cup {None}]
            BY <4>2 DEF TypeOK
          <6>3. MeanFor([q EXCEPT ![s] = txn[t].stars], CaptainOf[z])
                   = MeanFor(q, CaptainOf[z])
            <7> HIDE DEF q
            <7>1. CaptainOf[s] # CaptainOf[z]
              BY <5>2
            <7> QED  BY <2>1, <6>2, <7>1, OthersMean, Zenon
          <6> QED
            BY <6>1, <6>3
        <5>4. txn[u].pc \in {"store", "commit"}
                 => txn[u].mean = MeanFor(q, CaptainOf[z])
          BY DEF Claims, Claim
        <5> QED
          BY <4>1, <4>4, <5>2, <5>3, <5>4 DEF Claim
      <4> QED
        BY <3>2, <4>1, <4>5, <4>6 DEF Request
    <3> QED
      BY <3>1, <3>2
  <2> QED
    BY <2>4, <2>5, <2>6
<1>8. ASSUME NEW t \in Txns, Abort(t) PROVE RatingsInv'
  BY <1>8, GivenUp DEF Abort, TypeOK, MeanIsCurrent
<1>9. CASE UNCHANGED vars
  BY <1>9 DEF vars, TypeOK, Claims, Claim, MeanIsCurrent
<1> QED
  BY <1>1, <1>2, <1>3, <1>4, <1>5, <1>6, <1>7, <1>8, <1>9 DEF Next, Continue

\* What the locks guard holds in every reachable state.
THEOREM Inductive == Spec => []RatingsInv
<1> QED
  BY InitInv, NextInv, PTL DEF Spec

\* The stored average of a captain is the average of the captain's committed
\* ratings, whatever senders rate at the same time.
THEOREM MeanStaysCurrent == Spec => []MeanIsCurrent
<1>1. RatingsInv => MeanIsCurrent
  BY DEF RatingsInv
<1> QED
  BY <1>1, Inductive, PTL

\* A commit enters one rating in the book; every other step leaves it as it is.
LEMMA BookStep == RatingsInv /\ [Next]_vars => [Book!Next]_(Book!vars)
<1> SUFFICES ASSUME RatingsInv, [Next]_vars
             PROVE  Book!Next \/ UNCHANGED <<rating, mean>>
  BY DEF Book!vars
<1>1. ASSUME NEW t \in Txns, Commit(t) PROVE Book!Next
  <2> DEFINE s == txn[t].s
             n == txn[t].stars
             r == [rating EXCEPT ![s] = n]
  <2>1. s \in Shipments /\ n \in Stars
    BY <1>1 DEF Commit, RatingsInv, TypeOK, Idle, Request
  <2>2. /\ txn[t].pc = "commit" /\ rating' = r
        /\ mean' = [mean EXCEPT ![CaptainOf[s]] = txn[t].mean]
    BY <1>1 DEF Commit
  <2>3. rating[s] = None /\ txn[t].mean = MeanFor(r, CaptainOf[s])
    BY <2>2 DEF RatingsInv, Claims, Claim
  <2>4. \A q, c : MeanFor(q, c) = Book!MeanFor(q, c)
    BY DEF MeanFor, RatingsFor, Book!MeanFor, Book!RatingsFor
  <2>5. mean' = [mean EXCEPT ![CaptainOf[s]] = Book!MeanFor(rating', CaptainOf[s])]
    <3> HIDE DEF s, r
    <3> QED  BY <2>2, <2>3, <2>4
  <2>6. Book!Enter(s, n)
    BY <2>2, <2>3, <2>5 DEF Book!Enter
  <2> QED
    BY <2>1, <2>6 DEF Book!Next
<1>2. ASSUME NEW t \in Txns,
             \/ Insert(t) \/ LockProfile(t) \/ ReadAverage(t)
             \/ StoreAverage(t) \/ Abort(t)
      PROVE  UNCHANGED <<rating, mean>>
  BY <1>2 DEF Insert, LockProfile, ReadAverage, StoreAverage, Abort
<1>3. ASSUME NEW t \in Txns, NEW s \in Shipments, NEW n \in Stars,
             Rate(t, s, n)
      PROVE  UNCHANGED <<rating, mean>>
  BY <1>3 DEF Rate
<1>4. ASSUME NEW s \in Shipments, Deliver(s) \/ LateMark(s)
      PROVE  UNCHANGED <<rating, mean>>
  BY <1>4 DEF Deliver, LateMark
<1>5. CASE UNCHANGED vars
  BY <1>5 DEF vars
<1> QED
  BY <1>1, <1>2, <1>3, <1>4, <1>5 DEF Next, Continue

\* The transactions of RatingsService.create implement the rating book: every
\* rating is entered once, together with an average that has all of them.
THEOREM ImplementsBook == Spec => BookSpec
<1>1. Init => Book!Init
  BY DEF Init, Book!Init, Captains
<1> QED
  BY <1>1, BookStep, Inductive, PTL DEF Spec, BookSpec, Book!Spec
==============================================================================
