-------------------------- MODULE NgnDepositsProofs --------------------------
(* A wallet never shows more money than was recorded for it, for every set  *)
(* of notices in flight, of wallets and of amounts, and every bound. What a *)
(* handler is about to save is a balance it read earlier plus its amount:   *)
(* the invariant says that this, too, is covered by what is recorded.       *)
EXTENDS NgnDeposits, TLAPS

\* A balance is backed by the credits r and the notices without an amount a.
Backed(w, b, r, a) == IF b = NaN THEN w \in a ELSE b <= r[w]

\* What processVirtualAccountNotification knows of its notice at each await.
NoticeOK(d, r, a) ==
    /\ d.pc \in {"find", "record", "credit"} => (d.odd = "amount" <=> d.amount = NaN)
    /\ d.pc = "record" => Backed(d.wallet, d.read, r, a)
    /\ d.pc = "credit" => Backed(d.wallet, NewBalance(d), r, a)

DepositInv ==
    /\ DepositTypeOK
    /\ \A w \in NgnWallets : Backed(w, balance[w], recorded, amountless)
    /\ \A h \in DepositHandlers : NoticeOK(depositHandler[h], recorded, amountless)

-----------------------------------------------------------------------------
\* More recorded credits, or more notices without an amount, back a balance as
\* well as before.
LEMMA BackedGrows ==
    ASSUME NEW r \in [NgnWallets -> Nat], NEW s \in [NgnWallets -> Nat], NEW a, NEW c,
           \A x \in NgnWallets : r[x] <= s[x], a \subseteq c,
           NEW w \in NgnWallets, NEW b \in Nat \cup {NaN}, Backed(w, b, r, a)
    PROVE  Backed(w, b, s, c)
<1>1. CASE b = NaN
  BY <1>1 DEF Backed
<1>2. CASE b # NaN
  <2>1. b \in Nat /\ b <= r[w] /\ r[w] <= s[w] /\ r[w] \in Nat /\ s[w] \in Nat
    BY <1>2 DEF Backed
  <2> QED
    BY <1>2, <2>1 DEF Backed
<1> QED
  BY <1>1, <1>2

LEMMA IdleType == IdleDeposit \in InFlight /\ IdleDeposit.pc = "idle"
BY DepositAssumption DEF IdleDeposit, InFlight, Oddities

LEMMA NewBalanceType ==
    ASSUME NEW d \in InFlight, d.odd = "amount" <=> d.amount = NaN
    PROVE  NewBalance(d) \in Nat \cup {NaN}
BY DEF NewBalance, InFlight, NaN

\* A handler that is answered knows nothing more.
LEMMA IdleNotice == \A r, a : NoticeOK(IdleDeposit, r, a)
BY IdleType DEF NoticeOK

\* What is not about the balances keeps every notice right.
LEMMA NoticeGrows ==
    ASSUME NEW r \in [NgnWallets -> Nat], NEW s \in [NgnWallets -> Nat], NEW a, NEW c,
           \A x \in NgnWallets : r[x] <= s[x], a \subseteq c,
           NEW d \in InFlight, NoticeOK(d, r, a)
    PROVE  NoticeOK(d, s, c)
<1>1. d.wallet \in NgnWallets /\ d.read \in Nat \cup {NaN}
  BY DEF InFlight
<1>2. d.pc = "record" => Backed(d.wallet, d.read, s, c)
  BY <1>1, BackedGrows DEF NoticeOK
<1>3. d.pc = "credit" => Backed(d.wallet, NewBalance(d), s, c)
  <2> HAVE d.pc = "credit"
  <2>1. NewBalance(d) \in Nat \cup {NaN} /\ Backed(d.wallet, NewBalance(d), r, a)
    BY NewBalanceType DEF NoticeOK
  <2> QED
    BY <1>1, <2>1, BackedGrows
<1> QED
  BY <1>2, <1>3 DEF NoticeOK

-----------------------------------------------------------------------------
LEMMA DepositInitOK == DepositInit => DepositInv
<1> SUFFICES ASSUME DepositInit PROVE DepositInv
  OBVIOUS
<1>1. DepositTypeOK
  BY IdleType, DepositAssumption DEF DepositInit, DepositTypeOK
<1>2. \A w \in NgnWallets : Backed(w, balance[w], recorded, amountless)
  BY DEF DepositInit, Backed, NaN
<1> QED
  BY <1>1, <1>2, IdleNotice DEF DepositInv, DepositInit

\* Each step of a notice, whichever await it stands at, keeps the invariant.
LEMMA ReceiveKeeps ==
    ASSUME DepositInv, NEW h \in DepositHandlers, NEW w \in NgnWallets,
           NEW n \in DepositAmounts, NEW odd \in Oddities, ReceiveNotice(h, w, n, odd)
    PROVE  DepositInv'
<1> DEFINE d == [IdleDeposit EXCEPT !.pc = "find", !.odd = odd, !.wallet = w,
                     !.amount = IF odd = "amount" THEN NaN ELSE n]
<1>1. d \in InFlight /\ NoticeOK(d, recorded', amountless')
  <2> DEFINE m == IF odd = "amount" THEN NaN ELSE n
  <2>1. m \in Nat \cup {NaN} /\ (odd = "amount" <=> m = NaN)
    BY DepositAssumption DEF NaN
  <2>2. IdleDeposit \in InFlight
    BY IdleType
  <2>3. ASSUME NEW a \in Nat \cup {NaN}
        PROVE  LET e == [IdleDeposit EXCEPT !.pc = "find", !.odd = odd, !.wallet = w,
                                            !.amount = a]
               IN  e \in InFlight /\ e.pc = "find" /\ e.odd = odd /\ e.amount = a
    BY <2>2 DEF InFlight
  <2>4. d \in InFlight /\ d.pc = "find" /\ d.odd = odd /\ d.amount = m
    BY <2>1, <2>3, Zenon
  <2> QED
    BY <2>1, <2>4 DEF NoticeOK
<1>2. depositHandler' \in [DepositHandlers -> InFlight]
  BY <1>1, IdleType DEF ReceiveNotice, AnswerDeposit, DepositInv, DepositTypeOK
<1>3. DepositTypeOK'
  BY <1>2, DepositAssumption DEF ReceiveNotice, DepositInv, DepositTypeOK
<1>4. \A x \in NgnWallets : Backed(x, balance[x], recorded, amountless)'
  BY DEF ReceiveNotice, DepositInv, Backed
<1>5. \A g \in DepositHandlers : NoticeOK(depositHandler[g], recorded, amountless)'
  <2> HIDE DEF d
  <2>1. UNCHANGED <<recorded, amountless>>
          /\ (depositHandler' = [depositHandler EXCEPT ![h] = d] \/ AnswerDeposit(h))
    BY DEF ReceiveNotice, d
  <2>2. depositHandler \in [DepositHandlers -> InFlight]
          /\ \A g \in DepositHandlers : NoticeOK(depositHandler[g], recorded', amountless')
    BY <2>1 DEF DepositInv, DepositTypeOK
  <2>3. CASE depositHandler' = [depositHandler EXCEPT ![h] = d]
    BY <1>1, <2>2, <2>3
  <2>4. CASE AnswerDeposit(h)
    BY IdleNotice, <2>2, <2>4 DEF AnswerDeposit
  <2> QED
    BY <2>1, <2>3, <2>4
<1> QED
  BY <1>3, <1>4, <1>5 DEF DepositInv

LEMMA FindKeeps ==
    ASSUME DepositInv, NEW h \in DepositHandlers, FindNgnWallet(h)
    PROVE  DepositInv'
<1> DEFINE d == depositHandler[h]
           e == [d EXCEPT !.pc = "record", !.read = balance[d.wallet]]
<1>1. d \in InFlight /\ NoticeOK(d, recorded, amountless) /\ d.pc = "find"
  BY DEF DepositInv, DepositTypeOK, FindNgnWallet, DepositAt
<1>2. e \in InFlight /\ NoticeOK(e, recorded', amountless')
  BY <1>1 DEF DepositInv, DepositTypeOK, InFlight, NoticeOK, Backed, FindNgnWallet
<1>3. depositHandler' = [depositHandler EXCEPT ![h] = IdleDeposit]
        \/ depositHandler' = [depositHandler EXCEPT ![h] = e]
  BY <1>1 DEF FindNgnWallet, AnswerDeposit, DepositInv, DepositTypeOK, InFlight
<1>4. DepositTypeOK'
  BY <1>2, <1>3, IdleType DEF FindNgnWallet, DepositInv, DepositTypeOK
<1>5. \A w \in NgnWallets : Backed(w, balance[w], recorded, amountless)'
  BY DEF FindNgnWallet, DepositInv, Backed
<1>6. \A g \in DepositHandlers : NoticeOK(depositHandler[g], recorded, amountless)'
  BY <1>2, <1>3, IdleNotice DEF FindNgnWallet, DepositInv, DepositTypeOK, NoticeOK, Backed
<1> QED
  BY <1>4, <1>5, <1>6 DEF DepositInv

\* SaveCredit records the amount before the balance is to grow by it.
LEMMA CreditKeeps ==
    ASSUME DepositInv, NEW h \in DepositHandlers, SaveCredit(h)
    PROVE  DepositInv'
<1> DEFINE d == depositHandler[h]
           w == d.wallet
           e == [d EXCEPT !.pc = "credit"]
<1>1. d \in InFlight /\ NoticeOK(d, recorded, amountless) /\ d.pc = "record" /\ w \in NgnWallets
  BY DEF DepositInv, DepositTypeOK, SaveCredit, DepositAt, InFlight
<1>2. CASE d.odd = "commas"
  <2>1. DepositTypeOK'
    BY <1>2, IdleType DEF SaveCredit, AnswerDeposit, DepositInv, DepositTypeOK
  <2>2. \A x \in NgnWallets : Backed(x, balance[x], recorded, amountless)'
    BY <1>2 DEF SaveCredit, DepositInv, Backed
  <2>3. \A g \in DepositHandlers : NoticeOK(depositHandler[g], recorded, amountless)'
    BY <1>2, IdleNotice DEF SaveCredit, AnswerDeposit, DepositInv, DepositTypeOK, NoticeOK, Backed
  <2> QED
    BY <2>1, <2>2, <2>3 DEF DepositInv
<1>3. CASE d.odd # "commas"
  <2>1. depositHandler' = [depositHandler EXCEPT ![h] = e]
    BY <1>3 DEF SaveCredit, DepositGoes
  <2>2. /\ recorded' = [recorded EXCEPT ![w] = @ + (IF d.odd = "amount" THEN 0 ELSE d.amount)]
        /\ amountless' = IF d.odd = "amount" THEN amountless \cup {w} ELSE amountless
        /\ balance' = balance
    BY <1>3 DEF SaveCredit
  <2>3. d.odd # "amount" => d.amount \in Nat
    BY <1>1 DEF NoticeOK, InFlight
  <2>4. /\ recorded' \in [NgnWallets -> Nat]
        /\ amountless \subseteq amountless'
        /\ \A x \in NgnWallets : recorded[x] <= recorded'[x]
    BY <1>1, <2>2, <2>3 DEF DepositInv, DepositTypeOK
  <2>5. e \in InFlight
    BY <1>1 DEF InFlight
  <2>6. DepositTypeOK'
    BY <1>1, <1>3, <2>1, <2>2, <2>4, <2>5 DEF SaveCredit, DepositInv, DepositTypeOK
  <2>7. \A x \in NgnWallets : Backed(x, balance[x], recorded, amountless)'
    <3> SUFFICES ASSUME NEW x \in NgnWallets
                 PROVE  Backed(x, balance[x], recorded', amountless')
      BY <2>2
    <3>1. /\ balance[x] \in Nat \cup {NaN} /\ recorded \in [NgnWallets -> Nat]
          /\ Backed(x, balance[x], recorded, amountless)
      BY DEF DepositInv, DepositTypeOK
    <3> QED
      BY <2>4, <3>1, BackedGrows
  <2>8. NoticeOK(e, recorded', amountless')
    <3>1. CASE d.odd = "amount"
      BY <1>1, <2>2, <3>1 DEF NoticeOK, NewBalance, Backed, InFlight
    <3>2. CASE d.odd # "amount" /\ d.read = NaN
      BY <1>1, <2>2, <3>2 DEF NoticeOK, NewBalance, Backed, InFlight
    <3>3. CASE d.odd # "amount" /\ d.read # NaN
      <4>1. d.read \in Nat /\ d.read <= recorded[w] /\ d.amount \in Nat
        BY <1>1, <2>3, <3>3 DEF NoticeOK, Backed, InFlight
      <4>2. recorded'[w] = recorded[w] + d.amount /\ recorded[w] \in Nat
        BY <1>1, <2>2, <3>3 DEF DepositInv, DepositTypeOK
      <4>3. NewBalance(e) = d.read + d.amount
        BY <1>1, <3>3 DEF NewBalance, InFlight
      <4> QED
        BY <1>1, <3>3, <4>1, <4>2, <4>3 DEF NoticeOK, Backed, InFlight, NaN
    <3> QED
      BY <3>1, <3>2, <3>3
  <2>9. \A g \in DepositHandlers : NoticeOK(depositHandler[g], recorded, amountless)'
    <3> SUFFICES ASSUME NEW g \in DepositHandlers
                 PROVE  NoticeOK(depositHandler[g], recorded, amountless)'
      OBVIOUS
    <3>1. CASE g = h
      BY <2>1, <2>8, <3>1 DEF DepositInv, DepositTypeOK
    <3>2. CASE g # h
      <4>1. depositHandler'[g] = depositHandler[g]
        BY <2>1, <3>2
      <4>2. /\ depositHandler[g] \in InFlight
            /\ NoticeOK(depositHandler[g], recorded, amountless)
            /\ recorded \in [NgnWallets -> Nat]
        BY DEF DepositInv, DepositTypeOK
      <4> QED
        BY <2>4, <4>1, <4>2, NoticeGrows
    <3> QED
      BY <3>1, <3>2
  <2> QED
    BY <2>6, <2>7, <2>9 DEF DepositInv
<1> QED
  BY <1>2, <1>3

LEMMA BalanceKeeps ==
    ASSUME DepositInv, NEW h \in DepositHandlers, SaveBalance(h)
    PROVE  DepositInv'
<1> DEFINE d == depositHandler[h]
<1>1. /\ d \in InFlight /\ d.wallet \in NgnWallets
      /\ NoticeOK(d, recorded, amountless) /\ d.pc = "credit"
  BY DEF DepositInv, DepositTypeOK, SaveBalance, DepositAt, InFlight
<1>2. NewBalance(d) \in Nat \cup {NaN} /\ Backed(d.wallet, NewBalance(d), recorded, amountless)
  BY <1>1, NewBalanceType DEF NoticeOK
<1>3. balance' = [balance EXCEPT ![d.wallet] = NewBalance(d)] /\ recorded' = recorded
        /\ amountless' = amountless
  BY DEF SaveBalance
<1>4. \A g \in DepositHandlers :
        /\ depositHandler'[g] \in InFlight
        /\ NoticeOK(depositHandler'[g], recorded, amountless)
  <2> SUFFICES ASSUME NEW g \in DepositHandlers
               PROVE  /\ depositHandler'[g] \in InFlight
                      /\ NoticeOK(depositHandler'[g], recorded, amountless)
    OBVIOUS
  <2> DEFINE e == depositHandler[g]
  <2>1. e \in InFlight /\ NoticeOK(e, recorded, amountless)
    BY DEF DepositInv, DepositTypeOK
  <2>2. depositHandler'[g] \in {e, [e EXCEPT !.stale = TRUE], [d EXCEPT !.pc = "notify"]}
    BY DEF SaveBalance
  <2>3. /\ [e EXCEPT !.stale = TRUE] \in InFlight
        /\ NoticeOK([e EXCEPT !.stale = TRUE], recorded, amountless)
    BY <2>1 DEF InFlight, NoticeOK, NewBalance
  <2>4. /\ [d EXCEPT !.pc = "notify"] \in InFlight
        /\ NoticeOK([d EXCEPT !.pc = "notify"], recorded, amountless)
    BY <1>1 DEF InFlight, NoticeOK
  <2> QED
    BY <2>1, <2>2, <2>3, <2>4
<1>5. DepositTypeOK'
  BY <1>1, <1>2, <1>3, <1>4 DEF SaveBalance, DepositInv, DepositTypeOK
<1>6. \A w \in NgnWallets : Backed(w, balance[w], recorded, amountless)'
  BY <1>2, <1>3 DEF DepositInv, DepositTypeOK, Backed
<1>7. \A g \in DepositHandlers : NoticeOK(depositHandler[g], recorded, amountless)'
  BY <1>3, <1>4 DEF NoticeOK, Backed
<1> QED
  BY <1>5, <1>6, <1>7 DEF DepositInv

\* The rest changes neither balances nor what is recorded, and a handler goes
\* on to tell the user, is answered or is lost.
LEMMA OthersKeep ==
    ASSUME DepositInv, UNCHANGED <<balance, recorded, amountless>>, DepositTypeOK',
           \A h \in DepositHandlers : depositHandler'[h] = depositHandler[h]
                                        \/ depositHandler'[h].pc \in {"idle", "push"}
    PROVE  DepositInv'
<1>1. \A w \in NgnWallets : Backed(w, balance[w], recorded, amountless)'
  BY DEF DepositInv, Backed
<1>2. \A h \in DepositHandlers : NoticeOK(depositHandler[h], recorded, amountless)'
  BY DEF DepositInv, NoticeOK, Backed
<1> QED
  BY <1>1, <1>2 DEF DepositInv

LEMMA NoticeKeeps ==
    ASSUME DepositInv, NEW h \in DepositHandlers, SaveNotice(h)
    PROVE  DepositInv'
<1>1. DepositTypeOK'
  BY DEF SaveNotice, DepositGoes, DepositInv, DepositTypeOK, InFlight
<1>2. \A g \in DepositHandlers : depositHandler'[g] = depositHandler[g]
                                   \/ depositHandler'[g].pc \in {"idle", "push"}
  BY DEF SaveNotice, DepositGoes, DepositInv, DepositTypeOK, InFlight
<1> QED
  BY <1>1, <1>2, OthersKeep DEF SaveNotice

LEMMA AcknowledgeKeeps ==
    ASSUME DepositInv, NEW h \in DepositHandlers, PushAndAcknowledge(h)
    PROVE  DepositInv'
<1>1. DepositTypeOK'
  BY IdleType DEF PushAndAcknowledge, AnswerDeposit, DepositInv, DepositTypeOK
<1>2. \A g \in DepositHandlers : depositHandler'[g] = depositHandler[g]
                                   \/ depositHandler'[g].pc \in {"idle", "push"}
  BY IdleType DEF PushAndAcknowledge, AnswerDeposit, DepositInv, DepositTypeOK
<1> QED
  BY <1>1, <1>2, OthersKeep DEF PushAndAcknowledge

LEMMA UnfinishedType ==
    ASSUME DepositTypeOK, NEW H \in SUBSET DepositHandlers
    PROVE  UnfinishedDeposits(H) \subseteq NgnWallets
BY DEF UnfinishedDeposits, DepositTypeOK, InFlight

LEMMA FailKeeps ==
    ASSUME DepositInv, NEW h \in DepositHandlers, FailDeposit(h)
    PROVE  DepositInv'
<1>1. UnfinishedDeposits({h}) \subseteq NgnWallets
  BY UnfinishedType DEF DepositInv
<1>2. DepositTypeOK'
  <2>1. depositHandler' \in [DepositHandlers -> InFlight]
    BY IdleType DEF FailDeposit, AnswerDeposit, DepositInv, DepositTypeOK
  <2>2. depositFaults' \in 0..MaxDepositFaults /\ cutShort' \subseteq NgnWallets
    BY <1>1, DepositAssumption DEF FailDeposit, DepositInv, DepositTypeOK
  <2> QED
    BY <2>1, <2>2 DEF FailDeposit, DepositInv, DepositTypeOK
<1>3. \A g \in DepositHandlers : depositHandler'[g] = depositHandler[g]
                                   \/ depositHandler'[g].pc \in {"idle", "push"}
  BY IdleType DEF FailDeposit, AnswerDeposit, DepositInv, DepositTypeOK
<1> QED
  BY <1>2, <1>3, OthersKeep DEF FailDeposit

LEMMA RestartKeeps ==
    ASSUME DepositInv, RestartDeposits
    PROVE  DepositInv'
<1>1. UnfinishedDeposits(DepositHandlers) \subseteq NgnWallets
  BY UnfinishedType DEF DepositInv
<1>2. DepositTypeOK'
  BY <1>1, IdleType, DepositAssumption DEF RestartDeposits, DepositInv, DepositTypeOK
<1>3. \A g \in DepositHandlers : depositHandler'[g].pc = "idle"
  BY IdleType DEF RestartDeposits
<1> QED
  BY <1>2, <1>3, OthersKeep DEF RestartDeposits

-----------------------------------------------------------------------------
\* The inductive invariant of processVirtualAccountNotification, in every
\* interleaving of notices and with a failure or restart at any await.
THEOREM DepositInvariance == DepositSpec => []DepositInv
<1>1. DepositInv /\ [DepositNext]_depositVars => DepositInv'
  <2> SUFFICES ASSUME DepositInv, [DepositNext]_depositVars PROVE DepositInv'
    OBVIOUS
  <2>1. CASE UNCHANGED depositVars
    BY <2>1 DEF depositVars, DepositInv, DepositTypeOK, NoticeOK, Backed
  <2>2. CASE RestartDeposits
    BY <2>2, RestartKeeps
  <2>3. ASSUME NEW h \in DepositHandlers, NEW w \in NgnWallets, NEW n \in DepositAmounts,
               NEW odd \in Oddities, ReceiveNotice(h, w, n, odd)
        PROVE  DepositInv'
    BY <2>3, ReceiveKeeps
  <2>4. ASSUME NEW h \in DepositHandlers, DepositStep(h) \/ FailDeposit(h)
        PROVE  DepositInv'
    BY <2>4, FindKeeps, CreditKeeps, BalanceKeeps, NoticeKeeps, AcknowledgeKeeps, FailKeeps
    DEF DepositStep
  <2> QED
    BY <2>1, <2>2, <2>3, <2>4 DEF DepositNext
<1> QED
  BY <1>1, DepositInitOK, PTL DEF DepositSpec

\* Rows, counters and requests in flight keep their types.
THEOREM DepositTypeCorrect == DepositSpec => []DepositTypeOK
<1>1. DepositInv => DepositTypeOK
  BY DEF DepositInv
<1> QED
  BY <1>1, DepositInvariance, PTL

\* No interleaving, failure or restart makes a wallet show more money than the
\* credits recorded for it, and none shows a number that is none but after a
\* notice without an amount.
THEOREM BalanceIsBacked == DepositSpec => []BalanceBacked
<1>1. DepositInv => BalanceBacked
  BY DEF DepositInv, BalanceBacked, Backed
<1> QED
  BY <1>1, DepositInvariance, PTL

-----------------------------------------------------------------------------
(* Where money can go missing. A wallet that has no cause to differ from    *)
(* its credits is even with them, or one notice has recorded what it is     *)
(* about to add to the balance it read, or there is a notice that will save *)
(* a balance another has changed: one whose balance is stale by now, or the *)
(* second of two that are both about to save theirs.                        *)
Excused(w) == w \in crossed \cup cutShort \cup amountless

Crediting(h, w) == DepositAt(h, "credit") /\ depositHandler[h].wallet = w

FreshRead(d, b) == d.pc \in {"record", "credit"} /\ ~d.stale => d.read = b[d.wallet]

Even(w) ==
    /\ balance[w] = recorded[w]
    /\ \A h \in DepositHandlers : ~Crediting(h, w)

OneOwed(w) ==
    \E h \in DepositHandlers :
      /\ Crediting(h, w)
      /\ ~depositHandler[h].stale
      /\ recorded[w] = balance[w] + depositHandler[h].amount

WillCross(w) ==
    \/ \E h \in DepositHandlers : Crediting(h, w) /\ depositHandler[h].stale
    \/ \E g, h \in DepositHandlers : g # h /\ Crediting(g, w) /\ Crediting(h, w)

Accounted(w) == Excused(w) \/ Even(w) \/ OneOwed(w) \/ WillCross(w)

LossInv ==
    /\ \A h \in DepositHandlers : FreshRead(depositHandler[h], balance)
    /\ \A w \in NgnWallets : Accounted(w)

LEMMA LossInit == DepositInit => LossInv
<1> SUFFICES ASSUME DepositInit PROVE LossInv
  OBVIOUS
<1>1. \A h \in DepositHandlers : depositHandler[h].pc = "idle"
  BY IdleType DEF DepositInit
<1>2. \A w \in NgnWallets : Even(w)
  BY <1>1 DEF Even, Crediting, DepositAt, DepositInit
<1> QED
  BY <1>1, <1>2 DEF LossInv, FreshRead, Accounted

\* A step that saves neither a credit nor a balance keeps this: the notice it
\* ends between its two writes is a cause.
LEMMA LossQuiet ==
    ASSUME DepositInv, LossInv, UNCHANGED <<balance, recorded>>,
           crossed \subseteq crossed', cutShort \subseteq cutShort', amountless \subseteq amountless',
           \A h \in DepositHandlers :
             \/ depositHandler'[h] = depositHandler[h]
             \/ /\ depositHandler'[h].pc # "credit"
                /\ FreshRead(depositHandler'[h], balance)
                /\ DepositAt(h, "credit") => depositHandler[h].wallet \in cutShort'
    PROVE  LossInv'
<1>1. \A h \in DepositHandlers : FreshRead(depositHandler[h], balance)'
  BY DEF LossInv, FreshRead
<1>2. ASSUME NEW w \in NgnWallets PROVE Accounted(w)'
  <2>1. CASE Excused(w)'
    BY <2>1 DEF Accounted
  <2>2. CASE ~Excused(w)'
    <3>1. ~Excused(w)
      BY <2>2 DEF Excused
    <3>2. \A h \in DepositHandlers : Crediting(h, w) => depositHandler'[h] = depositHandler[h]
      BY <2>2 DEF Excused, Crediting
    <3>3. \A h \in DepositHandlers : Crediting(h, w)' <=> Crediting(h, w)
      BY <3>2 DEF Crediting, DepositAt
    <3>4. Even(w) => Even(w)'
      BY <3>3 DEF Even
    <3>5. OneOwed(w) => OneOwed(w)'
      BY <3>2, <3>3 DEF OneOwed
    <3>6. WillCross(w) => WillCross(w)'
      BY <3>2, <3>3 DEF WillCross
    <3> QED
      BY <3>1, <3>4, <3>5, <3>6 DEF LossInv, Accounted
  <2> QED
    BY <2>1, <2>2
<1> QED
  BY <1>1, <1>2 DEF LossInv

LEMMA LossReceive ==
    ASSUME DepositInv, LossInv, NEW h \in DepositHandlers, NEW w \in NgnWallets,
           NEW n \in DepositAmounts, NEW odd \in Oddities, ReceiveNotice(h, w, n, odd)
    PROVE  LossInv'
<1> DEFINE d == [IdleDeposit EXCEPT !.pc = "find", !.odd = odd, !.wallet = w,
                     !.amount = IF odd = "amount" THEN NaN ELSE n]
<1>1. d.pc = "find" /\ IdleDeposit.pc = "idle"
  BY IdleType DEF InFlight, IdleDeposit
<1> HIDE DEF d
<1>2. depositHandler' = [depositHandler EXCEPT ![h] = d] \/ AnswerDeposit(h)
  BY DEF ReceiveNotice, d
<1>3. \A g \in DepositHandlers : depositHandler'[g] = depositHandler[g]
        \/ (g = h /\ depositHandler'[g].pc \in {"idle", "find"})
  BY <1>1, <1>2 DEF AnswerDeposit, DepositInv, DepositTypeOK
<1> QED
  BY <1>3, LossQuiet DEF ReceiveNotice, FreshRead, DepositAt

LEMMA LossFind ==
    ASSUME DepositInv, LossInv, NEW h \in DepositHandlers, FindNgnWallet(h)
    PROVE  LossInv'
<1> DEFINE d == depositHandler[h]
           e == [d EXCEPT !.pc = "record", !.read = balance[d.wallet]]
<1>1. d \in InFlight /\ d.pc = "find"
  BY DEF DepositInv, DepositTypeOK, FindNgnWallet, DepositAt
<1>2. e.pc = "record" /\ FreshRead(e, balance)
  BY <1>1 DEF InFlight, FreshRead
<1>3. depositHandler' = [depositHandler EXCEPT ![h] = IdleDeposit]
        \/ depositHandler' = [depositHandler EXCEPT ![h] = e]
  BY <1>1 DEF FindNgnWallet, AnswerDeposit, DepositInv, DepositTypeOK, InFlight
<1>4. FreshRead(IdleDeposit, balance)
  BY IdleType DEF FreshRead
<1> HIDE DEF e
<1>5. \A g \in DepositHandlers : depositHandler'[g] = depositHandler[g]
        \/ (g = h /\ depositHandler'[g].pc # "credit" /\ FreshRead(depositHandler'[g], balance))
  BY <1>2, <1>3, <1>4, IdleType DEF DepositInv, DepositTypeOK
<1> QED
  BY <1>1, <1>5, LossQuiet DEF FindNgnWallet, DepositAt

\* The second notice that records a credit, or one that records it with a stale
\* balance, is the cause of what is lost; the only one owes its amount.
LEMMA LossCredit ==
    ASSUME DepositInv, LossInv, NEW h \in DepositHandlers, SaveCredit(h)
    PROVE  LossInv'
<1> DEFINE d == depositHandler[h]
           e == [d EXCEPT !.pc = "credit"]
<1>0. PICK w \in NgnWallets : w = d.wallet
  BY DEF DepositInv, DepositTypeOK, InFlight
<1>1. d \in InFlight /\ NoticeOK(d, recorded, amountless) /\ d.pc = "record" /\ d.wallet = w
  BY <1>0 DEF DepositInv, DepositTypeOK, SaveCredit, DepositAt, InFlight
<1>2. CASE d.odd = "commas"
  <2>1. depositHandler' = [depositHandler EXCEPT ![h] = IdleDeposit]
          /\ UNCHANGED <<balance, recorded, crossed, cutShort, amountless>>
    BY <1>2 DEF SaveCredit, AnswerDeposit
  <2>2. \A g \in DepositHandlers : depositHandler'[g] = depositHandler[g]
          \/ (g = h /\ depositHandler'[g].pc = "idle")
    BY <2>1, IdleType DEF DepositInv, DepositTypeOK
  <2> QED
    BY <1>1, <2>1, <2>2, LossQuiet DEF FreshRead, DepositAt
<1>3. CASE d.odd # "commas"
  <2>1. /\ depositHandler' = [depositHandler EXCEPT ![h] = e]
        /\ recorded' = [recorded EXCEPT ![w] = @ + (IF d.odd = "amount" THEN 0 ELSE d.amount)]
        /\ amountless' = IF d.odd = "amount" THEN amountless \cup {w} ELSE amountless
        /\ UNCHANGED <<balance, crossed, cutShort>>
    BY <1>0, <1>3 DEF SaveCredit, DepositGoes
  <2>2. e.pc = "credit" /\ e.wallet = w /\ e.stale = d.stale /\ e.read = d.read
          /\ e.amount = d.amount
    BY <1>1 DEF InFlight
  <2>3. /\ depositHandler'[h] = e
        /\ \A g \in DepositHandlers : g # h => depositHandler'[g] = depositHandler[g]
    BY <2>1 DEF DepositInv, DepositTypeOK
  <2> HIDE DEF e
  <2>4. \A g \in DepositHandlers : FreshRead(depositHandler[g], balance)'
    <3>1. FreshRead(e, balance)
      BY <1>1, <2>2 DEF LossInv, FreshRead
    <3> QED
      BY <2>1, <2>3, <3>1 DEF LossInv, FreshRead
  <2>5. ASSUME NEW x \in NgnWallets PROVE Accounted(x)'
    <3>1. /\ Excused(x) => Excused(x)'
          /\ x = w /\ d.odd = "amount" => Excused(x)'
      BY <2>1 DEF Excused
    <3>2. Crediting(h, w)' /\ ~Crediting(h, x)
      BY <1>1, <2>2, <2>3 DEF Crediting, DepositAt
    <3>3. \A g \in DepositHandlers : g # h => (Crediting(g, x)' <=> Crediting(g, x))
      BY <2>3 DEF Crediting, DepositAt
    <3>4. WillCross(x) => WillCross(x)'
      BY <2>3, <3>2, <3>3 DEF WillCross
    <3>5. CASE x # w
      <4>1. \A g \in DepositHandlers : Crediting(g, x)' <=> Crediting(g, x)
        BY <2>2, <2>3, <3>2, <3>3, <3>5 DEF Crediting, DepositAt
      <4>2. recorded'[x] = recorded[x] /\ balance'[x] = balance[x]
        BY <2>1, <3>5 DEF DepositInv, DepositTypeOK
      <4>3. Even(x) => Even(x)'
        BY <4>1, <4>2 DEF Even
      <4>4. OneOwed(x) => OneOwed(x)'
        BY <2>3, <3>2, <4>1, <4>2 DEF OneOwed
      <4> QED
        BY <3>1, <3>4, <4>3, <4>4 DEF LossInv, Accounted
    <3>6. CASE x = w /\ d.odd # "amount"
      <4>1. OneOwed(w) => WillCross(w)'
        BY <3>2, <3>3, <3>6 DEF OneOwed, WillCross
      <4>2. CASE Even(w) /\ d.stale
        <5>1. depositHandler'[h].stale
          BY <2>2, <2>3, <4>2
        <5> QED
          BY <3>2, <3>6, <5>1 DEF WillCross, Accounted
      <4>3. CASE Even(w) /\ ~d.stale
        <5>1. recorded'[w] = recorded[w] + d.amount
          BY <1>1, <2>1, <3>6 DEF DepositInv, DepositTypeOK
        <5>2. recorded'[w] = balance'[w] + depositHandler'[h].amount
          BY <2>1, <2>2, <2>3, <4>3, <5>1 DEF Even
        <5>3. ~depositHandler'[h].stale
          BY <2>2, <2>3, <4>3
        <5>4. OneOwed(w)'
          BY <3>2, <5>2, <5>3 DEF OneOwed
        <5> QED
          BY <3>6, <5>4 DEF Accounted
      <4> QED
        BY <3>1, <3>4, <3>6, <4>1, <4>2, <4>3 DEF LossInv, Accounted
    <3> QED
      BY <3>1, <3>5, <3>6 DEF Accounted
  <2> QED
    BY <2>4, <2>5 DEF LossInv
<1> QED
  BY <1>2, <1>3

\* The balance that is saved is even with the credits if its notice was the only
\* one; another that is about to save its own becomes stale.
LEMMA LossBalance ==
    ASSUME DepositInv, LossInv, NEW h \in DepositHandlers, SaveBalance(h)
    PROVE  LossInv'
<1> DEFINE d == depositHandler[h]
           e == [d EXCEPT !.pc = "notify"]
<1>0. PICK w \in NgnWallets : w = d.wallet
  BY DEF DepositInv, DepositTypeOK, InFlight
<1>1. /\ d \in InFlight /\ d.wallet = w /\ d.pc = "credit"
      /\ NoticeOK(d, recorded, amountless) /\ FreshRead(d, balance)
  BY <1>0 DEF DepositInv, DepositTypeOK, SaveBalance, DepositAt, InFlight, LossInv
<1>2. /\ balance' = [balance EXCEPT ![w] = NewBalance(d)]
      /\ crossed' = IF d.stale THEN crossed \cup {w} ELSE crossed
      /\ UNCHANGED <<recorded, cutShort, amountless>>
  BY <1>0 DEF SaveBalance
<1>3. e.pc = "notify"
  BY <1>1 DEF InFlight
<1>4. depositHandler'[h] = e
  BY DEF SaveBalance
<1>5. ASSUME NEW g \in DepositHandlers, g # h
      PROVE  LET c == depositHandler[g]
                 n == depositHandler'[g]
             IN  /\ n.pc = c.pc /\ n.wallet = c.wallet /\ n.read = c.read /\ n.amount = c.amount
                 /\ n.stale <=> c.stale \/ (c.wallet = w /\ c.pc \in {"record", "credit"})
  <2> DEFINE c == depositHandler[g]
  <2>1. c \in InFlight
    BY DEF DepositInv, DepositTypeOK
  <2>2. depositHandler'[g] = IF c.wallet = w /\ c.pc \in {"record", "credit"}
                               THEN [c EXCEPT !.stale = TRUE] ELSE c
    BY <1>0, <1>5 DEF SaveBalance
  <2> QED
    BY <2>1, <2>2 DEF InFlight
<1> HIDE DEF e
<1>6. ASSUME NEW g \in DepositHandlers PROVE FreshRead(depositHandler[g], balance)'
  <2>1. CASE g = h
    BY <1>3, <1>4, <2>1 DEF FreshRead
  <2>2. CASE g # h
    <3>1. depositHandler[g].wallet # w => balance'[depositHandler[g].wallet] = balance[depositHandler[g].wallet]
      BY <1>2 DEF DepositInv, DepositTypeOK, InFlight
    <3> QED
      BY <1>5, <2>2, <3>1 DEF FreshRead, LossInv
  <2> QED
    BY <2>1, <2>2
<1>7. ASSUME NEW x \in NgnWallets PROVE Accounted(x)'
  <2>1. ~Crediting(h, x)' /\ (x # w => ~Crediting(h, x))
    BY <1>1, <1>3, <1>4 DEF Crediting, DepositAt
  <2>2. \A g \in DepositHandlers : g # h => (Crediting(g, x)' <=> Crediting(g, x))
    BY <1>5 DEF Crediting, DepositAt
  <2>3. Excused(x) => Excused(x)'
    BY <1>2 DEF Excused
  <2>4. CASE x # w
    <3>1. \A g \in DepositHandlers : Crediting(g, x)' <=> Crediting(g, x)
      BY <2>1, <2>2, <2>4
    <3>2. recorded'[x] = recorded[x] /\ balance'[x] = balance[x]
      BY <1>2, <2>4 DEF DepositInv, DepositTypeOK
    <3>3. Even(x) => Even(x)'
      BY <3>1, <3>2 DEF Even
    <3>4. \A g \in DepositHandlers : Crediting(g, x) =>
            /\ depositHandler'[g].amount = depositHandler[g].amount
            /\ depositHandler'[g].stale <=> depositHandler[g].stale
      BY <1>5, <2>1, <2>4 DEF Crediting
    <3>5. OneOwed(x) => OneOwed(x)'
      BY <3>1, <3>2, <3>4 DEF OneOwed
    <3>6. WillCross(x) => WillCross(x)'
      BY <3>1, <3>4 DEF WillCross
    <3> QED
      BY <2>3, <3>3, <3>5, <3>6 DEF LossInv, Accounted
  <2>5. CASE x = w /\ \E g \in DepositHandlers : g # h /\ Crediting(g, w)
    <3>1. PICK g \in DepositHandlers : g # h /\ Crediting(g, w)
      BY <2>5
    <3>2. Crediting(g, w)'
      BY <2>2, <2>5, <3>1
    <3>3. depositHandler'[g].stale
      BY <1>5, <3>1 DEF Crediting, DepositAt
    <3> QED
      BY <2>5, <3>2, <3>3 DEF WillCross, Accounted
  <2>6. CASE x = w /\ d.stale
    BY <1>2, <2>6 DEF Excused, Accounted
  <2>7. CASE x = w /\ Excused(w)
    BY <2>3, <2>7 DEF Accounted
  <2>8. CASE /\ x = w /\ ~d.stale /\ ~Excused(w)
             /\ \A g \in DepositHandlers : g # h => ~Crediting(g, w)
    <3>1. Crediting(h, w)
      BY <1>1 DEF Crediting, DepositAt
    <3>2. ~Even(w)
      BY <3>1 DEF Even
    <3>3. ~WillCross(w)
      BY <2>8 DEF WillCross
    <3>4. OneOwed(w)
      BY <2>8, <3>2, <3>3 DEF LossInv, Accounted
    <3>5. recorded[w] = balance[w] + d.amount
      BY <2>8, <3>4 DEF OneOwed
    <3>6. w \notin amountless
      BY <2>8 DEF Excused
    <3>7. balance[w] # NaN /\ NewBalance(d) # NaN
      BY <1>1, <3>6 DEF DepositInv, NoticeOK, Backed
    <3>8. d.read = balance[w]
      BY <1>1, <2>8 DEF FreshRead
    <3>9. NewBalance(d) = balance[w] + d.amount
      BY <3>7, <3>8 DEF NewBalance
    <3>10. balance'[w] = recorded'[w]
      BY <1>1, <1>2, <3>5, <3>9 DEF DepositInv, DepositTypeOK
    <3>11. \A g \in DepositHandlers : ~Crediting(g, w)'
      BY <2>1, <2>2, <2>8
    <3>12. Even(w)'
      BY <3>10, <3>11 DEF Even
    <3> QED
      BY <2>8, <3>12 DEF Accounted
  <2> QED
    BY <2>4, <2>5, <2>6, <2>7, <2>8
<1> QED
  BY <1>6, <1>7 DEF LossInv

LEMMA LossRest ==
    ASSUME DepositInv, LossInv, NEW h \in DepositHandlers,
           SaveNotice(h) \/ PushAndAcknowledge(h) \/ FailDeposit(h)
    PROVE  LossInv'
<1>1. CASE SaveNotice(h)
  <2>1. depositHandler' = [depositHandler EXCEPT ![h].pc = "push"] /\ DepositAt(h, "notify")
    BY <1>1 DEF SaveNotice, DepositGoes
  <2>2. \A g \in DepositHandlers : depositHandler'[g] = depositHandler[g]
          \/ (g = h /\ depositHandler'[g].pc = "push")
    BY <2>1 DEF DepositInv, DepositTypeOK, InFlight
  <2> QED
    BY <1>1, <2>1, <2>2, LossQuiet DEF SaveNotice, FreshRead, DepositAt
<1>2. CASE PushAndAcknowledge(h)
  <2>1. \A g \in DepositHandlers : depositHandler'[g] = depositHandler[g]
          \/ (g = h /\ depositHandler'[g].pc = "idle")
    BY <1>2, IdleType DEF PushAndAcknowledge, AnswerDeposit, DepositInv, DepositTypeOK
  <2> QED
    BY <1>2, <2>1, LossQuiet DEF PushAndAcknowledge, FreshRead, DepositAt
<1>3. CASE FailDeposit(h)
  <2>1. \A g \in DepositHandlers : depositHandler'[g] = depositHandler[g]
          \/ (g = h /\ depositHandler'[g].pc = "idle")
    BY <1>3, IdleType DEF FailDeposit, AnswerDeposit, DepositInv, DepositTypeOK
  <2>2. DepositAt(h, "credit") => depositHandler[h].wallet \in cutShort'
    BY <1>3 DEF FailDeposit, UnfinishedDeposits
  <2> QED
    BY <1>3, <2>1, <2>2, LossQuiet DEF FailDeposit, FreshRead
<1> QED
  BY <1>1, <1>2, <1>3

LEMMA LossRestart ==
    ASSUME DepositInv, LossInv, RestartDeposits
    PROVE  LossInv'
<1>1. \A g \in DepositHandlers : depositHandler'[g].pc = "idle"
  BY IdleType DEF RestartDeposits
<1>2. \A g \in DepositHandlers : DepositAt(g, "credit") => depositHandler[g].wallet \in cutShort'
  BY DEF RestartDeposits, UnfinishedDeposits
<1> QED
  BY <1>1, <1>2, LossQuiet DEF RestartDeposits, FreshRead

\* Money goes missing from a wallet only because two notices for it overlapped,
\* one was cut short between its two writes, or one had no amount.
THEOREM LossIsExcused == DepositSpec => []LossHasCause
<1>1. DepositInit => LossInv
  BY LossInit
<1>2. DepositInv /\ LossInv /\ [DepositNext]_depositVars => LossInv'
  <2> SUFFICES ASSUME DepositInv, LossInv, [DepositNext]_depositVars PROVE LossInv'
    OBVIOUS
  <2>1. CASE UNCHANGED depositVars
    BY <2>1, LossQuiet DEF depositVars
  <2>2. CASE RestartDeposits
    BY <2>2, LossRestart
  <2>3. ASSUME NEW h \in DepositHandlers, NEW w \in NgnWallets, NEW n \in DepositAmounts,
               NEW odd \in Oddities, ReceiveNotice(h, w, n, odd)
        PROVE  LossInv'
    BY <2>3, LossReceive
  <2>4. ASSUME NEW h \in DepositHandlers, DepositStep(h) \/ FailDeposit(h)
        PROVE  LossInv'
    BY <2>4, LossFind, LossCredit, LossBalance, LossRest DEF DepositStep
  <2> QED
    BY <2>1, <2>2, <2>3, <2>4 DEF DepositNext
<1>3. DepositInv /\ LossInv => LossHasCause
  <2> SUFFICES ASSUME LossInv, NEW w \in NgnWallets, ~Excused(w),
                      \A h \in DepositHandlers :
                        DepositAt(h, "idle") \/ depositHandler[h].wallet # w
               PROVE  balance[w] = recorded[w]
    BY DEF LossHasCause, Excused
  <2>1. \A h \in DepositHandlers : ~Crediting(h, w)
    BY DEF Crediting, DepositAt
  <2>2. Even(w)
    BY <2>1 DEF LossInv, Accounted, OneOwed, WillCross
  <2> QED
    BY <2>2 DEF Even
<1> QED
  BY <1>1, <1>2, <1>3, DepositInvariance, PTL DEF DepositSpec
=============================================================================
