---------------------------- MODULE InboxProofs ----------------------------
(***************************************************************************)
(* Proofs about Inbox: its types, that nothing is acknowledged unheard and *)
(* that nothing is told twice.  The invariant follows a Delivery from the  *)
(* answer of the platform over the message and the ledger to the           *)
(* acknowledgement, with a fact about the platform that makes an old       *)
(* answer safe: what is over for good (Over) does not come back.  The same *)
(* fact is the heart of the refinement of Mailbox.                         *)
(***************************************************************************)
EXTENDS Inbox, SequenceTheorems, TLAPS

(* Nobody waits for it any more, or its key was taken when it was due again. *)
Over(k) == k \in reused \/ ~StillOpen(k)
Settled == {k \in Keys : Over(k)}

(* Rows, questions and submissions are numbered within their bounds. *)
Numbered ==
  /\ \A m \in Missions : Len(mission[m].asked) <= MaxQuestions
                         /\ mission[m].last <= mission[m].attempt
  /\ \A k \in Keys : row[k] # "absent" /\ k[2] = "result" => k[3] <= mission[k[1]].attempt

(* What the daemon holds has a row; what it will not send is over, and what *)
(* it will acknowledge is over or was heard.                                *)
InHand ==
  /\ \A t \in bridge.todo : row[t[1]] # "absent" /\ (t[2] \/ Over(t[1]))
  /\ bridge.at \in {"queue", "remember", "ack"} => bridge.cur \in Keys /\ row[bridge.cur] # "absent"
  /\ bridge.at = "queue" => ~Contains(ledger, bridge.cur)
  /\ bridge.at = "remember" => heard[bridge.cur] # "no"
  /\ bridge.at = "ack" => heard[bridge.cur] # "no" \/ Over(bridge.cur)

(* The ledger knows what was told, but for what is being written to it. *)
Ledgered ==
  \A k \in Keys :
    /\ Contains(ledger, k) => heard[k] # "no"
    /\ heard[k] = "once" => Contains(ledger, k) \/ (bridge.at = "remember" /\ bridge.cur = k)

IInv == TypeOK /\ Numbered /\ InHand /\ Ledgered /\ AckedWasHeard /\ ToldOnce

-----------------------------------------------------------------------------
(* The ledger. *)
LEMMA WithoutIsSeq ==
  ASSUME NEW s \in Seq(Keys), NEW k \in Keys
  PROVE  /\ Without(s, k) \in Seq(Keys)
         /\ \A j \in Keys : Contains(Without(s, k), j) => Contains(s, j)
<1>1. CASE ~Contains(s, k)
  BY <1>1 DEF Without
<1>2. CASE Contains(s, k)
  <2> DEFINE i == CHOOSE i \in DOMAIN s : s[i] = k
             a == SubSeq(s, 1, i - 1)
             b == SubSeq(s, i + 1, Len(s))
  <2>1. i \in 1..Len(s)
    BY <1>2 DEF Contains
  <2> HIDE DEF i
  <2>2. a \in Seq(Keys) /\ Len(a) = i - 1 /\ \A n \in 1..(i - 1) : a[n] = s[n]
    <3>1. \A n \in 1..(i - 1) : s[n] \in Keys
      BY <2>1, ElementOfSeq
    <3>2. QED
      BY <2>1, <3>1, SubSeqProperties
  <2>3. b \in Seq(Keys) /\ Len(b) = Len(s) - i /\ \A n \in 1..(Len(s) - i) : b[n] = s[i + n]
    <3>1. \A n \in (i + 1)..Len(s) : s[n] \in Keys
      BY <2>1, ElementOfSeq
    <3>2. Len(s) \in Nat /\ i + 1 \in Int
      BY <2>1
    <3>3. /\ b \in Seq(Keys)
          /\ Len(b) = IF i + 1 <= Len(s) THEN Len(s) - (i + 1) + 1 ELSE 0
          /\ \A n \in 1..(Len(s) - (i + 1) + 1) : b[n] = s[(i + 1) + n - 1]
      BY <3>1, <3>2, SubSeqProperties
    <3>4. QED
      BY <2>1, <3>2, <3>3
  <2> HIDE DEF a, b
  <2>4. Without(s, k) = a \o b
    BY <1>2 DEF Without, RemoveAt, i, a, b
  <2>5. /\ a \o b \in Seq(Keys) /\ Len(a \o b) = Len(a) + Len(b)
        /\ \A n \in 1..(Len(a) + Len(b)) :
             (a \o b)[n] = IF n <= Len(a) THEN a[n] ELSE b[n - Len(a)]
    BY <2>2, <2>3, ConcatProperties
  <2>6. ASSUME NEW j \in Keys, NEW n \in 1..Len(a \o b), (a \o b)[n] = j
        PROVE  Contains(s, j)
    <3>1. CASE n <= Len(a)
      <4>1. n \in 1..(i - 1) /\ n \in 1..Len(s)
        BY <2>1, <2>2, <2>5, <3>1
      <4>2. (a \o b)[n] = s[n]
        BY <2>2, <2>3, <2>5, <3>1, <4>1
      <4>3. QED
        BY <2>6, <4>1, <4>2 DEF Contains
    <3>2. CASE n > Len(a)
      <4>1. n - Len(a) \in 1..(Len(s) - i)
        BY <2>1, <2>2, <2>3, <2>5, <3>2
      <4>2. (a \o b)[n] = s[i + (n - Len(a))]
        BY <2>1, <2>2, <2>3, <2>5, <3>2, <4>1
      <4>3. i + (n - Len(a)) \in 1..Len(s)
        BY <2>1, <2>2, <4>1
      <4>4. QED
        BY <2>6, <4>2, <4>3 DEF Contains
    <3>3. QED
      BY <2>2, <2>5, <3>1, <3>2
  <2>7. QED
    BY <2>4, <2>5, <2>6 DEF Contains
<1>3. QED
  BY <1>1, <1>2

(* rememberQueuedDelivery: the ledger holds the new id and otherwise only *)
(* what it held before.                                                   *)
LEMMA NewerHolds ==
  ASSUME NEW s \in Seq(Keys), NEW k \in Keys
  PROVE  /\ Newer(s, k) \in Seq(Keys)
         /\ Contains(Newer(s, k), k)
         /\ \A j \in Keys : Contains(Newer(s, k), j) => j = k \/ Contains(s, j)
<1> DEFINE w == Without(s, k)
           all == Append(w, k)
           L == Len(all)
<1>1. w \in Seq(Keys) /\ \A j \in Keys : Contains(w, j) => Contains(s, j)
  BY WithoutIsSeq
<1> HIDE DEF w
<1>2. /\ all \in Seq(Keys) /\ L = Len(w) + 1 /\ Len(w) \in Nat
      /\ \A n \in 1..Len(w) : all[n] = w[n]
      /\ all[L] = k
  BY <1>1, AppendProperties
<1> HIDE DEF all, L
<1>3. L = Len(all)
  BY DEF L
<1>4. \A n \in 1..L : all[n] \in Keys /\ (all[n] = k \/ Contains(s, all[n]))
  <2> TAKE n \in 1..L
  <2>1. CASE n = L
    BY <1>2, <2>1
  <2>2. CASE n # L
    <3>1. n \in 1..Len(w)
      BY <1>2, <2>2
    <3>2. all[n] = w[n] /\ w[n] \in Keys
      BY <1>1, <1>2, <3>1, ElementOfSeq
    <3>3. QED
      BY <1>1, <3>1, <3>2 DEF Contains
  <2>3. QED
    BY <2>1, <2>2
<1>5. CASE L <= LedgerSize
  <2>1. Newer(s, k) = all
    BY <1>5 DEF Newer, all, w, L
  <2>2. QED
    BY <1>2, <1>3, <1>4, <2>1 DEF Contains
<1>6. CASE ~(L <= LedgerSize)
  <2> DEFINE f == L - LedgerSize + 1
             t == SubSeq(all, f, L)
  <2>1. Newer(s, k) = t
    BY <1>6 DEF Newer, all, w, L
  <2>2. f \in 1..L /\ f \in Int /\ L \in Int /\ LedgerSize \in Nat \ {0}
    BY <1>2, <1>6, BoundAssumption
  <2>3. \A n \in f..L : all[n] \in Keys
    BY <1>4, <2>2
  <2> HIDE DEF f
  <2>4. /\ t \in Seq(Keys) /\ Len(t) = L - f + 1
        /\ \A n \in 1..(L - f + 1) : t[n] = all[f + n - 1]
    BY <2>2, <2>3, SubSeqProperties
  <2> HIDE DEF t
  <2>5. Contains(t, k)
    <3> DEFINE n == L - f + 1
    <3>1. n \in 1..(L - f + 1) /\ n \in 1..Len(t) /\ f + n - 1 = L
      BY <2>2, <2>4
    <3> HIDE DEF n
    <3>2. t[n] = all[f + n - 1]
      BY <2>4, <3>1
    <3>3. t[n] = k
      BY <1>2, <3>1, <3>2
    <3>4. QED
      BY <3>1, <3>3 DEF Contains
  <2>6. ASSUME NEW j \in Keys, NEW n \in 1..Len(t), t[n] = j
        PROVE  j = k \/ Contains(s, j)
    <3>1. f + n - 1 \in 1..L /\ t[n] = all[f + n - 1]
      BY <2>2, <2>4
    <3>2. QED
      BY <1>4, <2>6, <3>1
  <2>7. QED
    BY <2>1, <2>4, <2>5, <2>6 DEF Contains
<1>7. QED
  BY <1>5, <1>6

-----------------------------------------------------------------------------
(* Keys and rows. *)
LEMMA KeyShape ==
  /\ \A k \in Keys : k[1] \in Missions /\ k[2] \in {"escalated", "result"} /\ k[3] \in Nat
                    /\ k = <<k[1], k[2], k[3]>>
  /\ \A k \in Keys : k[2] = "escalated" => k[3] \in 1..MaxQuestions
  /\ \A k \in Keys : k[2] = "result" => k[3] \in 1..MaxAttempts
  /\ \A m \in Missions, n \in 1..MaxAttempts : ResultKey(m, n) \in Keys
BY BoundAssumption DEF Keys, ResultKey

LEMMA OpenOrNot ==
  ASSUME TypeOK, NEW k \in Keys
  PROVE  StillOpen(k) \in BOOLEAN
<1>1. k[3] \in Int /\ mission[k[1]].answered \in Int
  BY KeyShape DEF TypeOK, States
<1>2. CASE k[2] = "escalated"
  <2>1. (k[3] > mission[k[1]].answered) \in BOOLEAN
    BY <1>1, SMT
  <2>2. QED
    BY <1>2, <2>1, Zenon DEF StillOpen
<1>3. CASE k[2] # "escalated"
  <2>1. (mission[k[1]].st = "review" /\ Newest(k)) \in BOOLEAN
    BY Zenon
  <2>2. QED
    BY <1>3, <2>1, Zenon DEF StillOpen
<1>4. QED
  BY <1>2, <1>3

LEMMA CreatedRow ==
  ASSUME TypeOK, NEW k, row' = Created(k)
  PROVE  /\ row' \in [Keys -> {"absent", "pending", "acked"}]
         /\ \A j \in Keys : row[j] # "absent" => row'[j] = row[j]
         /\ \A j \in Keys : j # k => row'[j] = row[j]
         /\ \A j \in Keys : row'[j] = "acked" => row[j] = "acked"
         /\ k \in Keys => row'[k] # "absent"
BY DEF TypeOK, Created

LEMMA HeardUnsure ==
  ASSUME TypeOK, NEW S \in SUBSET Keys
  PROVE  /\ Unsure(S) \in [Keys -> Hearing]
         /\ \A k \in Keys : heard[k] # "no" \/ k \in S => Unsure(S)[k] # "no"
         /\ \A k \in Keys : Unsure(S)[k] = "once" => heard[k] = "once" /\ k \notin S
         /\ \A k \in Keys : Unsure(S)[k] = "twice" => heard[k] = "twice"
BY DEF TypeOK, Unsure, Hearing

LEMMA HeardTold ==
  ASSUME TypeOK, NEW k \in Keys
  PROVE  /\ Told(k) \in [Keys -> Hearing]
         /\ \A j \in Keys : j # k => Told(k)[j] = heard[j]
         /\ Told(k)[k] # "no"
         /\ Told(k)[k] = "twice" => heard[k] \in {"once", "twice"}
BY DEF TypeOK, Told, Hearing

(* What a command makes of its Mission. *)
LEMMA Changed ==
  ASSUME TypeOK, NEW m \in Missions, NEW r \in States, mission' = [mission EXCEPT ![m] = r]
  PROVE  /\ mission' \in [Missions -> States] /\ mission'[m] = r
         /\ \A o \in Missions : o # m => mission'[o] = mission[o]
BY DEF TypeOK

LEMMA Asked ==
  ASSUME TypeOK, Numbered, NEW m \in Missions, Escalate(m)
  PROVE  /\ mission' \in [Missions -> States]
         /\ \A o \in Missions : /\ mission'[o].st = mission[o].st
                                /\ mission'[o].answered = mission[o].answered
                                /\ mission'[o].attempt = mission[o].attempt
                                /\ mission'[o].last = mission[o].last
                                /\ Len(mission'[o].asked) <= MaxQuestions
<1>1. PICK who \in {0, mission[m].attempt} :
        mission' = [mission EXCEPT ![m].asked = Append(@, who)]
  BY DEF Escalate
<1>2. mission[m] \in States /\ Len(mission[m].asked) < MaxQuestions
  BY DEF TypeOK, Escalate
<1> DEFINE a == Append(mission[m].asked, who)
           r == [mission[m] EXCEPT !.asked = a]
<1>3. who \in 0..MaxAttempts
  BY <1>2, BoundAssumption DEF States
<1>4. mission[m].asked \in Seq(0..MaxAttempts)
  BY <1>2 DEF States
<1>5. a \in Seq(0..MaxAttempts) /\ Len(a) = Len(mission[m].asked) + 1
  BY <1>3, <1>4, AppendProperties
<1> HIDE DEF a
<1>6. r \in States /\ r.asked = a /\ r.st = mission[m].st /\ r.answered = mission[m].answered
      /\ r.attempt = mission[m].attempt /\ r.last = mission[m].last
  BY <1>2, <1>5 DEF States
<1>7. mission' = [mission EXCEPT ![m] = r]
  BY <1>1 DEF a
<1> HIDE DEF r
<1>8. /\ mission' \in [Missions -> States] /\ mission'[m] = r
      /\ \A o \in Missions : o # m => mission'[o] = mission[o]
  BY <1>6, <1>7, Changed
<1>9. Len(a) <= MaxQuestions
  BY <1>2, <1>4, <1>5, BoundAssumption
<1>10. QED
  BY <1>6, <1>8, <1>9 DEF Numbered

(* A record of a Mission, field by field. *)
LEMMA StatesBuilt ==
  ASSUME NEW r \in States, NEW st \in {"open", "review", "over"},
         NEW answered \in 0..MaxQuestions, NEW attempt \in 1..MaxAttempts,
         NEW last \in 0..MaxAttempts
  PROVE  /\ [r EXCEPT !.st = st] \in States
         /\ [r EXCEPT !.answered = answered] \in States
         /\ [r EXCEPT !.attempt = attempt] \in States
         /\ [r EXCEPT !.st = st, !.last = last] \in States
BY DEF States

LEMMA Moved ==
  ASSUME TypeOK, Numbered, NEW m \in Missions,
         Answer(m) \/ Submit(m) \/ SendBack(m) \/ End(m) \/ NextAttempt(m)
  PROVE  /\ mission' \in [Missions -> States]
         /\ \A o \in Missions : mission'[o].asked = mission[o].asked
         /\ \A o \in Missions : mission'[o].answered >= mission[o].answered
         /\ \A o \in Missions : mission'[o].attempt >= mission[o].attempt
         /\ \A o \in Missions : mission'[o].last <= mission'[o].attempt
         /\ ~Submit(m) => \A o \in Missions : mission'[o].st = "review" => mission[o].st = "review"
<1>1. /\ mission[m] \in States /\ mission[m].last <= mission[m].attempt
      /\ mission[m].answered \in 0..MaxQuestions /\ mission[m].attempt \in 1..MaxAttempts
      /\ mission[m].last \in 0..MaxAttempts
      /\ DOMAIN mission[m] = {"st", "asked", "answered", "attempt", "last"}
  BY DEF TypeOK, Numbered, States
<1> DEFINE Good(r) == /\ r \in States
                      /\ r.asked = mission[m].asked
                      /\ r.answered >= mission[m].answered
                      /\ r.attempt >= mission[m].attempt
                      /\ r.last <= r.attempt
                      /\ r.st = "review" => mission[m].st = "review" \/ Submit(m)
<1>2. SUFFICES ASSUME NEW r, Good(r), mission' = [mission EXCEPT ![m] = r]
               PROVE  /\ mission' \in [Missions -> States]
                      /\ \A o \in Missions : o # m => mission'[o] = mission[o]
                      /\ mission'[m] = r
  <2>1. \E r : Good(r) /\ mission' = [mission EXCEPT ![m] = r]
    <3>1. CASE Answer(m)
      <4> DEFINE r == [mission[m] EXCEPT !.answered = @ + 1]
      <4>1. mission[m].answered + 1 \in 0..MaxQuestions
        BY <1>1, <3>1, BoundAssumption, SMTT(30) DEF Answer, Numbered, States
      <4>2. r \in States
        BY <1>1, <4>1, StatesBuilt
      <4>3. Good(r)
        BY <1>1, <4>2, BoundAssumption
      <4>4. mission' = [mission EXCEPT ![m] = r]
        BY <3>1 DEF Answer
      <4>5. QED
        BY <4>3, <4>4
    <3>2. CASE Submit(m)
      <4> DEFINE r == [mission[m] EXCEPT !.st = "review", !.last = mission[m].attempt]
      <4> DEFINE n == mission[m].attempt
      <4>1. n \in 0..MaxAttempts /\ n \in 1..MaxAttempts
        BY <1>1, BoundAssumption
      <4> HIDE DEF n
      <4>2. [mission[m] EXCEPT !.st = "review", !.last = n] \in States
        BY <1>1, <4>1, StatesBuilt
      <4>3. Good(r)
        BY <1>1, <3>2, <4>2, BoundAssumption DEF n
      <4>4. mission' = [mission EXCEPT ![m] = r]
        BY <3>2 DEF Submit
      <4>5. QED
        BY <4>3, <4>4
    <3>3. CASE SendBack(m)
      <4> DEFINE r == [mission[m] EXCEPT !.st = "open"]
      <4>1. r \in States
        BY <1>1, StatesBuilt
      <4>2. Good(r)
        BY <1>1, <4>1, BoundAssumption
      <4>3. mission' = [mission EXCEPT ![m] = r]
        BY <3>3 DEF SendBack
      <4>4. QED
        BY <4>2, <4>3
    <3>4. CASE End(m)
      <4> DEFINE r == [mission[m] EXCEPT !.st = "over"]
      <4>1. r \in States
        BY <1>1, StatesBuilt
      <4>2. Good(r)
        BY <1>1, <4>1, BoundAssumption
      <4>3. mission' = [mission EXCEPT ![m] = r]
        BY <3>4 DEF End
      <4>4. QED
        BY <4>2, <4>3
    <3>5. CASE NextAttempt(m)
      <4> DEFINE r == [mission[m] EXCEPT !.attempt = @ + 1]
      <4>1. mission[m].attempt + 1 \in 1..MaxAttempts
        BY <1>1, <3>5, BoundAssumption DEF NextAttempt, States
      <4>2. r \in States
        BY <1>1, <4>1, StatesBuilt
      <4>3. Good(r)
        BY <1>1, <4>2, BoundAssumption
      <4>4. mission' = [mission EXCEPT ![m] = r]
        BY <3>5 DEF NextAttempt
      <4>5. QED
        BY <4>3, <4>4
    <3>6. QED
      BY <3>1, <3>2, <3>3, <3>4, <3>5
  <2> HIDE DEF Good
  <2>2. PICK r : Good(r) /\ mission' = [mission EXCEPT ![m] = r]
    BY <2>1
  <2>3. /\ mission' \in [Missions -> States]
        /\ \A o \in Missions : o # m => mission'[o] = mission[o]
        /\ mission'[m] = r
    BY <1>2, <2>2
  <2>4. \A o \in Missions : /\ mission[o] \in States /\ mission[o].last <= mission[o].attempt
                            /\ mission[o].answered \in Int /\ mission[o].attempt \in Int
    BY DEF TypeOK, Numbered, States
  <2>5. QED
    BY <2>2, <2>3, <2>4 DEF Good
<1>3. QED
  BY <1>2, Changed

(* Submit, in terms of the fields. *)
LEMMA Submitted ==
  ASSUME TypeOK, NEW m \in Missions, Submit(m)
  PROVE  /\ mission'[m].attempt = mission[m].attempt /\ mission'[m].last = mission[m].attempt
         /\ \A o \in Missions : o # m => mission'[o] = mission[o]
BY DEF TypeOK, States, Submit

-----------------------------------------------------------------------------
(* The types. *)
LEMMA CommandTyped ==
  ASSUME TypeOK, Numbered, Command
  PROVE  TypeOK'
<1>1. acts' \in [Missions -> Nat] /\ bridge' \in Bridges /\ ledger' \in Seq(Keys) /\ deaths' \in Nat
      /\ binding' \in [Sessions -> Names \cup {All, None}] /\ active' \in Sessions \cup {None}
  <2>1. /\ acts' = acts \/ \E m \in Missions : acts' = [acts EXCEPT ![m] = @ + 1]
        /\ UNCHANGED <<bridge, ledger, deaths, binding, active>>
    BY KeyShape DEF Command, Escalate, Answer, Submit, SendBack, End, NextAttempt, AckByHand, Repair,
       Act, OutsideTheBridge, registry
  <2>2. acts' \in [Missions -> Nat]
    BY <2>1 DEF TypeOK
  <2>3. QED
    BY <2>1, <2>2 DEF TypeOK
<1>2. mission' \in [Missions -> States]
  <2>1. CASE \E m \in Missions : Escalate(m)
    BY <2>1, Asked
  <2>2. CASE \E m \in Missions : Answer(m) \/ Submit(m) \/ SendBack(m) \/ End(m) \/ NextAttempt(m)
    BY <2>2, Moved
  <2>3. CASE \E k \in Keys : AckByHand(k) \/ Repair(k)
    BY <2>3 DEF AckByHand, Repair, TypeOK
  <2>4. QED
    BY <2>1, <2>2, <2>3 DEF Command
<1>3. row' \in [Keys -> {"absent", "pending", "acked"}]
  <2>1. \/ row' = row
        \/ \E k : row' = Created(k)
        \/ \E k \in Keys : row' = [row EXCEPT ![k] = "acked"]
    BY Zenon DEF Command, Escalate, Answer, Submit, SendBack, End, NextAttempt, AckByHand, Repair
  <2>2. QED
    BY <2>1, CreatedRow DEF TypeOK
<1>4. heard' \in [Keys -> Hearing]
  <2>1. heard' = heard \/ \E k \in Keys : heard' = Unsure({k})
    BY Zenon DEF Command, Escalate, Answer, Submit, SendBack, End, NextAttempt, AckByHand, Repair,
       OutsideTheBridge
  <2>2. ASSUME NEW k \in Keys, heard' = Unsure({k})
        PROVE  heard' \in [Keys -> Hearing]
    <3>1. {k} \in SUBSET Keys
      OBVIOUS
    <3>2. QED
      BY <2>2, <3>1, HeardUnsure
  <2>3. QED
    BY <2>1, <2>2 DEF TypeOK
<1>5. reused' \subseteq Keys
  <2>1. \A m \in Missions : ResultKey(m, mission[m].attempt) \in Keys
    BY KeyShape DEF TypeOK, States
  <2>2. reused' = reused \/ \E m \in Missions : reused' = reused \cup {ResultKey(m, mission[m].attempt)}
    BY Zenon DEF Command, Escalate, Answer, Submit, SendBack, End, NextAttempt, AckByHand, Repair
  <2>3. QED
    BY <2>1, <2>2 DEF TypeOK
<1>6. QED
  BY <1>1, <1>2, <1>3, <1>4, <1>5 DEF TypeOK

LEMMA BindingTyped ==
  ASSUME TypeOK, Binding
  PROVE  TypeOK'
<1>1. PICK o \in Offers : Register(o[1], o[2]) \/ RegisterRecipient(o[1], o[2]) \/ TakeOver(o[1], o[2])
  BY DEF Binding
<1>2. o[1] \in Sessions /\ o[2] \in Names \cup {All}
  BY OfferAssumption
<1>3. InTheRegistry(o[1], o[2]) /\ active' \in Sessions \cup {None}
  BY <1>1, <1>2 DEF Register, RegisterRecipient, TakeOver, Registered, TypeOK
<1>4. QED
  BY <1>2, <1>3 DEF InTheRegistry, TypeOK, platform, OutsideTheBridge

(* Nothing but commands and acknowledgements touches the platform. *)
LEMMA DaemonTyped ==
  ASSUME TypeOK, InHand, EnsureBridge \/ Die \/ Poll
  PROVE  TypeOK'
<1>1. mission' = mission /\ binding' = binding /\ active' = active /\ acts' = acts /\ reused' = reused
  BY DEF EnsureBridge, Die, Poll, PollBegin, FetchOk, FetchFails, Fetch, Send, QueueOk, QueueFails,
     Remember, RememberFails, Ack, Apart, platform, registry
<1>2. bridge.at \in {"queue", "remember", "ack"} => bridge.cur \in Keys
  BY DEF InHand
<1>3. row' \in [Keys -> {"absent", "pending", "acked"}]
  BY <1>2 DEF EnsureBridge, Die, Poll, PollBegin, FetchOk, FetchFails, Fetch, Send, QueueOk, QueueFails,
     Remember, RememberFails, Ack, Apart, platform, TypeOK
<1>4. deaths' \in Nat
  <2>1. deaths' = deaths \/ deaths' = deaths + 1
    BY DEF EnsureBridge, Die, Poll, PollBegin, FetchOk, FetchFails, Fetch, Send, QueueOk, QueueFails,
       Remember, RememberFails, Ack
  <2>2. QED
    BY <2>1 DEF TypeOK
<1>5. ledger' \in Seq(Keys)
  <2>1. ledger' = ledger \/ (bridge.at = "remember" /\ ledger' = Newer(ledger, bridge.cur))
    BY DEF EnsureBridge, Die, Poll, PollBegin, FetchOk, FetchFails, Fetch, Send, QueueOk, QueueFails,
       Remember, RememberFails, Ack
  <2>2. QED
    BY <1>2, <2>1, NewerHolds DEF TypeOK
<1>6. heard' \in [Keys -> Hearing]
  <2>1. \/ heard' = heard
        \/ \E S \in SUBSET Keys : heard' = Unsure(S)
        \/ \E k \in Keys : heard' = Told(k)
    <3>1. CASE EnsureBridge \/ PollBegin \/ (\E r \in bridge.routes : FetchOk(r) \/ FetchFails(r))
               \/ Send \/ Ack
      BY <3>1 DEF EnsureBridge, PollBegin, FetchOk, FetchFails, Fetch, Send, Ack
    <3>2. CASE Die \/ QueueFails \/ RememberFails
      <4>1. bridge.at \in {"queue", "remember"} => {bridge.cur} \in SUBSET Keys
        BY <1>2
      <4>2. heard' = heard \/ (bridge.at \in {"queue", "remember"} /\ heard' = Unsure({bridge.cur}))
        BY <3>2 DEF Die, QueueFails, RememberFails, Late
      <4>3. QED
        BY <4>1, <4>2
    <3>3. CASE \E k \in Keys : QueueOk(k)
      BY <3>3 DEF QueueOk
    <3>4. CASE Remember
      BY <3>4 DEF Remember
    <3>5. QED
      BY <3>1, <3>2, <3>3, <3>4 DEF Poll
  <2>2. QED
    BY <2>1, HeardUnsure, HeardTold DEF TypeOK
<1>7. bridge' \in Bridges
  <2>1. bridge \in Bridges
    BY DEF TypeOK
  <2>2. CASE EnsureBridge \/ QueueFails \/ Remember \/ RememberFails \/ Ack \/ (\E k \in Keys : QueueOk(k))
    BY <2>1, <2>2, ZenonT(40) DEF EnsureBridge, QueueFails, Remember, RememberFails, Ack, QueueOk, Bridges
  <2>3. CASE Die
    BY <2>3 DEF Die, Off, Bridges
  <2>4. CASE PollBegin
    <3>1. PICK a \in Preferred(Registered) : \E R \in RoutesOf(a) : bridge' = [bridge EXCEPT !.routes = R]
      BY <2>4 DEF PollBegin
    <3>2. a \in Sessions
      BY <3>1 DEF Preferred, Registered
    <3>3. BoundNames \subseteq Names \cup {All} /\ Registered \subseteq Sessions
      BY DEF BoundNames, Registered, TypeOK
    <3>4. RoutesOf(a) \subseteq SUBSET ((Names \cup {All}) \X Sessions)
      BY <3>2, <3>3 DEF RoutesOf
    <3>5. QED
      BY <2>1, <3>1, <3>4 DEF Bridges
  <2>5. CASE \E r \in bridge.routes : FetchOk(r) \/ FetchFails(r)
    <3>1. PICK r \in bridge.routes : FetchOk(r) \/ FetchFails(r)
      BY <2>5
    <3>2. r \in (Names \cup {All}) \X Sessions
      BY <2>1 DEF Bridges
    <3>3. Fetched(r) \in SUBSET (Keys \X BOOLEAN \X ((Names \cup {All}) \X Sessions))
      <4>1. \A k \in Keys : StillOpen(k) \in BOOLEAN
        BY OpenOrNot
      <4>2. QED
        BY <3>2, <4>1 DEF Fetched
    <3>4. QED
      BY <2>1, <3>1, <3>3, ZenonT(40) DEF FetchOk, FetchFails, Fetch, Bridges
  <2>6. CASE Send
    <3>1. PICK t \in bridge.todo : \E s \in Targets(t[1], t[3]) :
            bridge' = [bridge EXCEPT
              !.at = IF t[2] /\ ~Contains(ledger, t[1]) THEN "queue" ELSE "ack",
              !.cur = t[1], !.to = IF t[2] /\ ~Contains(ledger, t[1]) THEN s ELSE None,
              !.todo = @ \ {t}]
      BY <2>6 DEF Send
    <3>2. t[1] \in Keys /\ t[3][2] \in Sessions
      BY <2>1 DEF Bridges
    <3>3. Targets(t[1], t[3]) \subseteq Sessions
      BY <3>2 DEF Targets, For, Preferred
    <3>4. \E at \in {"queue", "ack"}, to \in Sessions \cup {None} :
            bridge' = [bridge EXCEPT !.at = at, !.cur = t[1], !.to = to, !.todo = @ \ {t}]
      BY <3>1, <3>3
    <3>5. PICK at \in {"queue", "ack"}, to \in Sessions \cup {None} :
            bridge' = [bridge EXCEPT !.at = at, !.cur = t[1], !.to = to, !.todo = @ \ {t}]
      BY <3>4
    <3>6. bridge' = [at |-> at, routes |-> bridge.routes, todo |-> bridge.todo \ {t},
                     cur |-> t[1], to |-> to]
      BY <2>1, <3>5 DEF Bridges
    <3>7. QED
      BY <2>1, <3>2, <3>6 DEF Bridges
  <2>7. QED
    BY <2>2, <2>3, <2>4, <2>5, <2>6 DEF Poll
<1>8. QED
  BY <1>1, <1>3, <1>4, <1>5, <1>6, <1>7 DEF TypeOK

-----------------------------------------------------------------------------
(* Numbers of rows. *)
LEMMA CommandNumbered ==
  ASSUME TypeOK, Numbered, Command
  PROVE  Numbered'
<1>1. CASE \E m \in Missions : Escalate(m)
  <2>1. PICK m \in Missions : Escalate(m)
    BY <1>1
  <2>2. \A k \in Keys : row'[k] # "absent" /\ k[2] = "result" => row[k] # "absent"
    <3>1. row' = Created(EscalationKey(m, Len(mission[m].asked) + 1))
      BY <2>1 DEF Escalate
    <3>2. \A k \in Keys : k[2] = "result" => k # EscalationKey(m, Len(mission[m].asked) + 1)
      BY DEF EscalationKey
    <3> DEFINE new == EscalationKey(m, Len(mission[m].asked) + 1)
    <3> HIDE DEF new
    <3>3. row' = Created(new)
      BY <3>1 DEF new
    <3>4. \A k \in Keys : k # new => row'[k] = row[k]
      BY <3>3, CreatedRow
    <3>5. QED
      BY <3>2, <3>4 DEF new
  <2>3. QED
    BY <2>1, <2>2, Asked, KeyShape DEF Numbered
<1>2. CASE \E m \in Missions : Answer(m) \/ Submit(m) \/ SendBack(m) \/ End(m) \/ NextAttempt(m)
  <2>1. PICK m \in Missions : Answer(m) \/ Submit(m) \/ SendBack(m) \/ End(m) \/ NextAttempt(m)
    BY <1>2
  <2>2. \A o \in Missions : /\ mission'[o].asked = mission[o].asked
                            /\ mission'[o].attempt >= mission[o].attempt
                            /\ mission'[o].last <= mission'[o].attempt
                            /\ mission'[o].attempt \in Int /\ mission[o].attempt \in Int
    <3>1. mission' \in [Missions -> States] /\ mission \in [Missions -> States]
      BY <2>1, Moved DEF TypeOK
    <3>2. /\ \A o \in Missions : mission'[o].asked = mission[o].asked
          /\ \A o \in Missions : mission'[o].attempt >= mission[o].attempt
          /\ \A o \in Missions : mission'[o].last <= mission'[o].attempt
      BY <2>1, Moved
    <3>3. QED
      BY <3>1, <3>2, BoundAssumption DEF States
  <2>3. \A k \in Keys : row'[k] # "absent" /\ k[2] = "result" =>
          row[k] # "absent" \/ k[3] <= mission[k[1]].attempt
    <3>1. CASE Submit(m)
      <4>1. row' = Created(ResultKey(m, mission[m].attempt))
        BY <3>1 DEF Submit
      <4>2. \A k \in Keys : k = ResultKey(m, mission[m].attempt) => k[3] <= mission[k[1]].attempt
        BY <2>2 DEF ResultKey
      <4> DEFINE new == ResultKey(m, mission[m].attempt)
      <4> HIDE DEF new
      <4>3. row' = Created(new)
        BY <4>1 DEF new
      <4>4. \A k \in Keys : k # new => row'[k] = row[k]
        BY <4>3, CreatedRow
      <4>5. QED
        BY <4>2, <4>4 DEF new
    <3>2. CASE ~Submit(m)
      BY <2>1, <3>2 DEF Answer, SendBack, End, NextAttempt
    <3>3. QED
      BY <3>1, <3>2
  <2>4. \A k \in Keys : row'[k] # "absent" /\ k[2] = "result" => k[3] <= mission[k[1]].attempt
    BY <2>3 DEF Numbered
  <2>5. \A k \in Keys : row'[k] # "absent" /\ k[2] = "result" => k[3] <= mission'[k[1]].attempt
    BY <2>2, <2>4, KeyShape
  <2>6. QED
    BY <2>2, <2>5 DEF Numbered
<1>3. CASE \E k \in Keys : AckByHand(k)
  BY <1>3 DEF AckByHand, Numbered, TypeOK
<1>4. CASE \E k \in Keys : Repair(k)
  <2>1. PICK k \in Keys : Repair(k)
    BY <1>4
  <2>2. k[2] = "result" => k[3] <= mission[k[1]].attempt
    BY <2>1, KeyShape DEF Repair, Missing, Numbered
  <2>3. mission' = mission /\ row' = Created(k)
    BY <2>1 DEF Repair
  <2>4. \A j \in Keys : j # k => row'[j] = row[j]
    BY <2>3, CreatedRow
  <2>5. QED
    BY <2>2, <2>3, <2>4 DEF Numbered
<1>5. QED
  BY <1>1, <1>2, <1>3, <1>4 DEF Command

(* What is over stays over: an answer of the platform that says so does not *)
(* get old.                                                                 *)
LEMMA OverKept ==
  ASSUME TypeOK, reused \subseteq reused',
         \A k \in Keys : row[k] # "absent" => row'[k] # "absent",
         \A o \in Missions : mission[o].answered \in Int /\ mission'[o].answered \in Int,
         \A o \in Missions : mission'[o].answered >= mission[o].answered,
         \A o \in Missions : mission'[o].st = "review" => mission[o].st = "review"
  PROVE  Settled \subseteq Settled'
<1> SUFFICES ASSUME NEW k \in Keys, Over(k), k \notin reused
             PROVE  ~StillOpen(k)'
  BY DEF Over, Settled
<1>1. k[1] \in Missions /\ k[3] \in Int
  BY KeyShape
<1>2. CASE k[2] = "escalated"
  BY <1>1, <1>2 DEF Over, StillOpen
<1>3. CASE k[2] # "escalated"
  <2>1. Newest(k)' => Newest(k)
    BY DEF Newest
  <2>2. QED
    BY <1>1, <1>3, <2>1 DEF Over, StillOpen
<1>4. QED
  BY <1>2, <1>3

LEMMA CommandKeeps ==
  ASSUME TypeOK, Numbered, Command
  PROVE  \A k \in Keys : row[k] # "absent" => /\ row'[k] # "absent"
                                              /\ Over(k) => Over(k)'
<1>1. reused \subseteq reused'
  BY Zenon DEF Command, Escalate, Answer, Submit, SendBack, End, NextAttempt, AckByHand, Repair
<1>2. \A k \in Keys : row[k] # "absent" => row'[k] # "absent"
  <2>1. \/ row' = row
        \/ \E k : row' = Created(k)
        \/ \E k \in Keys : row' = [row EXCEPT ![k] = "acked"]
    BY Zenon DEF Command, Escalate, Answer, Submit, SendBack, End, NextAttempt, AckByHand, Repair
  <2>2. ASSUME NEW k, row' = Created(k)
        PROVE  \A j \in Keys : row[j] # "absent" => row'[j] # "absent"
    <3>1. \A j \in Keys : row[j] # "absent" => row'[j] = row[j]
      BY <2>2, CreatedRow
    <3>2. QED
      BY <3>1
  <2>3. QED
    BY <2>1, <2>2 DEF TypeOK
<1>3. mission \in [Missions -> States] /\ mission' \in [Missions -> States]
  BY CommandTyped DEF TypeOK
<1>4. \A o \in Missions : mission[o].answered \in Int /\ mission'[o].answered \in Int
  BY <1>3 DEF States
<1>5. CASE \E m \in Missions : Submit(m)
  <2>1. PICK m \in Missions : Submit(m)
    BY <1>5
  <2> DEFINE n == mission[m].attempt
             new == ResultKey(m, n)
  <2>2. n \in 1..MaxAttempts /\ new \in Keys /\ row'[new] # "absent"
    <3>1. n \in 1..MaxAttempts
      BY <1>3 DEF States
    <3>2. row' = Created(new)
      BY <2>1 DEF Submit
    <3>3. QED
      BY <3>1, <3>2, KeyShape, CreatedRow
  <2> TAKE k \in Keys
  <2> SUFFICES ASSUME row[k] # "absent", Over(k), k \notin reused'
               PROVE  ~StillOpen(k)'
    BY <1>2 DEF Over
  <2>3. k[1] \in Missions /\ k[3] \in Int /\ ~StillOpen(k)
    BY <1>1, KeyShape DEF Over
  <2>4. CASE k[2] = "escalated"
    <3>1. mission'[k[1]].answered = mission[k[1]].answered
      BY <2>1, <2>3, <1>3 DEF Submit, States
    <3>2. QED
      BY <2>3, <2>4, <3>1 DEF StillOpen
  <2>5. CASE k[2] = "result" /\ k[1] = m
    <3>1. k[3] <= n
      BY <2>5 DEF Numbered
    <3>2. k # new
      BY <2>1 DEF Submit
    <3>3. k[3] # n
      BY <2>5, <3>2, KeyShape DEF ResultKey
    <3>4. new[1] = k[1] /\ new[2] = "result" /\ new[3] = n /\ ~(n <= k[3])
      BY <2>2, <2>3, <2>5, <3>1, <3>3 DEF ResultKey
    <3>5. ~Newest(k)'
      BY <2>2, <3>4 DEF Newest
    <3>6. QED
      BY <2>5, <3>5 DEF StillOpen
  <2>6. CASE k[2] = "result" /\ k[1] # m
    <3>1. mission'[k[1]] = mission[k[1]]
      BY <2>1, <2>3, <2>6, Submitted
    <3>2. Newest(k)' => Newest(k)
      BY <1>2 DEF Newest
    <3>3. QED
      BY <2>3, <2>6, <3>1, <3>2 DEF StillOpen
  <2>7. QED
    BY <2>4, <2>5, <2>6, KeyShape
<1>6. CASE ~\E m \in Missions : Submit(m)
  <2>1. \A o \in Missions : /\ mission'[o].answered >= mission[o].answered
                            /\ mission'[o].st = "review" => mission[o].st = "review"
    <3>1. CASE \E m \in Missions : Escalate(m)
      BY <1>4, <3>1, Asked
    <3>2. CASE \E m \in Missions : Answer(m) \/ SendBack(m) \/ End(m) \/ NextAttempt(m)
      <4>1. PICK m \in Missions : Answer(m) \/ SendBack(m) \/ End(m) \/ NextAttempt(m)
        BY <3>2
      <4>2. Answer(m) \/ Submit(m) \/ SendBack(m) \/ End(m) \/ NextAttempt(m)
        BY <4>1
      <4>3. \A o \in Missions : mission'[o].answered >= mission[o].answered
        BY <4>2, Moved
      <4>4. \A o \in Missions : mission'[o].st = "review" => mission[o].st = "review"
        BY <1>6, <4>2, Moved
      <4>5. QED
        BY <4>3, <4>4
    <3>3. CASE \E k \in Keys : AckByHand(k) \/ Repair(k)
      BY <1>4, <3>3 DEF AckByHand, Repair
    <3>4. QED
      BY <1>6, <3>1, <3>2, <3>3 DEF Command
  <2>2. /\ \A o \in Missions : mission'[o].answered >= mission[o].answered
        /\ \A o \in Missions : mission'[o].st = "review" => mission[o].st = "review"
    BY <2>1
  <2>3. Settled \subseteq Settled'
    BY <1>1, <1>2, <1>4, <2>2, OverKept
  <2>4. QED
    BY <1>2, <2>3 DEF Settled
<1>7. QED
  BY <1>5, <1>6

-----------------------------------------------------------------------------
(* What is held, told and acknowledged, under the commands. *)
LEMMA CommandHears ==
  ASSUME TypeOK, Command
  PROVE  /\ \A k \in Keys : heard[k] # "no" => heard'[k] # "no"
         /\ \A k \in Keys : heard'[k] = "once" => heard[k] = "once"
         /\ \A k \in Keys : heard'[k] = "twice" => heard[k] = "twice"
         /\ \A k \in Keys : row'[k] = "acked" => row[k] = "acked" \/ heard'[k] # "no"
<1>1. CASE \E k \in Keys : AckByHand(k)
  <2>1. PICK k \in Keys : AckByHand(k)
    BY <1>1
  <2>2. {k} \in SUBSET Keys /\ heard' = Unsure({k}) /\ row' = [row EXCEPT ![k] = "acked"]
    BY <2>1 DEF AckByHand
  <2>3. \A j \in Keys : row'[j] = "acked" => row[j] = "acked" \/ j = k
    BY <2>2 DEF TypeOK
  <2>4. QED
    BY <2>2, <2>3, HeardUnsure
<1>2. CASE ~\E k \in Keys : AckByHand(k)
  <2>1. heard' = heard
    BY <1>2, Zenon DEF Command, Escalate, Answer, Submit, SendBack, End, NextAttempt, Repair, OutsideTheBridge
  <2>2. row' = row \/ \E k : row' = Created(k)
    BY <1>2, Zenon DEF Command, Escalate, Answer, Submit, SendBack, End, NextAttempt, Repair
  <2>3. ASSUME NEW k, row' = Created(k)
        PROVE  \A j \in Keys : row'[j] = "acked" => row[j] = "acked"
    BY <2>3, CreatedRow
  <2>4. QED
    BY <2>1, <2>2, <2>3
<1>3. QED
  BY <1>1, <1>2

LEMMA CommandSafe ==
  ASSUME IInv, Command
  PROVE  InHand' /\ Ledgered' /\ AckedWasHeard' /\ ToldOnce'
<1>1. UNCHANGED <<bridge, ledger>>
  BY DEF Command, Escalate, Answer, Submit, SendBack, End, NextAttempt, AckByHand, Repair, OutsideTheBridge
<1>2. \A k \in Keys : row[k] # "absent" => row'[k] # "absent"
  BY CommandKeeps DEF IInv
<1>3. \A k \in Keys : row[k] # "absent" /\ Over(k) => Over(k)'
  BY CommandKeeps DEF IInv
<1>4. /\ \A k \in Keys : heard[k] # "no" => heard'[k] # "no"
      /\ \A k \in Keys : heard'[k] = "once" => heard[k] = "once"
      /\ \A k \in Keys : heard'[k] = "twice" => heard[k] = "twice"
      /\ \A k \in Keys : row'[k] = "acked" => row[k] = "acked" \/ heard'[k] # "no"
  BY CommandHears DEF IInv
<1>5. \A t \in bridge.todo : t[1] \in Keys
  BY DEF IInv, TypeOK, Bridges
<1>6. InHand'
  BY <1>1, <1>2, <1>3, <1>4, <1>5 DEF IInv, InHand
<1>7. Ledgered' /\ ToldOnce'
  BY <1>1, <1>4 DEF IInv, Ledgered, ToldOnce
<1>8. AckedWasHeard'
  <2>1. \A k \in Keys : row[k] = "acked" => heard[k] # "no" \/ Over(k)
    BY DEF IInv, AckedWasHeard, Over
  <2>2. \A k \in Keys : row'[k] = "acked" => heard'[k] # "no" \/ Over(k)'
    BY <1>3, <1>4, <2>1
  <2>3. QED
    BY <2>2 DEF AckedWasHeard, Over
<1>9. QED
  BY <1>6, <1>7, <1>8

(* The registry of sessions decides who is told, not what. *)
LEMMA BindingSafe ==
  ASSUME IInv, Binding
  PROVE  Numbered' /\ InHand' /\ Ledgered' /\ AckedWasHeard' /\ ToldOnce'
<1>1. UNCHANGED <<mission, row, reused, ledger, bridge, heard>>
  BY DEF Binding, Register, RegisterRecipient, TakeOver, InTheRegistry, platform, OutsideTheBridge
<1>2. QED
  BY <1>1 DEF IInv, Numbered, InHand, Ledgered, AckedWasHeard, ToldOnce, Over, StillOpen, Newest

-----------------------------------------------------------------------------
(* And under the steps of the daemon. *)
LEMMA DaemonKeeps ==
  ASSUME IInv, EnsureBridge \/ Die \/ Poll
  PROVE  /\ mission' = mission /\ reused' = reused
         /\ \A k \in Keys : row[k] # "absent" => row'[k] # "absent"
         /\ \A k \in Keys : row[k] = "absent" => row'[k] = "absent"
         /\ \A k \in Keys : Over(k) => Over(k)'
         /\ \A k \in Keys : row'[k] = "acked" => row[k] = "acked" \/ (bridge.at = "ack" /\ bridge.cur = k)
         /\ ~Ack => row' = row
<1>1. mission' = mission /\ reused' = reused
  BY DEF EnsureBridge, Die, Poll, PollBegin, FetchOk, FetchFails, Fetch, Send, QueueOk, QueueFails,
     Remember, RememberFails, Ack, Apart, platform
<1>2. ~Ack => row' = row
  BY DEF EnsureBridge, Die, Poll, PollBegin, FetchOk, FetchFails, Fetch, Send, QueueOk, QueueFails,
     Remember, RememberFails, Apart, platform
<1>3. Ack => bridge.at = "ack" /\ (row' = row \/ row' = [row EXCEPT ![bridge.cur] = "acked"])
             /\ bridge.cur \in Keys /\ row[bridge.cur] # "absent"
  BY DEF Ack, IInv, InHand
<1>4. /\ \A k \in Keys : row[k] # "absent" => row'[k] # "absent"
      /\ \A k \in Keys : row[k] = "absent" => row'[k] = "absent"
      /\ \A k \in Keys : row'[k] = "acked" => row[k] = "acked" \/ (bridge.at = "ack" /\ bridge.cur = k)
  BY <1>2, <1>3 DEF IInv, TypeOK
<1>5. Settled \subseteq Settled'
  <2>1. \A o \in Missions : mission[o].answered \in Int
    BY DEF IInv, TypeOK, States
  <2>2. QED
    BY <1>1, <1>4, <2>1, OverKept DEF IInv
<1>6. QED
  BY <1>1, <1>2, <1>4, <1>5 DEF Settled

(* Every step but a fetch takes from what is left of the answer. *)
LEMMA DaemonTodo ==
  ASSUME IInv, EnsureBridge \/ Die \/ Poll
  PROVE  \A t \in bridge'.todo : row'[t[1]] # "absent" /\ (t[2] \/ Over(t[1])')
<1>1. bridge \in Bridges /\ \A t \in bridge.todo : t[1] \in Keys
  BY DEF IInv, TypeOK, Bridges
<1>2. /\ \A k \in Keys : row[k] # "absent" => row'[k] # "absent"
      /\ \A k \in Keys : Over(k) => Over(k)'
  BY DaemonKeeps
<1>3. CASE \E r \in bridge.routes : FetchOk(r)
  <2>1. PICK r \in bridge.routes : FetchOk(r)
    BY <1>3
  <2>2. bridge'.todo = Fetched(r)
    BY <1>1, <2>1 DEF FetchOk, Fetch, Bridges
  <2>3. \A t \in Fetched(r) : t[1] \in Keys /\ row[t[1]] = "pending" /\ t[2] = StillOpen(t[1])
    BY DEF Fetched
  <2>4. \A t \in Fetched(r) : t[2] \/ Over(t[1])
    BY <2>3 DEF Over
  <2>5. QED
    BY <1>2, <2>2, <2>3, <2>4
<1>4. CASE ~\E r \in bridge.routes : FetchOk(r)
  <2>1. bridge'.todo \subseteq bridge.todo
    <3>1. CASE Die
      BY <3>1 DEF Die, Off
    <3>2. CASE EnsureBridge \/ PollBegin \/ QueueFails \/ Remember \/ RememberFails \/ Ack \/ \E k \in Keys : QueueOk(k)
      BY <1>1, <3>2 DEF EnsureBridge, PollBegin, QueueFails, Remember, RememberFails, Ack, QueueOk, Bridges
    <3>3. CASE \E r \in bridge.routes : FetchFails(r)
      BY <1>1, <3>3 DEF FetchFails, Fetch, Bridges
    <3>4. CASE Send
      BY <1>1, <3>4 DEF Send, Bridges
    <3>5. QED
      BY <1>4, <3>1, <3>2, <3>3, <3>4 DEF Poll
  <2>2. \A t \in bridge.todo : row[t[1]] # "absent" /\ (t[2] \/ Over(t[1]))
    BY DEF IInv, InHand
  <2>3. QED
    BY <1>1, <1>2, <2>1, <2>2
<1>5. QED
  BY <1>3, <1>4

(* The message, the ledger and a death between them. *)
LEMMA DaemonHears ==
  ASSUME IInv, EnsureBridge \/ Die \/ Poll
  PROVE  /\ \A k \in Keys : heard[k] # "no" => heard'[k] # "no"
         /\ ToldOnce' /\ Ledgered'
<1>1. bridge \in Bridges /\ ledger \in Seq(Keys) /\ heard \in [Keys -> Hearing]
  BY DEF IInv, TypeOK
<1>2. /\ \A k \in Keys : Contains(ledger, k) => heard[k] # "no"
      /\ \A k \in Keys : heard[k] = "once" =>
           Contains(ledger, k) \/ (bridge.at = "remember" /\ bridge.cur = k)
      /\ \A k \in Keys : heard[k] # "twice"
  BY DEF IInv, Ledgered, ToldOnce
<1>3. bridge.at \in {"queue", "remember", "ack"} => bridge.cur \in Keys
  BY DEF IInv, InHand
<1>4. CASE /\ heard' = heard /\ ledger' = ledger
           /\ bridge.at # "remember" \/ (bridge'.at = "remember" /\ bridge'.cur = bridge.cur)
  BY <1>2, <1>4 DEF ToldOnce, Ledgered
<1>5. CASE /\ bridge.at \in {"queue", "remember"} /\ heard' = Unsure({bridge.cur}) /\ ledger' = ledger
  <2>1. {bridge.cur} \in SUBSET Keys
    BY <1>3, <1>5
  <2>2. /\ \A k \in Keys : heard[k] # "no" => heard'[k] # "no"
        /\ \A k \in Keys : heard'[k] = "once" => heard[k] = "once" /\ k # bridge.cur
        /\ \A k \in Keys : heard'[k] = "twice" => heard[k] = "twice"
    BY <1>5, <2>1, HeardUnsure DEF IInv
  <2>3. QED
    BY <1>2, <1>5, <2>2 DEF ToldOnce, Ledgered
<1>6. CASE EnsureBridge \/ PollBegin \/ (\E r \in bridge.routes : FetchOk(r) \/ FetchFails(r)) \/ Send \/ Ack
  BY <1>4, <1>6 DEF EnsureBridge, PollBegin, FetchOk, FetchFails, Fetch, Send, Ack
<1>7. CASE Die \/ QueueFails \/ RememberFails
  <2>1. /\ ledger' = ledger
        /\ \/ heard' = heard /\ bridge.at # "remember"
           \/ bridge.at \in {"queue", "remember"} /\ heard' = Unsure({bridge.cur})
    BY <1>7 DEF Die, QueueFails, RememberFails, Late
  <2>2. QED
    BY <1>4, <1>5, <2>1
<1>8. CASE \E k \in Keys : QueueOk(k)
  <2>1. PICK k \in Keys : QueueOk(k)
    BY <1>8
  <2>2. bridge.at = "queue" /\ bridge.cur = k /\ heard' = Told(k) /\ ledger' = ledger
        /\ bridge'.at = "remember" /\ bridge'.cur = k
    BY <1>1, <2>1 DEF QueueOk, Bridges
  <2>3. heard[k] \notin {"once", "twice"}
    BY <1>2, <2>2 DEF IInv, InHand
  <2>4. /\ \A j \in Keys : j # k => heard'[j] = heard[j]
        /\ heard'[k] # "no" /\ heard'[k] # "twice"
    BY <2>2, <2>3, HeardTold DEF IInv
  <2>5. QED
    BY <1>2, <2>2, <2>4 DEF ToldOnce, Ledgered
<1>9. CASE Remember
  <2> DEFINE S == {k \in Keys : Contains(ledger, k) /\ ~Contains(ledger', k)}
             cur == bridge.cur
  <2>1. bridge.at = "remember" /\ cur \in Keys /\ heard[cur] # "no" /\ ledger' = Newer(ledger, cur)
    BY <1>3, <1>9 DEF Remember, IInv, InHand
  <2>2. /\ Contains(ledger', cur)
        /\ \A j \in Keys : Contains(ledger', j) => j = cur \/ Contains(ledger, j)
    BY <1>1, <2>1, NewerHolds
  <2>3. S \in SUBSET Keys /\ heard' = Unsure(S)
    BY <1>9 DEF Remember
  <2>4. \A k \in Keys : k \in S <=> Contains(ledger, k) /\ ~Contains(ledger', k)
    OBVIOUS
  <2> HIDE DEF S, cur
  <2>5. /\ \A k \in Keys : heard[k] # "no" => heard'[k] # "no"
        /\ \A k \in Keys : heard'[k] = "once" => heard[k] = "once" /\ k \notin S
        /\ \A k \in Keys : heard'[k] = "twice" => heard[k] = "twice"
    BY <2>3, HeardUnsure DEF IInv
  <2>6. \A k \in Keys : Contains(ledger', k) => heard'[k] # "no"
    BY <1>2, <2>1, <2>2, <2>5
  <2>7. \A k \in Keys : heard'[k] = "once" => Contains(ledger', k)
    BY <1>2, <2>2, <2>4, <2>5 DEF cur
  <2>8. QED
    BY <1>2, <2>5, <2>6, <2>7 DEF ToldOnce, Ledgered
<1>10. QED
  BY <1>6, <1>7, <1>8, <1>9 DEF Poll

LEMMA DaemonHolds ==
  ASSUME IInv, EnsureBridge \/ Die \/ Poll
  PROVE  InHand'
<1>1. bridge \in Bridges /\ heard \in [Keys -> Hearing]
  BY DEF IInv, TypeOK
<1>2. \A t \in bridge'.todo : row'[t[1]] # "absent" /\ (t[2] \/ Over(t[1])')
  BY DaemonTodo
<1>3. /\ \A k \in Keys : row[k] # "absent" => row'[k] # "absent"
      /\ \A k \in Keys : Over(k) => Over(k)'
      /\ ~Ack => row' = row
  BY DaemonKeeps
<1>4. \A k \in Keys : heard[k] # "no" => heard'[k] # "no"
  BY DaemonHears
<1>5. bridge.at \in {"queue", "remember", "ack"} => bridge.cur \in Keys /\ row[bridge.cur] # "absent"
  BY DEF IInv, InHand
<1>6. CASE bridge'.at \in {"off", "loop"}
  BY <1>2, <1>6 DEF InHand
<1>7. CASE EnsureBridge \/ Die \/ PollBegin \/ QueueFails \/ RememberFails \/ Ack
           \/ (\E r \in bridge.routes : FetchOk(r) \/ FetchFails(r))
  <2>1. bridge'.at \in {"off", "loop"}
    <3>1. CASE EnsureBridge \/ QueueFails \/ RememberFails \/ Ack
      BY <1>1, <3>1 DEF EnsureBridge, QueueFails, RememberFails, Ack, Bridges
    <3>2. CASE PollBegin \/ \E r \in bridge.routes : FetchOk(r) \/ FetchFails(r)
      BY <1>1, <3>2 DEF PollBegin, FetchOk, FetchFails, Fetch, Bridges
    <3>3. CASE Die
      BY <3>3 DEF Die, Off
    <3>4. QED
      BY <1>7, <3>1, <3>2, <3>3
  <2>2. QED
    BY <1>6, <2>1
<1>8. CASE Send
  <2>1. PICK t \in bridge.todo : /\ bridge'.cur = t[1]
                                /\ \/ bridge'.at = "queue" /\ ~Contains(ledger, t[1])
                                   \/ bridge'.at = "ack" /\ (~t[2] \/ Contains(ledger, t[1]))
    BY <1>1, <1>8 DEF Send, Bridges
  <2>2. t[1] \in Keys /\ row[t[1]] # "absent" /\ (t[2] \/ Over(t[1]))
    BY <1>1 DEF IInv, InHand, Bridges
  <2>3. ledger' = ledger /\ heard' = heard
    BY <1>8 DEF Send
  <2>4. Contains(ledger, t[1]) => heard[t[1]] # "no"
    BY <2>2 DEF IInv, Ledgered
  <2>5. QED
    BY <1>2, <1>3, <2>1, <2>2, <2>3, <2>4 DEF InHand
<1>9. CASE \E k \in Keys : QueueOk(k)
  <2>1. PICK k \in Keys : QueueOk(k)
    BY <1>9
  <2>2. bridge'.at = "remember" /\ bridge'.cur = k /\ bridge.cur = k /\ bridge.at = "queue"
        /\ heard' = Told(k)
    BY <1>1, <2>1 DEF QueueOk, Bridges
  <2>3. heard'[k] # "no"
    BY <2>2, HeardTold DEF IInv
  <2>4. QED
    BY <1>2, <1>3, <1>5, <2>2, <2>3 DEF InHand
<1>10. CASE Remember
  <2>1. bridge'.at = "ack" /\ bridge'.cur = bridge.cur /\ bridge.at = "remember"
    BY <1>1, <1>10 DEF Remember, Bridges
  <2>2. heard[bridge.cur] # "no"
    BY <2>1 DEF IInv, InHand
  <2>3. QED
    BY <1>2, <1>3, <1>4, <1>5, <2>1, <2>2 DEF InHand
<1>11. QED
  BY <1>7, <1>8, <1>9, <1>10 DEF Poll

LEMMA DaemonAcks ==
  ASSUME IInv, EnsureBridge \/ Die \/ Poll
  PROVE  AckedWasHeard' /\ Numbered'
<1>1. /\ mission' = mission
      /\ \A k \in Keys : row[k] = "absent" => row'[k] = "absent"
      /\ \A k \in Keys : Over(k) => Over(k)'
      /\ \A k \in Keys : row'[k] = "acked" => row[k] = "acked" \/ (bridge.at = "ack" /\ bridge.cur = k)
  BY DaemonKeeps
<1>2. \A k \in Keys : heard[k] # "no" => heard'[k] # "no"
  BY DaemonHears
<1>3. \A k \in Keys : row'[k] = "acked" => heard[k] # "no" \/ Over(k)
  BY <1>1 DEF IInv, InHand, AckedWasHeard, Over
<1>4. \A k \in Keys : row'[k] = "acked" => heard'[k] # "no" \/ Over(k)'
  BY <1>1, <1>2, <1>3
<1>5. AckedWasHeard'
  BY <1>4 DEF AckedWasHeard, Over
<1>6. Numbered'
  BY <1>1 DEF IInv, Numbered
<1>7. QED
  BY <1>5, <1>6

-----------------------------------------------------------------------------
LEMMA InitIInv == Init => IInv
<1> SUFFICES ASSUME Init PROVE IInv
  OBVIOUS
<1>1. \A m \in Missions : WellFormed(mission[m])
  BY StartAssumption DEF Init
<1>2. mission \in [Missions -> States]
  BY StartAssumption DEF Init
<1>3. PICK S \in SUBSET {k \in Keys : Known(k)} :
        row = [k \in Keys |-> IF k \in S THEN "pending" ELSE "absent"]
  BY DEF Init
<1>4. ledger \in Seq(Keys) /\ Len(ledger) = 0
  BY DEF Init
<1>5. TypeOK
  <2>1. bridge \in Bridges
    BY DEF Init, Off, Bridges
  <2>2. acts \in [Missions -> Nat] /\ deaths \in Nat /\ heard \in [Keys -> Hearing]
    BY DEF Init, Hearing
  <2>3. binding \in [Sessions -> Names \cup {All, None}] /\ active \in Sessions \cup {None}
    BY DEF Init
  <2>4. row \in [Keys -> {"absent", "pending", "acked"}] /\ reused \subseteq Keys
    BY <1>3 DEF Init
  <2>5. QED
    BY <1>2, <1>4, <2>1, <2>2, <2>3, <2>4 DEF TypeOK
<1>6. Numbered
  <2>1. \A m \in Missions : Len(mission[m].asked) <= MaxQuestions /\ mission[m].last <= mission[m].attempt
    BY <1>1 DEF WellFormed
  <2>2. ASSUME NEW k \in Keys, row[k] # "absent", k[2] = "result"
        PROVE  k[3] <= mission[k[1]].attempt
    <3>1. k[3] <= mission[k[1]].last
      BY <1>3, <2>2 DEF Known
    <3>2. k[3] \in Int /\ k[1] \in Missions
      BY KeyShape
    <3>3. mission[k[1]] \in States
      BY <1>2, <3>2
    <3>4. mission[k[1]].last \in Int /\ mission[k[1]].attempt \in Int
      BY <3>3 DEF States
    <3>5. QED
      BY <2>1, <3>1, <3>2, <3>4
  <2>3. QED
    BY <2>1, <2>2 DEF Numbered
<1>7. InHand
  BY DEF Init, Off, InHand
<1>8. Ledgered /\ ToldOnce
  BY <1>4 DEF Init, Ledgered, ToldOnce, Contains
<1>9. AckedWasHeard
  BY <1>3 DEF AckedWasHeard
<1>10. QED
  BY <1>5, <1>6, <1>7, <1>8, <1>9 DEF IInv

LEMMA NextIInv == IInv /\ [Next]_vars => IInv'
<1> SUFFICES ASSUME IInv, [Next]_vars PROVE IInv'
  OBVIOUS
<1>1. CASE Command
  <2>1. TypeOK' /\ Numbered'
    BY <1>1, CommandTyped, CommandNumbered DEF IInv
  <2>2. QED
    BY <1>1, <2>1, CommandSafe DEF IInv
<1>2. CASE Binding
  <2>1. TypeOK'
    BY <1>2, BindingTyped DEF IInv
  <2>2. QED
    BY <1>2, <2>1, BindingSafe DEF IInv
<1>3. CASE EnsureBridge \/ Die \/ Poll
  <2>1. TypeOK'
    BY <1>3, DaemonTyped DEF IInv
  <2>2. QED
    BY <1>3, <2>1, DaemonHears, DaemonHolds, DaemonAcks DEF IInv
<1>4. CASE UNCHANGED vars
  BY <1>4 DEF vars, IInv, TypeOK, Numbered, InHand, Ledgered, AckedWasHeard, ToldOnce, Over, StillOpen, Newest
<1>5. QED
  BY <1>1, <1>2, <1>3, <1>4 DEF Next

LEMMA Inductive == Spec => []IInv
BY InitIInv, NextIInv, PTL DEF Spec

(* The platform's rows, the registry, the ledger and the daemon keep their *)
(* types, for any number of Missions, chats and deaths.                    *)
THEOREM Typed == Spec => []TypeOK
BY Inductive, PTL DEF IInv

(* A Delivery is acknowledged only when a chat was told of it, somebody    *)
(* took it, or it is over for good: whatever deaths, failing messages,     *)
(* lost acknowledgements and old answers lie between the platform and L3.  *)
THEOREM NothingIsLost == Spec => []AckedWasHeard
BY Inductive, PTL DEF IInv

(* No chat is told twice what the ledger could know it was told, for any   *)
(* size of the ledger.                                                     *)
THEOREM NothingIsRepeated == Spec => []ToldOnce
BY Inductive, PTL DEF IInv

-----------------------------------------------------------------------------
(* The Mailbox.  What is over depends on the Missions and on which rows     *)
(* there are, not on where they are.                                        *)
LEMMA OverSame ==
  ASSUME mission' = mission, reused' = reused,
         \A k \in Keys : row'[k] = "absent" <=> row[k] = "absent"
  PROVE  Moot' = Moot
<1>1. \A k \in Keys : Newest(k)' <=> Newest(k)
  BY DEF Newest
<1>2. \A k \in Keys : StillOpen(k)' = StillOpen(k)
  BY <1>1, Zenon DEF StillOpen
<1>3. QED
  BY <1>2, Zenon DEF Moot

LEMMA PlaceOf ==
  ASSUME TypeOK
  PROVE  /\ Place \in [Keys -> {"absent", "waiting", "gone"}]
         /\ \A k \in Keys : /\ Place[k] = "absent" <=> row[k] = "absent"
                            /\ Place[k] = "waiting" <=> row[k] = "pending"
                            /\ Place[k] = "gone" <=> row[k] = "acked"
BY DEF TypeOK, Place

LEMMA MootPosted ==
  ASSUME TypeOK
  PROVE  Moot \subseteq {k \in Keys : Place[k] # "absent"}
BY PlaceOf DEF Moot

(* A row becomes another: so does its place, and no other.                  *)
LEMMA PlaceMoves ==
  ASSUME TypeOK, TypeOK', NEW c \in Keys, NEW w \in {"waiting", "gone"},
         row'[c] = (IF w = "waiting" THEN "pending" ELSE "acked"),
         \A k \in Keys : k # c => row'[k] = row[k]
  PROVE  Place' = [Place EXCEPT ![c] = w]
<1>1. Place' \in [Keys -> {"absent", "waiting", "gone"}] /\ Place'[c] = w
  BY DEF TypeOK, Place
<1>2. ASSUME NEW k \in Keys, k # c
      PROVE  Place'[k] = Place[k]
  <2>1. row'[k] = row[k] /\ row[k] \in {"absent", "pending", "acked"}
    BY <1>2 DEF TypeOK
  <2>2. QED
    BY <2>1 DEF Place
<1>3. QED
  BY <1>1, <1>2, PlaceOf

LEMMA MootGrows ==
  ASSUME TypeOK, Numbered, Command
  PROVE  Moot \subseteq Moot'
BY CommandKeeps DEF Moot, Over

(* A command that leaves heard alone posts a letter, or the world goes on.  *)
LEMMA CommandPosts ==
  ASSUME IInv, TypeOK', Command, heard' = heard,
         row' = row \/ \E k \in Keys : row' = Created(k)
  PROVE  Box!Next
<1>1. Heard' = Heard
  BY DEF Heard
<1>2. Moot \subseteq Moot'
  BY MootGrows DEF IInv
<1>3. Moot' \subseteq {k \in Keys : Place'[k] # "absent"}
  <2>1. \A k \in Keys : row'[k] \in {"absent", "pending", "acked"}
    BY DEF TypeOK
  <2>2. \A k \in Keys : row'[k] # "absent" => Place'[k] # "absent"
    BY <2>1 DEF Place
  <2>3. QED
    BY <2>2 DEF Moot
<1>4. CASE row' = row
  <2>1. Place' = Place
    BY <1>4 DEF Place
  <2>2. Box!Expire
    BY <1>1, <1>2, <1>3, <2>1 DEF Box!Expire, Box!Posted
  <2>3. QED
    BY <2>2 DEF Box!Next
<1>5. CASE row' # row
  <2>1. PICK k \in Keys : row' = Created(k)
    BY <1>5
  <2>2. row[k] = "absent" /\ row'[k] = "pending" /\ \A j \in Keys : j # k => row'[j] = row[j]
    BY <1>5, <2>1 DEF IInv, TypeOK, Created
  <2>3. Place' = [Place EXCEPT ![k] = "waiting"]
    BY <2>2, PlaceMoves DEF IInv
  <2>4. Place[k] = "absent"
    BY <2>2, PlaceOf DEF IInv
  <2>5. Box!Post(k)
    BY <1>1, <1>2, <1>3, <2>3, <2>4 DEF Box!Post, Box!Posted
  <2>6. QED
    BY <2>5 DEF Box!Next
<1>6. QED
  BY <1>4, <1>5

(* The exception is a person who takes a Delivery himself.                  *)
LEMMA CommandMaps ==
  ASSUME IInv, TypeOK', Command
  PROVE  Box!Next
<1>1. CASE \E k \in Keys : AckByHand(k)
  <2>1. PICK k \in Keys : AckByHand(k)
    BY <1>1
  <2>2. /\ row[k] = "pending" /\ row' = [row EXCEPT ![k] = "acked"]
        /\ heard' = Unsure({k}) /\ mission' = mission /\ reused' = reused
    BY <2>1 DEF AckByHand
  <2>3. row'[k] = "acked" /\ \A j \in Keys : j # k => row'[j] = row[j]
    BY <2>2 DEF IInv, TypeOK
  <2>4. Place' = [Place EXCEPT ![k] = "gone"]
    BY <2>3, PlaceMoves DEF IInv
  <2>5. Place[k] = "waiting"
    BY <2>2, PlaceOf DEF IInv
  <2>6. Heard' = Heard \cup {k}
    BY <2>2 DEF Heard, Unsure, IInv, TypeOK
  <2>7. Moot' = Moot
    <3>1. \A j \in Keys : row'[j] = "absent" <=> row[j] = "absent"
      BY <2>2, <2>3
    <3>2. QED
      BY <2>2, <3>1, OverSame
  <2>8. Box!TakeByHand(k)
    BY <2>4, <2>5, <2>6, <2>7 DEF Box!TakeByHand
  <2>9. QED
    BY <2>8 DEF Box!Next
<1>2. CASE ~\E k \in Keys : AckByHand(k)
  <2>1. heard' = heard
    BY <1>2, Zenon DEF Command, Escalate, Answer, Submit, SendBack, End, NextAttempt, Repair, OutsideTheBridge
  <2>2. row' = row \/ \E k \in Keys : row' = Created(k)
    <3>1. CASE \E m \in Missions : Escalate(m)
      <4>1. PICK m \in Missions : Escalate(m)
        BY <3>1
      <4>2. Len(mission[m].asked) + 1 \in 1..MaxQuestions
        <5>1. mission[m].asked \in Seq(0..MaxAttempts) /\ Len(mission[m].asked) < MaxQuestions
          BY <4>1 DEF IInv, TypeOK, States, Escalate
        <5>2. QED
          BY <5>1, BoundAssumption
      <4>3. EscalationKey(m, Len(mission[m].asked) + 1) \in Keys
        BY <4>2 DEF Keys, EscalationKey
      <4>4. QED
        BY <4>1, <4>3 DEF Escalate
    <3>2. CASE \E m \in Missions : Submit(m)
      <4>1. PICK m \in Missions : Submit(m)
        BY <3>2
      <4>2. mission[m].attempt \in 1..MaxAttempts
        BY DEF IInv, TypeOK, States
      <4>3. ResultKey(m, mission[m].attempt) \in Keys
        BY <4>2, KeyShape
      <4>4. QED
        BY <4>1, <4>3 DEF Submit
    <3>3. CASE \E m \in Missions : Answer(m) \/ SendBack(m) \/ End(m) \/ NextAttempt(m)
      BY <3>3 DEF Answer, SendBack, End, NextAttempt
    <3>4. CASE \E k \in Keys : Repair(k)
      BY <3>4 DEF Repair
    <3>5. QED
      BY <1>2, <3>1, <3>2, <3>3, <3>4 DEF Command
  <2>3. QED
    BY <2>1, <2>2, CommandPosts
<1>3. QED
  BY <1>1, <1>2

(* What the daemon tells, it has in hand: a message that succeeds, or one   *)
(* that may yet.  The rest of what it believes was heard already.           *)
LEMMA DaemonTells ==
  ASSUME IInv, EnsureBridge \/ Die \/ Poll
  PROVE  Heard' = Heard \/ (bridge.at = "queue" /\ Heard' = Heard \cup {bridge.cur})
<1>1. bridge \in Bridges /\ ledger \in Seq(Keys) /\ heard \in [Keys -> Hearing]
  BY DEF IInv, TypeOK
<1>2. /\ \A k \in Keys : Contains(ledger, k) => heard[k] # "no"
      /\ bridge.at = "remember" => heard[bridge.cur] # "no"
      /\ bridge.at \in {"queue", "remember", "ack"} => bridge.cur \in Keys
  BY DEF IInv, Ledgered, InHand
<1>3. CASE heard' = heard
  BY <1>3 DEF Heard
<1>4. ASSUME NEW S \in SUBSET Keys, heard' = Unsure(S)
      PROVE  Heard' = Heard \cup S
  BY <1>1, <1>4 DEF Heard, Unsure, Hearing
<1>5. CASE EnsureBridge \/ PollBegin \/ (\E r \in bridge.routes : FetchOk(r) \/ FetchFails(r)) \/ Send \/ Ack
  BY <1>3, <1>5 DEF EnsureBridge, PollBegin, FetchOk, FetchFails, Fetch, Send, Ack
<1>6. CASE Die \/ QueueFails \/ RememberFails
  <2>1. \/ heard' = heard
        \/ bridge.at \in {"queue", "remember"} /\ heard' = Unsure({bridge.cur})
    BY <1>6 DEF Die, QueueFails, RememberFails, Late
  <2>2. CASE bridge.at \in {"queue", "remember"} /\ heard' = Unsure({bridge.cur})
    <3>1. Heard' = Heard \cup {bridge.cur}
      BY <1>2, <1>4, <2>2
    <3>2. bridge.at = "remember" => bridge.cur \in Heard
      BY <1>2 DEF Heard
    <3>3. QED
      BY <2>2, <3>1, <3>2
  <2>3. QED
    BY <1>3, <2>1, <2>2
<1>7. CASE \E k \in Keys : QueueOk(k)
  <2>1. PICK k \in Keys : QueueOk(k)
    BY <1>7
  <2>2. bridge.at = "queue" /\ bridge.cur = k /\ heard' = Told(k)
    BY <2>1 DEF QueueOk
  <2>3. Heard' = Heard \cup {k}
    BY <1>1, <2>2 DEF Heard, Told, Hearing
  <2>4. QED
    BY <2>2, <2>3
<1>8. CASE Remember
  <2> DEFINE S == {k \in Keys : Contains(ledger, k) /\ ~Contains(ledger', k)}
  <2>1. heard' = Unsure(S) /\ S \in SUBSET Keys
    BY <1>8 DEF Remember
  <2>2. S \subseteq Heard
    BY <1>2 DEF Heard
  <2>3. QED
    BY <1>4, <2>1, <2>2
<1>9. QED
  BY <1>5, <1>6, <1>7, <1>8 DEF Poll

LEMMA DaemonMaps ==
  ASSUME IInv, TypeOK', EnsureBridge \/ Die \/ Poll
  PROVE  Box!Next \/ UNCHANGED <<Place, Heard, Moot>>
<1>1. /\ mission' = mission /\ reused' = reused
      /\ bridge.at \in {"queue", "remember", "ack"} => bridge.cur \in Keys /\ row[bridge.cur] # "absent"
  BY DaemonKeeps DEF IInv, InHand
<1> DEFINE c == bridge.cur
<1>2. CASE row' = row
  <2>1. Place' = Place /\ Moot' = Moot
    BY <1>1, <1>2, OverSame DEF Place
  <2>2. CASE Heard' = Heard
    BY <2>1, <2>2
  <2>3. CASE bridge.at = "queue" /\ Heard' = Heard \cup {c}
    <3>1. CASE row[c] = "pending"
      BY <1>1, <2>1, <2>3, <3>1, PlaceOf DEF IInv, Box!Tell, Box!Next
    <3>2. CASE row[c] = "acked"
      <4>1. heard[c] # "no" \/ c \in Moot
        BY <1>1, <2>3, <3>2 DEF IInv, AckedWasHeard, Moot
      <4>2. CASE heard[c] # "no"
        <5>1. Heard' = Heard
          BY <1>1, <2>3, <4>2 DEF Heard
        <5>2. QED
          BY <2>1, <5>1
      <4>3. CASE c \in Moot
        BY <1>1, <2>1, <2>3, <4>3 DEF Box!Tell, Box!Next
      <4>4. QED
        BY <4>1, <4>2, <4>3
    <3>3. QED
      BY <1>1, <2>3, <3>1, <3>2 DEF IInv, TypeOK
  <2>4. QED
    BY <2>2, <2>3, DaemonTells
<1>3. CASE row' # row
  <2>1. Ack /\ row' = [row EXCEPT ![c] = "acked"]
    BY <1>3, DaemonKeeps DEF Ack
  <2>2. bridge.at = "ack" /\ c \in Keys /\ heard' = heard
    BY <1>1, <2>1 DEF Ack
  <2>3. row'[c] = "acked" /\ \A j \in Keys : j # c => row'[j] = row[j]
    BY <2>1, <2>2 DEF IInv, TypeOK
  <2>4. row[c] = "pending"
    BY <1>1, <1>3, <2>1, <2>2 DEF IInv, TypeOK
  <2>5. Place' = [Place EXCEPT ![c] = "gone"] /\ Place[c] = "waiting"
    BY <2>2, <2>3, <2>4, PlaceMoves, PlaceOf DEF IInv
  <2>6. Heard' = Heard
    BY <2>2 DEF Heard
  <2>7. Moot' = Moot
    <3>1. \A j \in Keys : row'[j] = "absent" <=> row[j] = "absent"
      BY <2>3, <2>4
    <3>2. QED
      BY <1>1, <3>1, OverSame
  <2>8. c \in Heard \cup Moot
    BY <2>2, <2>4 DEF IInv, InHand, Over, Heard, Moot
  <2>9. Box!Collect(c)
    BY <2>5, <2>6, <2>7, <2>8 DEF Box!Collect
  <2>10. QED
    BY <2>2, <2>9 DEF Box!Next
<1>4. QED
  BY <1>2, <1>3

(* The inbox and the bridge implement the Mailbox: a Delivery waits until   *)
(* L3 knows of it or it is over for good, no message is sent to nobody's    *)
(* use, and what is over stays over, for any number of Missions, chats,     *)
(* deaths, failures and any size of the ledger (delivery.ts, l3-bridge.ts,  *)
(* the commands that fill the inbox).                                       *)
THEOREM Refinement == Spec => ImplementsMailbox
<1>1. Init => Box!Init
  <2> SUFFICES ASSUME Init PROVE Box!Init
    OBVIOUS
  <2>1. TypeOK
    BY InitIInv DEF IInv
  <2>2. Place \in [Keys -> {"absent", "waiting"}]
    BY DEF Init, Place
  <2>3. Heard = {}
    BY DEF Init, Heard
  <2>4. Moot \in SUBSET {k \in Keys : Place[k] # "absent"}
    BY <2>1, MootPosted
  <2>5. QED
    BY <2>2, <2>3, <2>4 DEF Box!Init, Box!Posted
<1>2. IInv /\ IInv' /\ [Next]_vars => [Box!Next]_(Box!mvars)
  <2> SUFFICES ASSUME IInv, IInv', [Next]_vars
               PROVE  Box!Next \/ UNCHANGED <<Place, Heard, Moot>>
    BY DEF Box!mvars
  <2>1. CASE Command
    BY <2>1, CommandMaps DEF IInv
  <2>2. CASE EnsureBridge \/ Die \/ Poll
    BY <2>2, DaemonMaps DEF IInv
  <2>3. CASE Binding \/ UNCHANGED vars
    <3>1. UNCHANGED <<mission, row, reused, heard>>
      BY <2>3 DEF vars, Binding, Register, RegisterRecipient, TakeOver, InTheRegistry, platform, OutsideTheBridge
    <3>2. QED
      BY <3>1, OverSame DEF Place, Heard
  <2>4. QED
    BY <2>1, <2>2, <2>3 DEF Next
<1>3. QED
  BY <1>1, <1>2, Inductive, PTL DEF Spec, ImplementsMailbox, Box!Spec

-----------------------------------------------------------------------------
(* What is due is not dropped.  No row is ahead of the last submission, so  *)
(* the result that waits for its review is the newest.                      *)
RowsSubmitted ==
  \A k \in Keys : row[k] # "absent" /\ k[2] = "result" => k[3] <= mission[k[1]].last

LEMMA LastKept ==
  ASSUME TypeOK, Numbered, NEW m \in Missions,
         Escalate(m) \/ Answer(m) \/ SendBack(m) \/ End(m) \/ NextAttempt(m)
  PROVE  \A o \in Missions : mission'[o].last = mission[o].last
<1>1. CASE Escalate(m)
  BY <1>1, Asked
<1>2. CASE Answer(m) \/ SendBack(m) \/ End(m) \/ NextAttempt(m)
  <2>1. /\ mission[m] = [st |-> mission[m].st, asked |-> mission[m].asked,
                        answered |-> mission[m].answered, attempt |-> mission[m].attempt,
                        last |-> mission[m].last]
        /\ DOMAIN mission = Missions
    BY DEF TypeOK, States
  <2>2. CASE Answer(m)
    BY <2>1, <2>2 DEF Answer
  <2>3. CASE SendBack(m)
    BY <2>1, <2>3 DEF SendBack
  <2>4. CASE End(m)
    BY <2>1, <2>4 DEF End
  <2>5. CASE NextAttempt(m)
    BY <2>1, <2>5 DEF NextAttempt
  <2>6. QED
    BY <1>2, <2>2, <2>3, <2>4, <2>5
<1>3. QED
  BY <1>1, <1>2

(* Only Submit moves it, to the number of the Attempt, the highest there is.*)
LEMMA SubmitRows ==
  ASSUME TypeOK, Numbered, RowsSubmitted, NEW m \in Missions, Submit(m)
  PROVE  RowsSubmitted'
<1> SUFFICES ASSUME NEW k \in Keys, row'[k] # "absent", k[2] = "result"
             PROVE  k[3] <= mission'[k[1]].last
  BY DEF RowsSubmitted
<1>1. k[1] \in Missions /\ k[3] \in Int /\ mission[m].attempt \in Int
  BY KeyShape DEF TypeOK, States
<1>2. /\ mission'[m].last = mission[m].attempt
      /\ \A o \in Missions : o # m => mission'[o] = mission[o]
  BY Submitted
<1>3. row' = Created(ResultKey(m, mission[m].attempt))
  BY DEF Submit
<1>4. CASE row[k] # "absent"
  BY <1>1, <1>2, <1>4 DEF Numbered, RowsSubmitted
<1>5. CASE row[k] = "absent"
  <2>1. k = ResultKey(m, mission[m].attempt)
    BY <1>3, <1>5 DEF TypeOK, Created
  <2>2. k[1] = m /\ k[3] = mission[m].attempt
    BY <2>1 DEF ResultKey
  <2>3. QED
    BY <1>1, <1>2, <2>2
<1>6. QED
  BY <1>4, <1>5

LEMMA RowsStay ==
  ASSUME TypeOK, RowsSubmitted,
         \A o \in Missions : mission'[o].last = mission[o].last,
         \A k \in Keys : row'[k] # "absent" /\ k[2] = "result" =>
                           row[k] # "absent" \/ mission[k[1]].last = k[3]
  PROVE  RowsSubmitted'
<1> SUFFICES ASSUME NEW k \in Keys, row'[k] # "absent", k[2] = "result"
             PROVE  k[3] <= mission'[k[1]].last
  BY DEF RowsSubmitted
<1>1. k[1] \in Missions /\ k[3] \in Int
  BY KeyShape
<1>2. mission'[k[1]].last = mission[k[1]].last /\ mission[k[1]].last \in Int
  BY <1>1 DEF TypeOK, States
<1>3. QED
  BY <1>1, <1>2 DEF RowsSubmitted

LEMMA NextRows == IInv /\ RowsSubmitted /\ [Next]_vars => RowsSubmitted'
<1> SUFFICES ASSUME IInv, RowsSubmitted, [Next]_vars PROVE RowsSubmitted'
  OBVIOUS
<1> USE DEF IInv
<1>1. CASE \E m \in Missions : Submit(m)
  BY <1>1, SubmitRows
<1>2. CASE \E m \in Missions : Escalate(m)
  <2>1. PICK m \in Missions : Escalate(m)
    BY <1>2
  <2>2. \A o \in Missions : mission'[o].last = mission[o].last
    BY <2>1, LastKept
  <2>3. row' = Created(EscalationKey(m, Len(mission[m].asked) + 1))
    BY <2>1 DEF Escalate
  <2>4. \A k \in Keys : k[2] = "result" => k # EscalationKey(m, Len(mission[m].asked) + 1)
    BY DEF EscalationKey
  <2>5. \A k \in Keys : k[2] = "result" => row'[k] = row[k]
    BY <2>3, <2>4, CreatedRow
  <2>6. QED
    BY <2>2, <2>5, RowsStay
<1>3. CASE \E m \in Missions : Answer(m) \/ SendBack(m) \/ End(m) \/ NextAttempt(m)
  <2>1. row' = row
    BY <1>3 DEF Answer, SendBack, End, NextAttempt
  <2>2. \A o \in Missions : mission'[o].last = mission[o].last
    BY <1>3, LastKept
  <2>3. QED
    BY <2>1, <2>2, RowsStay
<1>4. CASE \E k \in Keys : AckByHand(k)
  <2>1. mission' = mission /\ \A k \in Keys : row'[k] # "absent" => row[k] # "absent"
    BY <1>4 DEF AckByHand, TypeOK
  <2>2. QED
    BY <2>1, RowsStay
<1>5. CASE \E k \in Keys : Repair(k)
  <2>1. PICK k \in Keys : Repair(k)
    BY <1>5
  <2>2. mission' = mission /\ row' = Created(k) /\ Missing(k)
    BY <2>1 DEF Repair
  <2>3. k[2] = "result" => mission[k[1]].last = k[3]
    BY <2>2 DEF Missing
  <2>4. \A j \in Keys : j # k => row'[j] = row[j]
    BY <2>2, CreatedRow
  <2>5. QED
    BY <2>2, <2>3, <2>4, RowsStay
<1>6. CASE EnsureBridge \/ Die \/ Poll
  <2>1. mission' = mission /\ \A k \in Keys : row[k] = "absent" => row'[k] = "absent"
    BY <1>6, DaemonKeeps
  <2>2. QED
    BY <2>1, RowsStay
<1>7. CASE Binding \/ UNCHANGED vars
  <2>1. mission' = mission /\ row' = row
    BY <1>7 DEF vars, Binding, Register, RegisterRecipient, TakeOver, InTheRegistry, platform
  <2>2. QED
    BY <2>1, RowsStay
<1>8. QED
  BY <1>1, <1>2, <1>3, <1>4, <1>5, <1>6, <1>7 DEF Next, Command

(* The platform calls open what is due.                                     *)
LEMMA DueIsOpen ==
  ASSUME IInv, RowsSubmitted, NEW k \in Keys, Due(k)
  PROVE  StillOpen(k) /\ (row[k] = "absent" => Missing(k))
<1>1. k[1] \in Missions /\ k[3] \in Int
  BY KeyShape
<1>2. mission[k[1]].answered \in Nat /\ Len(mission[k[1]].asked) \in Nat
      /\ mission[k[1]].last \in Int
  BY <1>1 DEF IInv, TypeOK, States
<1>3. DOMAIN mission[k[1]].asked = 1..Len(mission[k[1]].asked)
  BY <1>1 DEF IInv, TypeOK, States
<1>4. CASE k[2] = "escalated"
  <2>1. k[3] \in (mission[k[1]].answered + 1)..Len(mission[k[1]].asked)
    BY <1>4 DEF Due
  <2>2. k[3] > mission[k[1]].answered /\ k[3] \in DOMAIN mission[k[1]].asked
    BY <1>1, <1>2, <1>3, <2>1
  <2>3. QED
    BY <1>4, <2>2 DEF StillOpen, Missing
<1>5. CASE k[2] # "escalated"
  <2>1. mission[k[1]].st = "review" /\ mission[k[1]].last = k[3]
    BY <1>5 DEF Due
  <2>2. Newest(k)
    BY <2>1 DEF Newest, RowsSubmitted
  <2>3. QED
    BY <1>5, <2>1, <2>2 DEF StillOpen, Missing
<1>6. QED
  BY <1>4, <1>5

(* A question or a result that L3 still has to look at is in the inbox, or  *)
(* the repair finds it missing, or L3 was told or took it, or an Attempt    *)
(* took its key again: with any commands, deaths and failures before.       *)
THEOREM NothingDueIsDropped == Spec => []DueIsNotDropped
<1>1. Init => RowsSubmitted
  <2> SUFFICES ASSUME Init, NEW k \in Keys, row[k] # "absent", k[2] = "result"
               PROVE  k[3] <= mission[k[1]].last
    BY DEF RowsSubmitted
  <2>1. QED
    BY DEF Init, Known
<1>2. IInv /\ RowsSubmitted => DueIsNotDropped
  <2> SUFFICES ASSUME IInv, RowsSubmitted, NEW k \in Keys, Due(k)
               PROVE  \/ row[k] = "pending" /\ StillOpen(k)
                      \/ Missing(k)
                      \/ row[k] = "acked" /\ (heard[k] # "no" \/ k \in reused)
    BY DEF DueIsNotDropped
  <2>1. StillOpen(k) /\ (row[k] = "absent" => Missing(k))
    BY DueIsOpen
  <2>2. row[k] \in {"absent", "pending", "acked"}
    BY DEF IInv, TypeOK
  <2>3. QED
    BY <2>1, <2>2 DEF IInv, AckedWasHeard
<1>3. QED
  BY <1>1, <1>2, NextRows, Inductive, PTL DEF Spec
=============================================================================
