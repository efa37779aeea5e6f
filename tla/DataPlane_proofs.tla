-------------------------- MODULE DataPlane_proofs --------------------------
(***************************************************************************)
(* The stores and projections of the data plane, each for any interleaving  *)
(* of its callers.                                                          *)
(***************************************************************************)
EXTENDS Outbox, EventConsumer, SetupWizard, PrivateStream, LocalOrderBook,
        ResearchLedger, AuditChain, FiniteSetTheorems, WellFoundedInduction, TLAPS

-----------------------------------------------------------------------------
(* The idempotent consumer.                                                *)

ConsumerInv == ConsumerTypeOK /\ AppliedAtMostOnce /\ ReceiptsAreEarned

\* IdempotentConsumer.consume, for any events, threads and interleaving: handled
\* at most once per run of the process, and failed events stay deliverable.
THEOREM ConsumerIsIdempotent == ConsumerSpec => [](AppliedAtMostOnce /\ ReceiptsAreEarned)
  <1>1. ConsumerInit => ConsumerInv
    BY ConsumerAssumption DEF ConsumerInit, ConsumerInv, ConsumerTypeOK, AppliedAtMostOnce, ReceiptsAreEarned
  <1>2. ConsumerInv /\ [ConsumerNext]_consumerVars => ConsumerInv'
    <2> SUFFICES ASSUME ConsumerInv, [ConsumerNext]_consumerVars PROVE ConsumerInv'
      OBVIOUS
    <2> USE ConsumerAssumption DEF ConsumerInv, ConsumerTypeOK, AppliedAtMostOnce, ReceiptsAreEarned
    <2>1. ASSUME NEW t \in Threads, NEW e \in EventIds, Claim(t, e) PROVE ConsumerInv'
      BY <2>1 DEF Claim
    <2>2. ASSUME NEW t \in Threads, NEW e \in EventIds, AnswerDuplicate(t, e) PROVE ConsumerInv'
      BY <2>2 DEF AnswerDuplicate
    <2>3. ASSUME NEW t \in Threads, Handled(t) PROVE ConsumerInv'
      BY <2>3 DEF Handled
    <2>4. ASSUME NEW t \in Threads, HandlerFails(t) PROVE ConsumerInv'
      BY <2>4 DEF HandlerFails
    <2>5. CASE Restart
      BY <2>5 DEF Restart
    <2>6. CASE UNCHANGED consumerVars
      BY <2>6 DEF consumerVars
    <2> QED BY <2>1, <2>2, <2>3, <2>4, <2>5, <2>6 DEF ConsumerNext
  <1> QED BY <1>1, <1>2, PTL DEF ConsumerSpec, ConsumerInv

-----------------------------------------------------------------------------
(* The setup wizard.                                                       *)

\* What a request works on is as good as the row it was read from.
WizardInv ==
  /\ WizardTypeOK /\ StepsInOrder
  /\ \A s \in Sessions : sessions[s].read.completed => sessions[s].new.completed
  /\ ~overlapped => /\ RowIsWhole(wizard)
                    /\ \A s \in Sessions : RowIsWhole(sessions[s].read) /\ RowIsWhole(sessions[s].new)

\* The first step left to do is the one after those done.
LEMMA ExpectedStep ==
  ASSUME NEW k \in 0..LastStep
  PROVE  Expected(1..k) = IF k = LastStep THEN LastStep ELSE k + 1
  <1>1. CASE k = LastStep
    BY <1>1, WizardAssumption DEF Expected, Steps
  <1>2. CASE k # LastStep
    <2>1. k + 1 \in Steps \ (1..k) /\ \A t \in Steps \ (1..k) : k + 1 <= t
      BY <1>2, WizardAssumption DEF Steps
    <2>2. \A c \in Steps \ (1..k) : (\A t \in Steps \ (1..k) : c <= t) => c = k + 1
      BY <2>1, WizardAssumption DEF Steps
    <2>3. (CHOOSE c \in Steps \ (1..k) : \A t \in Steps \ (1..k) : c <= t) = k + 1
      BY <2>1, <2>2
    <2>4. (1..k) # Steps
      BY <2>1
    <2> QED BY <1>2, <2>3, <2>4 DEF Expected
  <1> QED BY <1>1, <1>2

\* The rows nobody has worked on.
LEMMA FreshRows ==
  \A row \in {EmptyRow, NotStarted} : row \in WizardRows /\ InOrder(row) /\ RowIsWhole(row) /\ ~row.completed
  <1>1. EmptyRow \in WizardRows /\ NotStarted \in WizardRows
    <2>1. 1 \in Steps /\ [s \in Steps |-> NoAnswer] \in [Steps -> Answers \cup {NoAnswer}]
      BY WizardAssumption DEF Steps
    <2>2. EmptyRow \in WizardRows
      BY <2>1 DEF EmptyRow, WizardRows
    <2> QED BY <2>2 DEF NotStarted, WizardRows
  <1>2. ASSUME NEW row \in {EmptyRow, NotStarted}
        PROVE  /\ row.done = {} /\ row.current = 1 /\ row.completed = FALSE
               /\ \A s \in Steps : row.config[s] = NoAnswer
    BY <1>2 DEF EmptyRow, NotStarted
  <1>3. {} = 1..0 /\ 0 \in 0..LastStep /\ Steps # {} /\ \A s \in Steps : ~(s < 1)
    BY WizardAssumption DEF Steps
  <1> QED BY <1>1, <1>2, <1>3 DEF InOrder, RowIsWhole

\* complete_step on a copy of the row: the next step in order, or one done before.
LEMMA CompletingOK ==
  ASSUME NEW row \in WizardRows, InOrder(row), NEW step \in Steps, NEW answer \in Answers,
         step = Expected(row.done) \/ step \in row.done
  PROVE  /\ Completing(row, step, answer) \in WizardRows
         /\ InOrder(Completing(row, step, answer))
         /\ row.completed => Completing(row, step, answer).completed
         /\ RowIsWhole(row) /\ (Completing(row, step, answer).done = Steps =>
                                  Completing(row, step, answer).config[LastStep] = "good")
              => RowIsWhole(Completing(row, step, answer))
  <1> DEFINE n == Completing(row, step, answer)
  <1>1. /\ n.done = row.done \cup {step}
        /\ n.config = [row.config EXCEPT ![step] = answer]
        /\ n.current = IF n.done = Steps \/ step = LastStep THEN LastStep ELSE step + 1
        /\ n.completed = (row.completed \/ n.done = Steps)
        /\ n.exists = TRUE
    BY DEF Completing
  <1>2. PICK k \in 0..LastStep : row.done = 1..k
    BY DEF InOrder
  <1>3. \E j \in 1..LastStep : n.done = 1..j /\ step <= j
    <2>1. CASE step \in row.done
      BY <1>1, <1>2, <2>1
    <2>2. CASE step = Expected(row.done)
      BY <1>1, <1>2, <2>2, ExpectedStep, WizardAssumption DEF Steps
    <2> QED BY <2>1, <2>2
  <1>4. n.config \in [Steps -> Answers \cup {NoAnswer}] /\ n.current \in Steps
    BY <1>1, WizardAssumption DEF WizardRows, Steps
  <1>5. n \in WizardRows
    <2>1. n.done \subseteq Steps /\ n.completed \in BOOLEAN
      BY <1>1 DEF WizardRows
    <2> QED BY <1>1, <1>4, <2>1 DEF Completing, WizardRows
  <1>6. InOrder(n)
    BY <1>3 DEF InOrder
  <1>7. ASSUME RowIsWhole(row), n.done = Steps => n.config[LastStep] = "good"
        PROVE  RowIsWhole(n)
    <2>1. {s \in Steps : n.config[s] # NoAnswer} = n.done
      <3>1. \A s \in Steps : n.config[s] = IF s = step THEN answer ELSE row.config[s]
        BY <1>1 DEF WizardRows
      <3>2. answer # NoAnswer
        BY WizardAssumption DEF Answers
      <3>3. {s \in Steps : row.config[s] # NoAnswer} = row.done
        BY <1>7 DEF RowIsWhole
      <3> QED BY <1>1, <3>1, <3>2, <3>3
    <2>2. n.completed <=> n.done = Steps
      <3>1. row.done = Steps => n.done = Steps
        BY <1>1 DEF WizardRows
      <3>2. row.completed <=> row.done = Steps
        BY <1>7 DEF RowIsWhole
      <3>3. n.completed = (row.completed \/ n.done = Steps)
        BY <1>1
      <3> HIDE DEF n
      <3> QED BY <3>1, <3>2, <3>3
    <2>3. \A s \in Steps : s < n.current => s \in n.done
      <3>1. step = LastStep => n.done = Steps
        BY <1>3, WizardAssumption DEF Steps
      <3> QED BY <1>1, <1>3, <3>1, WizardAssumption DEF Steps
    <2> QED BY <1>7, <2>1, <2>2, <2>3 DEF RowIsWhole
  <1> QED BY <1>1, <1>5, <1>6, <1>7

\* One session is given what it holds, the others keep theirs.
LEMMA SessionStep ==
  ASSUME WizardInv, wizard' \in WizardRows, InOrder(wizard'), overlapped' \in BOOLEAN,
         ~overlapped' => ~overlapped /\ RowIsWhole(wizard'),
         NEW s \in Sessions,
         NEW h \in [busy : BOOLEAN, read : WizardRows, new : WizardRows],
         sessions' = [sessions EXCEPT ![s] = h],
         InOrder(h.read), InOrder(h.new), h.read.completed => h.new.completed,
         ~overlapped' => RowIsWhole(h.read) /\ RowIsWhole(h.new)
  PROVE  WizardInv'
  <1>1. /\ sessions'[s] = h
        /\ \A t \in Sessions \ {s} : sessions'[t] = sessions[t]
    BY DEF WizardInv, WizardTypeOK
  <1>2. WizardTypeOK'
    BY DEF WizardInv, WizardTypeOK
  <1>3. StepsInOrder'
    BY <1>1 DEF WizardInv, StepsInOrder
  <1> QED BY <1>1, <1>2, <1>3 DEF WizardInv

LEMMA WizardNextInv == WizardInv /\ [WizardNext]_wizardVars => WizardInv'
  <1> SUFFICES ASSUME WizardInv, [WizardNext]_wizardVars PROVE WizardInv'
    OBVIOUS
  <1>1. CASE StartOrResume
    BY <1>1, FreshRows DEF StartOrResume, WizardInv, WizardTypeOK, StepsInOrder
  <1>2. ASSUME NEW s \in Sessions, NEW step \in Steps, NEW answer \in Answers,
               CompleteStep(s, step, answer)
        PROVE  WizardInv'
    <2> DEFINE new == Completing(wizard, step, answer)
               h == [busy |-> TRUE, read |-> wizard, new |-> new]
    <2>1. /\ sessions' = [sessions EXCEPT ![s] = h] /\ UNCHANGED <<wizard, overlapped>>
          /\ step = Expected(wizard.done) \/ step \in wizard.done
          /\ new.done = Steps => new.config[LastStep] = "good"
      BY <1>2 DEF CompleteStep
    <2>2. wizard \in WizardRows /\ InOrder(wizard) /\ overlapped \in BOOLEAN
          /\ (~overlapped => RowIsWhole(wizard))
      BY DEF WizardInv, WizardTypeOK, StepsInOrder
    <2>3. new \in WizardRows /\ InOrder(new) /\ (wizard.completed => new.completed)
          /\ (RowIsWhole(wizard) => RowIsWhole(new))
      BY <2>1, <2>2, CompletingOK
    <2> HIDE DEF new
    <2>4. h \in [busy : BOOLEAN, read : WizardRows, new : WizardRows]
          /\ h.read = wizard /\ h.new = new
      BY <2>2, <2>3
    <2> HIDE DEF h
    <2> QED BY <2>1, <2>2, <2>3, <2>4, SessionStep
  <1>3. ASSUME NEW s \in Sessions, CommitStep(s) PROVE WizardInv'
    <2> DEFINE r == sessions[s].read
               n == sessions[s].new
    <2>1. r \in WizardRows /\ n \in WizardRows /\ wizard \in WizardRows /\ overlapped \in BOOLEAN
          /\ InOrder(r) /\ InOrder(n) /\ InOrder(wizard)
          /\ (r.completed => n.completed) /\ (~overlapped => RowIsWhole(n))
      BY DEF WizardInv, WizardTypeOK, StepsInOrder
    <2>2. /\ wizard'.done \in {n.done, wizard.done}
          /\ wizard' \in WizardRows
      BY <1>3, <2>1 DEF CommitStep, WizardRows
    <2>3. InOrder(wizard')
      BY <2>1, <2>2 DEF InOrder
    <2>4. overlapped' = (overlapped \/ wizard # r)
      BY <1>3 DEF CommitStep
    <2>5. ASSUME ~overlapped' PROVE ~overlapped /\ RowIsWhole(wizard')
      <3>1. wizard = r /\ ~overlapped
        BY <2>4, <2>5
      <3>2. wizard'.done = n.done /\ wizard'.config = n.config /\ wizard'.current = n.current
            /\ (wizard'.completed <=> n.completed)
        BY <1>3, <2>1, <3>1 DEF CommitStep
      <3>3. RowIsWhole(n)
        BY <2>1, <3>1
      <3> QED BY <3>1, <3>2, <3>3 DEF RowIsWhole
    <2>6. sessions' = [sessions EXCEPT ![s] = IdleSession]
      BY <1>3 DEF CommitStep
    <2>7. IdleSession \in [busy : BOOLEAN, read : WizardRows, new : WizardRows]
          /\ IdleSession.read = NotStarted /\ IdleSession.new = NotStarted
      BY FreshRows DEF IdleSession
    <2>8. overlapped' \in BOOLEAN
      BY <2>1, <2>4
    <2> QED BY <2>2, <2>3, <2>5, <2>6, <2>7, <2>8, FreshRows, SessionStep
  <1>4. ASSUME NEW s \in Sessions, RollBack(s) PROVE WizardInv'
    <2>1. sessions' = [sessions EXCEPT ![s] = IdleSession] /\ UNCHANGED <<wizard, overlapped>>
      BY <1>4 DEF RollBack
    <2>2. IdleSession \in [busy : BOOLEAN, read : WizardRows, new : WizardRows]
          /\ IdleSession.read = NotStarted /\ IdleSession.new = NotStarted
      BY FreshRows DEF IdleSession
    <2>3. wizard \in WizardRows /\ InOrder(wizard) /\ overlapped \in BOOLEAN
          /\ (~overlapped => RowIsWhole(wizard))
      BY DEF WizardInv, WizardTypeOK, StepsInOrder
    <2> QED BY <2>1, <2>2, <2>3, FreshRows, SessionStep
  <1>5. CASE UNCHANGED wizardVars
    BY <1>5 DEF wizardVars, WizardInv, WizardTypeOK, StepsInOrder
  <1> QED BY <1>1, <1>2, <1>3, <1>4, <1>5 DEF WizardNext

\* setup_wizard.complete_step, for any number of steps and of overlapping requests:
\* steps are recorded in order, and while requests do not overlap the row is whole.
THEOREM SetupInOrder == WizardSpec => []SetupIsSequential
  <1>1. WizardInit => WizardInv
    <2>1. IdleSession \in [busy : BOOLEAN, read : WizardRows, new : WizardRows]
          /\ IdleSession.read = NotStarted /\ IdleSession.new = NotStarted
      BY FreshRows DEF IdleSession
    <2> QED BY <2>1, FreshRows DEF WizardInit, WizardInv, WizardTypeOK, StepsInOrder
  <1>2. WizardInv => SetupIsSequential
    BY DEF WizardInv, SetupIsSequential
  <1> QED BY <1>1, <1>2, WizardNextInv, PTL DEF WizardSpec

-----------------------------------------------------------------------------
(* The local order book.                                                   *)

\* A set of natural numbers that is not empty has a least element.
LEMMA LeastElement ==
  ASSUME NEW T, T \subseteq Nat, T # {}
  PROVE  \E x \in T : \A y \in T : x <= y
  <1>1. \E x \in T : \A y \in T : ~(<<y, x>> \in OpToRel(<, Nat))
    BY WFMin, NatLessThanWellFounded
  <1>2. PICK x \in T : \A y \in T : ~(<<y, x>> \in OpToRel(<, Nat))
    BY <1>1
  <1>3. ASSUME NEW y \in T PROVE x <= y
    <2>1. x \in Nat /\ y \in Nat
      OBVIOUS
    <2>2. ~(y < x)
      BY <1>2, <2>1 DEF OpToRel
    <2> QED BY <2>1, <2>2
  <1> QED BY <1>3

BookInv ==
  /\ history \in Seq(Books) /\ book \in Books
  /\ lastUpdateId \in 0..Len(history) /\ valid \in BOOLEAN
  /\ ValidBookIsExact

LEMMA BooksOfHistory ==
  ASSUME history \in Seq(Books), NEW n \in 0..Len(history)
  PROVE  BookAt(n) \in Books
  <1>1. Empty \in Books
    BY DEF Empty, Books
  <1> QED BY <1>1 DEF BookAt

\* A level that no update of a range touches is the same at both its ends.
LEMMA UntouchedLevel ==
  ASSUME history \in Seq(Books), NEW from \in 0..Len(history), NEW last \in from..Len(history),
         NEW first \in 1..(from + 1), NEW l \in Levels, l \notin Touched(first, last)
  PROVE  BookAt(last)[l] = BookAt(from)[l]
  <1> DEFINE T == {n \in from..last : BookAt(n)[l] # BookAt(from)[l]}
  <1> SUFFICES ASSUME BookAt(last)[l] # BookAt(from)[l] PROVE FALSE
    OBVIOUS
  <1>1. T \subseteq Nat /\ last \in T
    OBVIOUS
  <1>2. PICK m \in T : \A n \in T : m <= n
    BY <1>1, LeastElement
  <1>3. m \in from..last /\ m # from
    OBVIOUS
  <1>4. m - 1 \in from..last /\ m \in first..last /\ ~(m <= m - 1)
    BY <1>3
  <1>5. BookAt(m - 1)[l] = BookAt(from)[l]
    BY <1>2, <1>4
  <1>6. BookAt(m)[l] = BookAt(m - 1)[l]
    BY <1>4 DEF Touched
  <1> QED BY <1>5, <1>6

LEMMA BookNextInv == BookInv /\ [BookNext]_bookVars => BookInv'
  <1> SUFFICES ASSUME BookInv, [BookNext]_bookVars PROVE BookInv'
    OBVIOUS
  <1>1. ASSUME NEW level \in Levels, NEW qty \in Quantities \cup {0}, Update(level, qty)
        PROVE  BookInv'
    <2> DEFINE b == [BookAt(Now) EXCEPT ![level] = qty]
    <2>1. BookAt(Now) \in Books
      BY BooksOfHistory DEF BookInv, Now
    <2>2. b \in Books
      BY <2>1 DEF Books
    <2>3. history' = Append(history, b) /\ UNCHANGED <<book, lastUpdateId, valid, loaded>>
      BY <1>1 DEF Update
    <2> HIDE DEF b
    <2>4. /\ history' \in Seq(Books) /\ Len(history') = Len(history) + 1
          /\ \A n \in 1..Len(history) : history'[n] = history[n]
      BY <2>2, <2>3 DEF BookInv
    <2>5. BookAt(lastUpdateId)' = BookAt(lastUpdateId)
      BY <2>3, <2>4 DEF BookInv, BookAt
    <2> QED BY <2>3, <2>4, <2>5 DEF BookInv, ValidBookIsExact
  <1>2. ASSUME NEW n \in 0..Now, LoadSnapshot(n) PROVE BookInv'
    <2>1. BookAt(n) \in Books
      BY BooksOfHistory DEF BookInv, Now
    <2>2. BookAt(n)' = BookAt(n)
      BY <1>2 DEF LoadSnapshot, BookAt
    <2> QED BY <1>2, <2>1, <2>2 DEF LoadSnapshot, BookInv, ValidBookIsExact, BookAt, Now
  <1>3. ASSUME NEW n \in 0..Now, VerifyChecksum(n) PROVE BookInv'
    BY <1>3 DEF VerifyChecksum, BookInv, ValidBookIsExact, BookAt
  <1>4. ASSUME NEW last \in 1..Now, NEW first \in 1..last, Delta(first, last) PROVE BookInv'
    <2>1. CASE IgnoreDelta(first, last)
      BY <2>1 DEF IgnoreDelta, bookVars, BookInv, ValidBookIsExact, BookAt
    <2>2. CASE SequenceGap(first, last)
      BY <2>2 DEF SequenceGap, BookInv, ValidBookIsExact
    <2>3. CASE ApplyDelta(first, last)
      <3>1. /\ valid /\ first \in 1..(lastUpdateId + 1)
            /\ last \in lastUpdateId..Len(history) /\ last \in 0..Len(history)
            /\ UNCHANGED history /\ lastUpdateId' = last
        BY <2>3 DEF ApplyDelta, Usable, Continues, StaleDelta, Now, BookInv
      <3>2. BookAt(last) \in Books /\ BookAt(last)' = BookAt(last)
        BY <3>1, BooksOfHistory DEF BookInv, BookAt
      <3>3. book = BookAt(lastUpdateId)
        BY <3>1 DEF BookInv, ValidBookIsExact
      <3>4. book' = [l \in Levels |-> IF l \in Touched(first, last) THEN BookAt(last)[l] ELSE book[l]]
        BY <2>3 DEF ApplyDelta
      <3>5. ASSUME NEW l \in Levels PROVE book'[l] = BookAt(last)[l]
        <4>1. l \notin Touched(first, last) => BookAt(last)[l] = BookAt(lastUpdateId)[l]
          BY <3>1, UntouchedLevel DEF BookInv
        <4> QED BY <3>3, <3>4, <4>1
      <3>6. book' = BookAt(last)
        BY <3>2, <3>4, <3>5 DEF Books
      <3>7. valid' \in BOOLEAN
        BY <2>3 DEF ApplyDelta
      <3> QED BY <3>1, <3>2, <3>6, <3>7 DEF BookInv, ValidBookIsExact
    <2> QED BY <1>4, <2>1, <2>2, <2>3 DEF Delta
  <1>5. CASE UNCHANGED bookVars
    BY <1>5 DEF bookVars, BookInv, ValidBookIsExact, BookAt
  <1> QED BY <1>1, <1>2, <1>3, <1>4, <1>5 DEF BookNext

\* LocalOrderBook.load_snapshot and apply_delta, for any history of the exchange and
\* deltas lost, repeated, reordered or overlapping: a valid book is the exchange's own.
THEOREM BookIsExact == BookSpec => []ValidBookIsExact
  <1>1. BookInit => BookInv
    <2>1. Empty \in Books /\ <<>> \in Seq(Books) /\ Len(<<>>) = 0
      BY DEF Empty, Books
    <2> SUFFICES ASSUME BookInit PROVE BookInv
      OBVIOUS
    <2>2. history \in Seq(Books) /\ Len(history) = 0 /\ book \in Books
      BY <2>1 DEF BookInit
    <2>3. lastUpdateId \in 0..Len(history) /\ valid = FALSE
      BY <2>2 DEF BookInit
    <2> QED BY <2>2, <2>3 DEF BookInv, ValidBookIsExact
  <1>2. BookInv => ValidBookIsExact
    BY DEF BookInv
  <1> QED BY <1>1, <1>2, BookNextInv, PTL DEF BookSpec

-----------------------------------------------------------------------------
(* The private stream.                                                     *)

\* What the exchange's reports of one order are like: an order that goes on has not
\* ended, only the first report opens it, and quantities grow by the fills.
ReportOK(r) ==
  /\ r \in Reports
  /\ r.status = "PARTIALLY_FILLED" => r.fill > 0
  /\ r.fill <= r.qty

Follows(r, later) ==
  /\ r.status \in {"NEW", "PARTIALLY_FILLED"} /\ later.status # "NEW"
  /\ r.time <= later.time /\ r.qty + later.fill <= later.qty

ReportsOK(o) ==
  /\ \A k \in 1..Len(reports[o]) : ReportOK(reports[o][k])
  /\ \A j, k \in 1..Len(reports[o]) : j < k => Follows(reports[o][j], reports[o][k])

StreamInv ==
  /\ reports \in [Orders -> Seq(Reports)]
  /\ progress \in [Orders -> Reports \cup {NoReport}]
  /\ applied \in [Orders -> Nat]
  /\ got \in [Orders -> Nat]
  /\ \A o \in Orders :
       /\ ReportsOK(o) /\ got[o] \in 0..Len(reports[o])
       /\ \A k \in Nat : <<o, k>> \in seen => k <= got[o]
  /\ ProjectionIsExact

\* The order of ranks among the statuses.
LEMMA Ranks ==
  /\ RANK("NEW") = 1 /\ RANK("PARTIALLY_FILLED") = 2
  /\ \A status \in TERMINAL : RANK(status) = 4
  /\ "NEW" \notin TERMINAL /\ "PARTIALLY_FILLED" \notin TERMINAL
  BY DEF RANK, TERMINAL

LEMMA FollowsOn ==
  ASSUME NEW a, NEW b, NEW c, ReportOK(a), ReportOK(b), ReportOK(c), Follows(a, b), Follows(b, c)
  PROVE  Follows(a, c)
  <1>1. /\ a.time \in Nat /\ b.time \in Nat /\ c.time \in Nat
        /\ a.qty \in Nat /\ b.qty \in Nat /\ c.qty \in Nat
        /\ b.fill \in Nat /\ c.fill \in Nat
    BY StreamAssumption DEF ReportOK, Reports
  <1> QED BY <1>1 DEF Follows

\* Of two reports, the later one is applied after the earlier.
LEMMA LaterIsApplied ==
  ASSUME StreamInv, NEW o \in Orders, NEW k \in 1..Len(reports[o]), got[o] < k
  PROVE  ~Ignored(o, k)
  <1> DEFINE r == reports[o][k]
             g == reports[o][got[o]]
  <1>1. ~SeenFill(o, k)
    BY DEF StreamInv, SeenFill
  <1>2. CASE got[o] = 0
    BY <1>1, <1>2 DEF Ignored, StreamInv, ProjectionIsExact, ProjectionIsNewest
  <1>3. CASE got[o] # 0
    <2>1. progress[o] = g /\ got[o] \in 1..Len(reports[o])
      BY <1>3 DEF StreamInv, ProjectionIsExact, ProjectionIsNewest
    <2>2. Follows(g, r) /\ ReportOK(g) /\ ReportOK(r)
      BY <2>1 DEF StreamInv, ReportsOK
    <2> HIDE DEF r, g
    <2>3. g.qty \in Nat /\ r.qty \in Nat /\ r.fill \in Nat /\ g.time \in Nat /\ r.time \in Nat
          /\ g.status \in {"NEW", "PARTIALLY_FILLED"} /\ r.status \in Statuses /\ r.status # "NEW"
          /\ r.qty >= g.qty + r.fill /\ r.time >= g.time
          /\ (r.status = "PARTIALLY_FILLED" => r.fill > 0)
      BY <2>2, StreamAssumption DEF Follows, ReportOK, Reports
    <2>4. r.status = "PARTIALLY_FILLED" \/ r.status \in TERMINAL
      BY <2>3 DEF Statuses
    <2>5. ~StaleReport(o, r)
      BY <2>1, <2>3 DEF StaleReport
    <2>6. ~Regresses(o, r)
      BY <2>1, <2>3, Ranks DEF Regresses
    <2>7. ~OutOfOrder(o, r)
      BY <2>1, <2>3, <2>4, Ranks DEF OutOfOrder
    <2>8. ~Duplicate(o, r)
      BY <2>1, <2>3, <2>4, Ranks DEF Duplicate
    <2> QED BY <1>1, <2>5, <2>6, <2>7, <2>8 DEF Ignored, r
  <1> QED BY <1>2, <1>3 DEF StreamInv

\* A report that is not newer than the projection is ignored.
LEMMA EarlierIsIgnored ==
  ASSUME StreamInv, NEW o \in Orders, NEW k \in 1..Len(reports[o]), k <= got[o]
  PROVE  Ignored(o, k)
  <1> DEFINE r == reports[o][k]
             g == reports[o][got[o]]
  <1>1. progress[o] = g /\ got[o] \in 1..Len(reports[o])
    BY DEF StreamInv, ProjectionIsExact, ProjectionIsNewest
  <1>2. ReportOK(g) /\ ReportOK(r) /\ (k < got[o] => Follows(r, g))
    BY <1>1 DEF StreamInv, ReportsOK
  <1>3. k = got[o] => r = g
    OBVIOUS
  <1>4. k < got[o] \/ k = got[o]
    BY DEF StreamInv
  <1>5. progress[o] # NoReport
    <2>1. g.status \in Statuses /\ NoReport.status = "NONE" /\ "NONE" \notin Statuses
      BY <1>2 DEF ReportOK, Reports, NoReport, Statuses, TERMINAL
    <2> QED BY <1>1, <2>1
  <1> HIDE DEF r, g
  <1>6. CASE r = g
    BY <1>1, <1>5, <1>6 DEF Ignored, Duplicate, r
  <1>7. CASE Follows(r, g)
    <2>1. g.qty \in Nat /\ r.qty \in Nat /\ g.fill \in Nat /\ g.time \in Nat /\ r.time \in Nat
          /\ r.status \in {"NEW", "PARTIALLY_FILLED"} /\ g.status \in Statuses /\ g.status # "NEW"
          /\ g.qty >= r.qty + g.fill /\ g.time >= r.time
          /\ (g.status = "PARTIALLY_FILLED" => g.fill > 0)
      BY <1>2, <1>7, StreamAssumption DEF Follows, ReportOK, Reports
    <2>2. CASE r.qty < g.qty
      BY <1>1, <1>5, <2>2 DEF Ignored, StaleReport, r
    <2>3. CASE ~(r.qty < g.qty)
      <3>1. r.qty <= g.qty /\ g.status \in TERMINAL
        BY <2>1, <2>3 DEF Statuses
      <3>2. RANK(r.status) < RANK(g.status)
        BY <2>1, <3>1, Ranks
      <3>3. OutOfOrder(o, r)
        BY <1>1, <3>1, <3>2 DEF OutOfOrder
      <3> QED BY <1>5, <3>3 DEF Ignored, r
    <2> QED BY <2>2, <2>3
  <1> QED BY <1>2, <1>3, <1>4, <1>6, <1>7

LEMMA ReportInv ==
  ASSUME StreamInv, NEW o \in Orders, Report(o)
  PROVE  StreamInv'
  <1> DEFINE s == reports[o]
  <1>1. s \in Seq(Reports) /\ Len(s) \in Nat /\ ReportsOK(o)
    BY DEF StreamInv
  <1>2. PICK r : /\ reports' = [reports EXCEPT ![o] = Append(s, r)]
                 /\ UNCHANGED <<progress, seen, applied, got>>
                 /\ ReportOK(r)
                 /\ s # <<>> => Follows(Latest(o), r)
    <2>1. ASSUME NEW status \in Statuses, NEW fill \in 0..Size, NEW later \in BOOLEAN,
                 Emit(o, status, fill, later), Latest(o).qty + fill <= Size,
                 Latest(o).qty \in 0..Size, Latest(o).time \in Nat,
                 status = "PARTIALLY_FILLED" => fill > 0,
                 s # <<>> => /\ Latest(o).status \in {"NEW", "PARTIALLY_FILLED"}
                             /\ status # "NEW"
          PROVE  \E r : /\ reports' = [reports EXCEPT ![o] = Append(s, r)]
                        /\ UNCHANGED <<progress, seen, applied, got>>
                        /\ ReportOK(r)
                        /\ s # <<>> => Follows(Latest(o), r)
      <3> DEFINE r == [status |-> status, qty |-> Latest(o).qty + fill,
                       time |-> Latest(o).time + (IF later THEN 1 ELSE 0), fill |-> fill]
      <3>1. Latest(o).qty + fill \in 0..Size /\ Latest(o).time + (IF later THEN 1 ELSE 0) \in Nat
            /\ fill <= Latest(o).qty + fill
            /\ Latest(o).time <= Latest(o).time + (IF later THEN 1 ELSE 0)
        BY <2>1, StreamAssumption
      <3>2. ReportOK(r)
        BY <2>1, <3>1 DEF ReportOK, Reports
      <3>3. s # <<>> => Follows(Latest(o), r)
        BY <2>1, <3>1, StreamAssumption DEF Follows
      <3>4. reports' = [reports EXCEPT ![o] = Append(s, r)] /\ UNCHANGED <<progress, seen, applied, got>>
        BY <2>1 DEF Emit, StreamInv
      <3> QED BY <3>2, <3>3, <3>4
    <2>2. Latest(o).qty \in 0..Size /\ Latest(o).time \in Nat
      <3>1. CASE s = <<>>
        BY <3>1, StreamAssumption DEF Latest, NoReport
      <3>2. CASE s # <<>>
        <4>1. s[Len(s)] \in Reports
          BY <1>1, <3>2
        <4> QED BY <3>2, <4>1 DEF Latest, Reports
      <3> QED BY <3>1, <3>2
    <2>3. /\ 0 \in 0..Size /\ Latest(o).qty + 0 <= Size
          /\ \A fill \in 1..(Size - Latest(o).qty) :
               fill \in 0..Size /\ fill > 0 /\ Latest(o).qty + fill <= Size
      BY <2>2, StreamAssumption
    <2>4. {"NEW", "PARTIALLY_FILLED", "REJECTED", "FILLED", "CANCELED", "EXPIRED"} \subseteq Statuses
      BY DEF Statuses, TERMINAL
    <2>5. ASSUME NEW later \in BOOLEAN, NEW status \in {"NEW", "REJECTED"},
                 s = <<>>, Emit(o, status, 0, TRUE)
          PROVE  \E r : /\ reports' = [reports EXCEPT ![o] = Append(s, r)]
                        /\ UNCHANGED <<progress, seen, applied, got>>
                        /\ ReportOK(r)
                        /\ s # <<>> => Follows(Latest(o), r)
      BY <2>1, <2>2, <2>3, <2>4, <2>5
    <2>6. ASSUME NEW later \in BOOLEAN, Latest(o).status \in {"NEW", "PARTIALLY_FILLED"},
                 NEW fill \in 1..(Size - Latest(o).qty),
                 Emit(o, IF Latest(o).qty + fill = Size THEN "FILLED" ELSE "PARTIALLY_FILLED",
                      fill, later)
          PROVE  \E r : /\ reports' = [reports EXCEPT ![o] = Append(s, r)]
                        /\ UNCHANGED <<progress, seen, applied, got>>
                        /\ ReportOK(r)
                        /\ s # <<>> => Follows(Latest(o), r)
      BY <2>1, <2>2, <2>3, <2>4, <2>6
    <2>7. ASSUME NEW later \in BOOLEAN, Latest(o).status \in {"NEW", "PARTIALLY_FILLED"},
                 NEW status \in {"CANCELED", "EXPIRED"}, Emit(o, status, 0, later)
          PROVE  \E r : /\ reports' = [reports EXCEPT ![o] = Append(s, r)]
                        /\ UNCHANGED <<progress, seen, applied, got>>
                        /\ ReportOK(r)
                        /\ s # <<>> => Follows(Latest(o), r)
      BY <2>1, <2>2, <2>3, <2>4, <2>7
    <2> QED BY <2>5, <2>6, <2>7 DEF Report
  <1> HIDE DEF s
  <1>3. /\ reports'[o] = Append(s, r) /\ s = reports[o]
        /\ \A p \in Orders \ {o} : reports'[p] = reports[p]
    BY <1>2 DEF StreamInv, s
  <1>4. r \in Reports
    BY <1>2 DEF ReportOK
  <1>5. /\ reports'[o] \in Seq(Reports) /\ Len(reports'[o]) = Len(s) + 1
        /\ \A k \in 1..Len(s) : reports'[o][k] = s[k]
        /\ reports'[o][Len(s) + 1] = r
    BY <1>1, <1>3, <1>4
  <1>6. ReportsOK(o)'
    <2>1. ASSUME NEW k \in 1..Len(reports'[o]) PROVE ReportOK(reports'[o][k])
      BY <1>1, <1>2, <1>3, <1>5 DEF ReportsOK
    <2>2. ASSUME NEW j \in 1..Len(reports'[o]), NEW k \in 1..Len(reports'[o]), j < k
          PROVE  Follows(reports'[o][j], reports'[o][k])
      <3>1. CASE k <= Len(s)
        BY <1>1, <1>3, <1>5, <2>2, <3>1 DEF ReportsOK
      <3>2. CASE k = Len(s) + 1
        <4>1. j \in 1..Len(s) /\ reports'[o][j] = s[j] /\ reports'[o][k] = r /\ s # <<>>
              /\ Len(s) \in 1..Len(s)
          BY <1>1, <1>5, <2>2, <3>2
        <4>2. Latest(o) = s[Len(s)]
          BY <1>3, <4>1 DEF Latest
        <4>3. Follows(s[Len(s)], r)
          BY <1>2, <4>1, <4>2
        <4>4. CASE j = Len(s)
          BY <4>1, <4>3, <4>4
        <4>5. CASE j # Len(s)
          <5>1. Follows(s[j], s[Len(s)]) /\ ReportOK(s[j]) /\ ReportOK(s[Len(s)])
            BY <1>1, <1>3, <4>1, <4>5 DEF ReportsOK
          <5>3. Follows(s[j], r)
            BY <1>2, <4>3, <5>1, FollowsOn
          <5> QED BY <4>1, <5>3
        <4> QED BY <4>4, <4>5
      <3> QED BY <1>1, <1>5, <3>1, <3>2
    <2> QED BY <2>1, <2>2 DEF ReportsOK
  <1>7. \A p \in Orders \ {o} : ReportsOK(p)'
    BY <1>3 DEF StreamInv, ReportsOK
  <1>8. reports' \in [Orders -> Seq(Reports)]
    BY <1>2, <1>3, <1>5 DEF StreamInv
  <1>9. ProjectionIsExact'
    BY <1>1, <1>2, <1>3, <1>5 DEF StreamInv, ProjectionIsExact, ProjectionIsNewest, FillsAppliedOnce
  <1>10. \A p \in Orders :
           /\ got'[p] \in 0..Len(reports'[p])
           /\ \A k \in Nat : <<p, k>> \in seen' => k <= got'[p]
    BY <1>1, <1>2, <1>3, <1>5 DEF StreamInv
  <1> QED BY <1>2, <1>6, <1>7, <1>8, <1>9, <1>10 DEF StreamInv

LEMMA ProjectInv ==
  ASSUME StreamInv, NEW o \in Orders, NEW k \in 1..Len(reports[o]), Ignore(o, k) \/ Apply(o, k)
  PROVE  StreamInv'
  <1>1. got[o] \in Nat /\ k \in Nat /\ k # 0 /\ UNCHANGED reports
    BY DEF StreamInv, Ignore, Apply
  <1>2. CASE Ignore(o, k)
    <2>1. k <= got[o]
      BY <1>1, <1>2, LaterIsApplied DEF Ignore
    <2>2. UNCHANGED <<reports, progress, seen, applied, got>>
      BY <1>1, <1>2, <2>1 DEF Ignore, Reach, StreamInv
    <2> QED BY <2>2 DEF StreamInv, ReportsOK, ProjectionIsExact, ProjectionIsNewest, FillsAppliedOnce
  <1>3. CASE Apply(o, k)
    <2> DEFINE r == reports[o][k]
               g == reports[o][got[o]]
    <2>1. got[o] < k
      BY <1>1, <1>3, EarlierIsIgnored DEF Apply
    <2>2. /\ progress' = [progress EXCEPT ![o] = r]
          /\ applied' = [applied EXCEPT ![o] = @ + r.fill]
          /\ got' = [got EXCEPT ![o] = k]
          /\ seen' \subseteq seen \cup {<<o, k>>}
      BY <1>1, <1>3, <2>1 DEF Apply, Reach
    <2>3. ReportOK(r)
      BY DEF StreamInv, ReportsOK
    <2>4. r.fill \in Nat /\ r.qty \in Nat /\ r \in Reports
      BY <2>3, StreamAssumption DEF ReportOK, Reports
    <2>5. applied[o] + r.fill <= r.qty
      <3>1. CASE got[o] = 0
        <4>1. applied[o] <= 0 /\ applied[o] \in Nat
          BY <3>1 DEF StreamInv, ProjectionIsExact, ProjectionIsNewest, FillsAppliedOnce, NoReport
        <4>2. r.fill <= r.qty
          BY <2>3 DEF ReportOK
        <4> QED BY <2>4, <4>1, <4>2
      <3>2. CASE got[o] # 0
        <4>1. /\ got[o] \in 1..Len(reports[o]) /\ progress[o] = g
              /\ applied[o] \in Nat /\ applied[o] <= progress[o].qty
          BY <3>2 DEF StreamInv, ProjectionIsExact, ProjectionIsNewest, FillsAppliedOnce
        <4>2. Follows(g, r) /\ ReportOK(g)
          BY <2>1, <4>1 DEF StreamInv, ReportsOK
        <4>3. g.qty \in Nat /\ g.qty + r.fill <= r.qty
          BY <4>2, StreamAssumption DEF Follows, ReportOK, Reports
        <4> QED BY <2>4, <4>1, <4>3
      <3> QED BY <3>1, <3>2
    <2>6. /\ progress' \in [Orders -> Reports \cup {NoReport}]
          /\ applied' \in [Orders -> Nat] /\ got' \in [Orders -> Nat]
      BY <1>1, <2>2, <2>4 DEF StreamInv
    <2>7. ProjectionIsExact'
      BY <1>1, <2>2, <2>5 DEF StreamInv, ProjectionIsExact, ProjectionIsNewest, FillsAppliedOnce
    <2>8. ASSUME NEW p \in Orders
          PROVE  /\ ReportsOK(p)' /\ got'[p] \in 0..Len(reports'[p])
                 /\ \A n \in Nat : <<p, n>> \in seen' => n <= got'[p]
      <3>1. ReportsOK(p)' /\ got'[p] \in 0..Len(reports'[p])
        BY <1>1, <2>2 DEF StreamInv, ReportsOK
      <3>2. ASSUME NEW n \in Nat, <<p, n>> \in seen' PROVE n <= got'[p]
        BY <1>1, <2>1, <2>2, <3>2 DEF StreamInv
      <3> QED BY <3>1, <3>2
    <2> QED BY <1>1, <2>6, <2>7, <2>8 DEF StreamInv
  <1> QED BY <1>2, <1>3

\* PrivateStreamProjector.project, for any orders, any number of reports and any
\* loss, repetition or reordering of them: the projection is that of the newest report
\* that arrived, and no fill is applied twice.
THEOREM StreamIsExact == StreamSpec => []ProjectionIsExact
  <1>1. StreamInit => StreamInv
    <2> SUFFICES ASSUME StreamInit PROVE StreamInv
      OBVIOUS
    <2>1. \A o \in Orders : reports[o] = <<>> /\ Len(reports[o]) = 0 /\ reports[o] \in Seq(Reports)
      BY DEF StreamInit
    <2>2. \A o \in Orders : progress[o] = NoReport /\ applied[o] = 0 /\ got[o] = 0 /\ seen = {}
      BY DEF StreamInit
    <2>3. /\ reports \in [Orders -> Seq(Reports)] /\ progress \in [Orders -> Reports \cup {NoReport}]
          /\ applied \in [Orders -> Nat] /\ got \in [Orders -> Nat]
      BY <2>1 DEF StreamInit
    <2>4. ProjectionIsExact
      BY <2>2 DEF ProjectionIsExact, ProjectionIsNewest, FillsAppliedOnce, NoReport
    <2>5. \A o \in Orders : ReportsOK(o) /\ got[o] \in 0..Len(reports[o])
      BY <2>1, <2>2 DEF ReportsOK
    <2> QED BY <2>2, <2>3, <2>4, <2>5 DEF StreamInv
  <1>2. StreamInv /\ [StreamNext]_streamVars => StreamInv'
    <2> SUFFICES ASSUME StreamInv, [StreamNext]_streamVars PROVE StreamInv'
      OBVIOUS
    <2>1. CASE UNCHANGED streamVars
      BY <2>1 DEF streamVars, StreamInv, ReportsOK, ProjectionIsExact, ProjectionIsNewest, FillsAppliedOnce
    <2> QED BY <2>1, ReportInv, ProjectInv DEF StreamNext
  <1>3. StreamInv => ProjectionIsExact
    BY DEF StreamInv
  <1> QED BY <1>1, <1>2, <1>3, PTL DEF StreamSpec

-----------------------------------------------------------------------------
(* The outbox and its dead letters agree, for any events, workers and       *)
(* operators, and any crash or lost commit between them.                    *)

\* A row out of attempts is closed until it is replayed.
AttemptsLeft(row) == ~row.published => row.attempts < MaxAttempts

\* What a pass has yet to do or to commit is what it read and did.
PassOK(w) ==
  /\ \A e \in pass[w].todo : AttemptsLeft(pass[w].seen[e]) /\ ~pass[w].seen[e].published
  /\ \A e \in Events : pass[w].mark[e] = Published => e \in sent
  /\ \A e \in Events : pass[w].mark[e] >= MaxAttempts =>
       e \in pass[w].dead \/ dlq[e].state # "NONE"

\* Before an event has a dead letter nobody has migrated its payload, neither in the
\* row nor in what a pass read of it.
NotMigrated ==
  \A e \in Events : dlq[e].state = "NONE" =>
    outbox[e].payload = 0 /\ \A w \in Workers : pass[w].seen[e].payload = 0

\* An operator works on dead letters.
CallsOnDeadLetters ==
  \A o \in Operators : call[o].kind # "idle" => dlq[call[o].event].state # "NONE"

OutboxIInv ==
  /\ OutboxInv /\ NotMigrated /\ CallsOnDeadLetters
  /\ \A e \in Events : AttemptsLeft(outbox[e])
  /\ \A w \in Workers : PassOK(w)

LEMMA NoCallOK == NoCall \in Calls /\ NoCall.kind = "idle"
  <1>1. (CHOOSE e \in Events : TRUE) \in Events /\ 0 \in Versions
    BY OutboxAssumption DEF Versions
  <1> QED BY <1>1 DEF NoCall, Calls, Resolution

LEMMA NoPassOK ==
  /\ NoPass \in Passes /\ NoPass.active = FALSE /\ NoPass.todo = {} /\ NoPass.dead = {}
  /\ \A e \in Events : NoPass.mark[e] = Untried /\ NoPass.seen[e].payload = 0
  <1>1. NoRow \in Rows /\ NoRow.payload = 0
    BY OutboxAssumption DEF NoRow, Rows, Versions
  <1>2. Untried \in Untried..MaxAttempts
    BY OutboxAssumption DEF Untried
  <1>3. [e \in Events |-> NoRow] \in [Events -> Rows]
        /\ [e \in Events |-> Untried] \in [Events -> Untried..MaxAttempts]
    BY <1>1, <1>2
  <1> QED BY <1>1, <1>3 DEF NoPass, Passes

LEMMA OutboxInitInv == Init => OutboxIInv
  <1> SUFFICES ASSUME Init PROVE OutboxIInv
    OBVIOUS
  <1>1. NoRow \in Rows /\ NoRow.payload = 0 /\ NoRow.published = FALSE /\ AttemptsLeft(NoRow)
    BY OutboxAssumption DEF NoRow, Rows, Versions, AttemptsLeft
  <1>2. NoDeadLetter \in DeadLetters /\ NoDeadLetter.state = "NONE"
    BY OutboxAssumption DEF NoDeadLetter, DeadLetters, Resolution, Versions
  <1>3. TypeOK
    BY <1>1, <1>2, NoPassOK, NoCallOK, OutboxAssumption DEF Init, TypeOK
  <1>4. PublishedIsAccountedFor /\ HashMatches
    BY <1>1, <1>2 DEF Init, PublishedIsAccountedFor, HashMatches
  <1>5. NotMigrated /\ CallsOnDeadLetters
    BY <1>1, NoPassOK, NoCallOK DEF Init, NotMigrated, CallsOnDeadLetters
  <1>6. ASSUME NEW w \in Workers PROVE PassOK(w)
    <2>1. pass[w] = NoPass
      BY DEF Init
    <2>2. ~(Untried >= MaxAttempts) /\ Untried # Published
      BY OutboxAssumption DEF Untried, Published
    <2> QED BY <2>1, <2>2, NoPassOK DEF PassOK
  <1>7. \A e \in Events : AttemptsLeft(outbox[e])
    BY <1>1 DEF Init
  <1> QED BY <1>3, <1>4, <1>5, <1>6, <1>7 DEF OutboxIInv, OutboxInv

-----------------------------------------------------------------------------
(* What a step must respect, by what it changes.                           *)

\* The rest of the invariant: all but the rows.
RowsOK ==
  /\ outbox \in [Events -> Rows]
  /\ \A e \in Events : AttemptsLeft(outbox[e])
  /\ \A e \in Events : outbox[e].published => e \in sent \/ dlq[e].state # "NONE"
  /\ \A e \in Events : dlq[e].state # "NONE" => dlq[e].hash = outbox[e].payload
  /\ \A e \in Events : dlq[e].state = "NONE" => outbox[e].payload = 0

LEMMA RowsOf == OutboxIInv => RowsOK
  BY DEF OutboxIInv, OutboxInv, TypeOK, PublishedIsAccountedFor, HashMatches, NotMigrated, RowsOK

\* A step of a worker: p is what becomes of its pass.
LEMMA WorkerStep ==
  ASSUME OutboxIInv, RowsOK', dlq' \in [Events -> DeadLetters], UNCHANGED call,
         sent \subseteq sent', sent' \subseteq Events, crashes' \in 0..MaxCrashes,
         \A e \in Events : dlq[e].state # "NONE" => dlq'[e].state # "NONE",
         NEW w \in Workers, NEW p \in Passes, pass' = [pass EXCEPT ![w] = p],
         \A e \in p.todo : AttemptsLeft(p.seen[e]) /\ ~p.seen[e].published,
         \A e \in Events : p.mark[e] = Published => e \in sent',
         \A e \in Events : p.mark[e] >= MaxAttempts => e \in p.dead \/ dlq'[e].state # "NONE",
         \A e \in Events : dlq'[e].state = "NONE" => p.seen[e].payload = 0
  PROVE  OutboxIInv'
  <1>1. pass'[w] = p /\ \A v \in Workers \ {w} : pass'[v] = pass[v]
    BY DEF OutboxIInv, OutboxInv, TypeOK
  <1>2. TypeOK'
    BY DEF OutboxIInv, OutboxInv, TypeOK, RowsOK
  <1>3. (PublishedIsAccountedFor /\ HashMatches)'
    BY DEF RowsOK, PublishedIsAccountedFor, HashMatches
  <1>4. NotMigrated'
    BY <1>1 DEF RowsOK, NotMigrated, OutboxIInv
  <1>5. CallsOnDeadLetters'
    BY DEF CallsOnDeadLetters, OutboxIInv, OutboxInv, TypeOK, Calls
  <1>6. ASSUME NEW v \in Workers PROVE PassOK(v)'
    <2>1. CASE v = w
      BY <1>1, <2>1 DEF PassOK
    <2>2. CASE v # w
      BY <1>1, <2>2 DEF PassOK, OutboxIInv
    <2> QED BY <2>1, <2>2
  <1> QED BY <1>2, <1>3, <1>4, <1>5, <1>6 DEF OutboxIInv, OutboxInv, RowsOK

\* A step of an operator or of the environment: the passes stay as they are.
LEMMA OtherStep ==
  ASSUME OutboxIInv, RowsOK', dlq' \in [Events -> DeadLetters], call' \in [Operators -> Calls],
         UNCHANGED <<pass, sent, crashes>>,
         \A e \in Events : dlq[e].state # "NONE" => dlq'[e].state # "NONE",
         \A o \in Operators : call'[o].kind # "idle" => dlq'[call'[o].event].state # "NONE"
  PROVE  OutboxIInv'
  <1>1. TypeOK'
    BY DEF OutboxIInv, OutboxInv, TypeOK, RowsOK
  <1>2. (PublishedIsAccountedFor /\ HashMatches)'
    BY DEF RowsOK, PublishedIsAccountedFor, HashMatches
  <1>3. NotMigrated'
    BY DEF RowsOK, NotMigrated, OutboxIInv
  <1>4. \A w \in Workers : PassOK(w)'
    BY DEF PassOK, OutboxIInv
  <1> QED BY <1>1, <1>2, <1>3, <1>4 DEF OutboxIInv, OutboxInv, RowsOK, CallsOnDeadLetters

\* Rows, dead letters and what was sent are left alone, or only more was sent.
LEMMA SameRows ==
  ASSUME OutboxIInv, UNCHANGED <<outbox, dlq>>, sent \subseteq sent' PROVE RowsOK'
  BY RowsOf DEF RowsOK

-----------------------------------------------------------------------------
(* dispatch_once.                                                          *)

LEMMA BeginInv ==
  ASSUME OutboxIInv, NEW w \in Workers, Begin(w) PROVE OutboxIInv'
  <1> DEFINE due == {e \in Events : Pending(e) /\ ~outbox[e].waiting}
             p == [NoPass EXCEPT !.active = TRUE, !.todo = due, !.seen = outbox]
  <1>1. pass' = [pass EXCEPT ![w] = p] /\ UNCHANGED <<outbox, dlq, call, sent, crashes>>
    BY DEF Begin
  <1>2. /\ p.todo = due /\ p.seen = outbox /\ p.mark = NoPass.mark /\ p.dead = {}
        /\ p.active = TRUE
    BY NoPassOK DEF Passes
  <1>3. outbox \in [Events -> Rows] /\ due \subseteq Events
    BY DEF OutboxIInv, OutboxInv, TypeOK
  <1>4. p \in Passes
    BY <1>2, <1>3, NoPassOK DEF Passes
  <1>5. \A e \in due : AttemptsLeft(outbox[e]) /\ ~outbox[e].published
    BY DEF OutboxIInv, Pending
  <1>6. \A e \in Events : dlq[e].state = "NONE" => outbox[e].payload = 0
    BY DEF OutboxIInv, NotMigrated
  <1>7. ~(Untried >= MaxAttempts) /\ Untried # Published
    BY OutboxAssumption DEF Untried, Published
  <1>8. \A e \in Events : p.mark[e] = Untried
    BY <1>2, NoPassOK
  <1>9. dlq \in [Events -> DeadLetters] /\ sent \subseteq Events /\ crashes \in 0..MaxCrashes
    BY DEF OutboxIInv, OutboxInv, TypeOK
  <1>10. RowsOK'
    BY <1>1, SameRows
  <1> HIDE DEF p, due
  <1> QED BY <1>1, <1>2, <1>4, <1>5, <1>6, <1>7, <1>8, <1>9, <1>10, WorkerStep

\* The message left, or the publisher raised and the failure is counted.
LEMMA TryInv ==
  ASSUME OutboxIInv, NEW w \in Workers, NEW e \in Events,
         Publish(w, e) \/ \E left \in BOOLEAN : PublishFails(w, e, left)
  PROVE  OutboxIInv'
  <1> DEFINE q == pass[w]
  <1>1. q \in Passes /\ pass \in [Workers -> Passes] /\ e \in q.todo /\ PassOK(w)
        /\ UNCHANGED <<outbox, dlq, call, crashes>>
    BY DEF OutboxIInv, OutboxInv, TypeOK, Publish, PublishFails
  <1>2. PICK n \in 0..MaxAttempts, dead \in SUBSET Events :
          /\ pass' = [pass EXCEPT ![w] = [q EXCEPT !.todo = @ \ {e}, !.mark[e] = n, !.dead = dead]]
          /\ q.dead \subseteq dead
          /\ n = Published => e \in sent'
          /\ n >= MaxAttempts => e \in dead \/ dlq[e].state # "NONE"
          /\ sent \subseteq sent' /\ sent' \subseteq sent \cup {e}
    <2>1. CASE Publish(w, e)
      <3>1. pass' = [pass EXCEPT ![w] = [q EXCEPT !.todo = @ \ {e}, !.mark[e] = Published]]
        BY <1>1, <2>1 DEF Publish
      <3>2. [q EXCEPT !.todo = @ \ {e}, !.mark[e] = Published]
              = [q EXCEPT !.todo = @ \ {e}, !.mark[e] = 0, !.dead = q.dead]
        BY <1>1 DEF Passes, Published
      <3>3. 0 \in 0..MaxAttempts /\ ~(0 >= MaxAttempts) /\ q.dead \in SUBSET Events
        BY <1>1, OutboxAssumption DEF Passes
      <3> QED BY <2>1, <3>1, <3>2, <3>3 DEF Publish
    <2>2. ASSUME NEW left \in BOOLEAN, PublishFails(w, e, left)
          PROVE  \E n \in 0..MaxAttempts, dead \in SUBSET Events :
                   /\ pass' = [pass EXCEPT ![w] = [q EXCEPT !.todo = @ \ {e}, !.mark[e] = n, !.dead = dead]]
                   /\ q.dead \subseteq dead
                   /\ n = Published => e \in sent'
                   /\ n >= MaxAttempts => e \in dead \/ dlq[e].state # "NONE"
                   /\ sent \subseteq sent' /\ sent' \subseteq sent \cup {e}
      <3> DEFINE n == FailedMark(w, e)
                 dead == IF n >= MaxAttempts /\ dlq[e].state = "NONE" THEN q.dead \cup {e} ELSE q.dead
      <3>1. pass' = [pass EXCEPT ![w] = [q EXCEPT !.todo = @ \ {e}, !.mark[e] = n, !.dead = dead]]
        BY <1>1, <2>2 DEF PublishFails
      <3>2. n \in 0..MaxAttempts /\ n # Published
        <4>1. q.seen[e] \in Rows /\ q.seen[e].attempts < MaxAttempts
          BY <1>1 DEF Passes, PassOK, AttemptsLeft
        <4>2. q.seen[e].attempts \in Nat
          BY <4>1, OutboxAssumption DEF Rows
        <4> QED BY <4>1, <4>2, OutboxAssumption DEF FailedMark, Published
      <3>3. dead \in SUBSET Events /\ q.dead \subseteq dead
        BY <1>1 DEF Passes
      <3>4. n >= MaxAttempts => e \in dead \/ dlq[e].state # "NONE"
        OBVIOUS
      <3>5. sent \subseteq sent' /\ sent' \subseteq sent \cup {e}
        BY <2>2 DEF PublishFails
      <3> HIDE DEF n, dead
      <3> QED BY <3>1, <3>2, <3>3, <3>4, <3>5
    <2> QED BY <2>1, <2>2
  <1> DEFINE p == [q EXCEPT !.todo = @ \ {e}, !.mark[e] = n, !.dead = dead]
  <1>3. n \in Untried..MaxAttempts
    BY <1>2, OutboxAssumption DEF Untried
  <1>4. /\ p \in Passes /\ p.todo = q.todo \ {e} /\ p.seen = q.seen /\ p.dead = dead
        /\ p.mark = [q.mark EXCEPT ![e] = n]
    BY <1>1, <1>3 DEF Passes
  <1>5. q.mark \in [Events -> Untried..MaxAttempts]
    BY <1>1 DEF Passes
  <1>6. \A f \in Events : p.mark[f] = IF f = e THEN n ELSE q.mark[f]
    BY <1>4, <1>5
  <1>7. \A f \in p.todo : AttemptsLeft(p.seen[f]) /\ ~p.seen[f].published
    BY <1>1, <1>4 DEF PassOK
  <1>8. \A f \in Events : p.mark[f] = Published => f \in sent'
    BY <1>1, <1>2, <1>6 DEF PassOK
  <1>9. \A f \in Events : p.mark[f] >= MaxAttempts => f \in p.dead \/ dlq'[f].state # "NONE"
    BY <1>1, <1>2, <1>4, <1>6 DEF PassOK
  <1>10. \A f \in Events : dlq'[f].state = "NONE" => p.seen[f].payload = 0
    BY <1>1, <1>4 DEF OutboxIInv, NotMigrated
  <1>11. dlq \in [Events -> DeadLetters] /\ sent \subseteq Events /\ crashes \in 0..MaxCrashes
    BY DEF OutboxIInv, OutboxInv, TypeOK
  <1>12. RowsOK' /\ sent' \subseteq Events /\ pass' = [pass EXCEPT ![w] = p]
    BY <1>1, <1>2, <1>11, SameRows
  <1> HIDE DEF p, q
  <1> QED BY <1>1, <1>2, <1>4, <1>7, <1>8, <1>9, <1>10, <1>11, <1>12, WorkerStep

\* The pass is given up: a crash, or a refused commit.
LEMMA DropInv ==
  ASSUME OutboxIInv, NEW w \in Workers, pass' = [pass EXCEPT ![w] = NoPass], RowsOK',
         dlq' \in [Events -> DeadLetters], UNCHANGED <<call, sent>>, crashes' \in 0..MaxCrashes,
         \A e \in Events : dlq[e].state # "NONE" => dlq'[e].state # "NONE"
  PROVE  OutboxIInv'
  <1>1. ~(Untried >= MaxAttempts) /\ Untried # Published
    BY OutboxAssumption DEF Untried, Published
  <1>2. sent \subseteq Events
    BY DEF OutboxIInv, OutboxInv, TypeOK
  <1> QED BY <1>1, <1>2, NoPassOK, WorkerStep

\* What a commit makes of a row.
LEMMA MarkedCases ==
  ASSUME NEW row, NEW n
  PROVE  /\ n = Untried => Marked(row, n) = row
         /\ n = Published => Marked(row, n) = [row EXCEPT !.published = TRUE]
         /\ n # Untried /\ n # Published /\ n >= MaxAttempts =>
              Marked(row, n) = [row EXCEPT !.published = TRUE, !.attempts = n]
         /\ n # Untried /\ n # Published /\ ~(n >= MaxAttempts) =>
              Marked(row, n) = [row EXCEPT !.attempts = n, !.waiting = TRUE]
  <1>1. Untried # Published /\ ~(Untried >= MaxAttempts) /\ ~(Published >= MaxAttempts)
    BY OutboxAssumption DEF Untried, Published
  <1>2. n = Untried => Marked(row, n) = row
    BY <1>1 DEF Marked
  <1>3. n = Published => Marked(row, n) = [row EXCEPT !.published = TRUE]
    BY <1>1 DEF Marked
  <1>4. n # Untried /\ n # Published /\ n >= MaxAttempts =>
          Marked(row, n) = [row EXCEPT !.published = TRUE, !.attempts = n]
    BY DEF Marked
  <1>5. n # Untried /\ n # Published /\ ~(n >= MaxAttempts) =>
          Marked(row, n) = [row EXCEPT !.attempts = n, !.waiting = TRUE]
    BY DEF Marked
  <1> QED BY <1>2, <1>3, <1>4, <1>5

\* The commit of the marks and of the dead letters.
LEMMA CommitPassInv ==
  ASSUME OutboxIInv, NEW w \in Workers, CommitPass(w) PROVE OutboxIInv'
  <1> DEFINE q == pass[w]
  <1>1. /\ q \in Passes /\ PassOK(w) /\ RowsOK
        /\ dlq \in [Events -> DeadLetters] /\ crashes \in 0..MaxCrashes
    BY RowsOf DEF OutboxIInv, OutboxInv, TypeOK
  <1>2. /\ \A e \in Events : outbox'[e] = Marked(outbox[e], q.mark[e])
        /\ \A e \in q.dead : dlq'[e].state = "OPEN" /\ dlq'[e].hash = q.seen[e].payload
        /\ \A e \in Events \ q.dead : dlq'[e] = dlq[e]
        /\ pass' = [pass EXCEPT ![w] = NoPass] /\ UNCHANGED <<call, sent, crashes>>
        /\ \A e \in q.dead : dlq[e].state = "NONE"
    BY <1>1 DEF CommitPass, Conflicts, Passes
  <1>3. ASSUME NEW e \in Events
        PROVE  /\ Marked(outbox[e], q.mark[e]) \in Rows /\ AttemptsLeft(Marked(outbox[e], q.mark[e]))
               /\ Marked(outbox[e], q.mark[e]).payload = outbox[e].payload
               /\ Marked(outbox[e], q.mark[e]).published =>
                    outbox[e].published \/ q.mark[e] = Published \/ q.mark[e] >= MaxAttempts
    <2> DEFINE row == outbox[e]
               n == q.mark[e]
    <2>1. row \in Rows /\ AttemptsLeft(row) /\ n \in Untried..MaxAttempts /\ MaxAttempts \in Nat \ {0}
      BY <1>1, OutboxAssumption DEF RowsOK, Passes
    <2> SUFFICES /\ Marked(row, n) \in Rows /\ AttemptsLeft(Marked(row, n))
                 /\ Marked(row, n).payload = row.payload
                 /\ Marked(row, n).published =>
                      row.published \/ n = Published \/ n >= MaxAttempts
      OBVIOUS
    <2> HIDE DEF row, n
    <2>2. CASE n = Untried
      <3>1. Marked(row, n) = row
        BY <2>2, MarkedCases
      <3> QED BY <2>1, <3>1
    <2>3. CASE n = Published
      <3>1. Marked(row, n) = [row EXCEPT !.published = TRUE]
        BY <2>3, MarkedCases
      <3>2. Marked(row, n) \in Rows /\ Marked(row, n).payload = row.payload
            /\ Marked(row, n).published = TRUE
        BY <2>1, <3>1 DEF Rows
      <3> QED BY <2>3, <3>2 DEF AttemptsLeft
    <2>4. CASE n # Untried /\ n # Published /\ n >= MaxAttempts
      <3>1. Marked(row, n) = [row EXCEPT !.published = TRUE, !.attempts = n]
        BY <2>4, MarkedCases
      <3>2. n \in 0..MaxAttempts
        BY <2>1, <2>4 DEF Untried, Published
      <3>3. Marked(row, n) \in Rows /\ Marked(row, n).payload = row.payload
            /\ Marked(row, n).published = TRUE
        BY <2>1, <3>1, <3>2 DEF Rows
      <3> QED BY <2>4, <3>3 DEF AttemptsLeft
    <2>5. CASE n # Untried /\ n # Published /\ ~(n >= MaxAttempts)
      <3>1. Marked(row, n) = [row EXCEPT !.attempts = n, !.waiting = TRUE]
        BY <2>5, MarkedCases
      <3>2. n \in 0..MaxAttempts /\ n < MaxAttempts
        BY <2>1, <2>5 DEF Untried, Published
      <3>3. Marked(row, n) \in Rows /\ Marked(row, n).payload = row.payload
            /\ Marked(row, n).published = row.published /\ Marked(row, n).attempts = n
        BY <2>1, <3>1, <3>2 DEF Rows
      <3> QED BY <3>2, <3>3 DEF AttemptsLeft
    <2> QED BY <2>2, <2>3, <2>4, <2>5
  <1>4. outbox' \in [Events -> Rows]
    BY <1>3 DEF CommitPass
  <1>5. dlq' \in [Events -> DeadLetters]
    <2>1. \A e \in Events : q.seen[e] \in Rows
      BY <1>1 DEF Passes
    <2>2. \A e \in Events : [state |-> "OPEN", hash |-> q.seen[e].payload] \in DeadLetters
      BY <2>1 DEF Rows, DeadLetters, Resolution
    <2> QED BY <1>1, <2>2 DEF CommitPass
  <1>6. \A e \in Events : (dlq[e].state # "NONE" \/ e \in q.dead) <=> dlq'[e].state # "NONE"
    <2> HIDE DEF q
    <2> QED BY <1>2
  <1>7. ASSUME NEW e \in Events
        PROVE  /\ outbox'[e].published => e \in sent' \/ dlq'[e].state # "NONE"
               /\ dlq'[e].state # "NONE" => dlq'[e].hash = outbox'[e].payload
               /\ dlq'[e].state = "NONE" => outbox'[e].payload = 0
               /\ AttemptsLeft(outbox'[e])
    <2>1. outbox'[e].published => e \in sent' \/ dlq'[e].state # "NONE"
      BY <1>1, <1>2, <1>3, <1>6 DEF PassOK, RowsOK
    <2>2. outbox'[e].payload = outbox[e].payload
      BY <1>2, <1>3
    <2>3. e \in q.dead => outbox[e].payload = 0 /\ q.seen[e].payload = 0
      BY <1>2 DEF OutboxIInv, NotMigrated
    <2>4. dlq'[e].state # "NONE" => dlq'[e].hash = outbox'[e].payload
      <3> HIDE DEF q
      <3>1. CASE e \in q.dead
        BY <1>2, <2>2, <2>3, <3>1
      <3>2. CASE e \notin q.dead
        BY <1>1, <1>2, <2>2, <3>2 DEF RowsOK
      <3> QED BY <3>1, <3>2
    <2>5. dlq'[e].state = "NONE" => outbox'[e].payload = 0
      BY <1>1, <1>6, <2>2 DEF RowsOK
    <2> QED BY <1>2, <1>3, <2>1, <2>4, <2>5
  <1>8. RowsOK'
    BY <1>4, <1>7 DEF RowsOK, AttemptsLeft
  <1> QED BY <1>1, <1>2, <1>5, <1>6, <1>8, DropInv

-----------------------------------------------------------------------------
(* Operators and environment.                                              *)

LEMMA StartInv ==
  ASSUME OutboxIInv, NEW o \in Operators, NEW c \in Calls, call' = [call EXCEPT ![o] = c],
         UNCHANGED <<outbox, dlq, pass, sent, crashes>>,
         c.kind # "idle" => dlq[c.event].state # "NONE"
  PROVE  OutboxIInv'
  <1>1. RowsOK' /\ call \in [Operators -> Calls] /\ dlq \in [Events -> DeadLetters]
    BY SameRows DEF OutboxIInv, OutboxInv, TypeOK
  <1>2. call'[o] = c /\ \A u \in Operators \ {o} : call'[u] = call[u]
    BY <1>1
  <1>3. \A u \in Operators : call[u].kind # "idle" => dlq[call[u].event].state # "NONE"
    BY DEF OutboxIInv, CallsOnDeadLetters
  <1> QED BY <1>1, <1>2, <1>3, OtherStep

\* An operator's commit writes one row and one dead letter.
LEMMA FinishInv ==
  ASSUME OutboxIInv, NEW o \in Operators, NEW e \in Events, e = call[o].event,
         dlq[e].state # "NONE", NEW row \in Rows, NEW letter \in DeadLetters,
         outbox' = [outbox EXCEPT ![e] = row], dlq' = [dlq EXCEPT ![e] = letter],
         call' = [call EXCEPT ![o] = NoCall], UNCHANGED <<pass, sent, crashes>>,
         letter.state # "NONE", letter.hash = row.payload, AttemptsLeft(row)
  PROVE  OutboxIInv'
  <1>1. RowsOK /\ call \in [Operators -> Calls] /\ dlq \in [Events -> DeadLetters]
        /\ outbox \in [Events -> Rows]
    BY RowsOf DEF OutboxIInv, OutboxInv, TypeOK
  <1>2. /\ outbox'[e] = row /\ dlq'[e] = letter
        /\ \A f \in Events \ {e} : outbox'[f] = outbox[f] /\ dlq'[f] = dlq[f]
        /\ outbox' \in [Events -> Rows] /\ dlq' \in [Events -> DeadLetters]
    BY <1>1
  <1>3. RowsOK'
    BY <1>1, <1>2 DEF RowsOK, AttemptsLeft
  <1>4. call' \in [Operators -> Calls] /\ call'[o].kind = "idle"
        /\ \A u \in Operators \ {o} : call'[u] = call[u]
    BY <1>1, NoCallOK
  <1>5. \A f \in Events : dlq[f].state # "NONE" => dlq'[f].state # "NONE"
    BY <1>2
  <1>6. \A u \in Operators : call'[u].kind # "idle" => dlq'[call'[u].event].state # "NONE"
    BY <1>1, <1>4, <1>5 DEF OutboxIInv, CallsOnDeadLetters, Calls
  <1> QED BY <1>2, <1>3, <1>4, <1>5, <1>6, OtherStep

LEMMA OperateInv ==
  ASSUME OutboxIInv, NEW o \in Operators, Operate(o) PROVE OutboxIInv'
  <1>1. call[o] \in Calls /\ dlq \in [Events -> DeadLetters] /\ outbox \in [Events -> Rows]
        /\ call[o].event \in Events /\ RowsOK
    BY RowsOf DEF OutboxIInv, OutboxInv, TypeOK, Calls
  <1>2. NoCall \in Calls /\ NoCall.kind = "idle"
    BY <1>1, NoCallOK
  <1>3. call[o].kind # "idle" => dlq[call[o].event].state # "NONE"
    BY DEF OutboxIInv, CallsOnDeadLetters
  <1>4. ASSUME NEW e \in Events, NEW expected \in Versions, NEW to \in Versions,
               StartMigrate(o, e, expected, to)
        PROVE  OutboxIInv'
    <2> DEFINE c == [kind |-> "migrate", event |-> e, state |-> dlq[e].state,
                     from |-> expected, to |-> to]
    <2>1. c \in Calls /\ c.event = e
      BY <1>1 DEF Calls, DeadLetters
    <2>2. dlq[e].state # "NONE" /\ call' = [call EXCEPT ![o] = c]
          /\ UNCHANGED <<outbox, dlq, pass, sent, crashes>>
      BY <1>4 DEF StartMigrate
    <2> HIDE DEF c
    <2> QED BY <2>1, <2>2, StartInv
  <1>5. ASSUME NEW e \in Events, NEW kind \in {"replay", "resolve"}, dlq[e].state # "NONE",
               call' = [call EXCEPT ![o] = [NoCall EXCEPT !.kind = kind, !.event = e]],
               UNCHANGED <<outbox, dlq, pass, sent, crashes>>
        PROVE  OutboxIInv'
    <2> DEFINE c == [NoCall EXCEPT !.kind = kind, !.event = e]
    <2>1. c \in Calls /\ c.event = e
      BY <1>2 DEF Calls
    <2> HIDE DEF c
    <2> QED BY <1>5, <2>1, StartInv DEF c
  <1>6. ASSUME NEW e \in Events, NEW expected \in Versions, StartReplay(o, e, expected)
        PROVE  OutboxIInv'
    <2>1. dlq[e].state # "NONE" /\ "replay" \in {"replay", "resolve"}
          /\ call' = [call EXCEPT ![o] = [NoCall EXCEPT !.kind = "replay", !.event = e]]
          /\ UNCHANGED <<outbox, dlq, pass, sent, crashes>>
      BY <1>6 DEF StartReplay
    <2> QED BY <1>5, <2>1
  <1>7. ASSUME NEW e \in Events, StartResolve(o, e) PROVE OutboxIInv'
    <2>1. dlq[e].state # "NONE" /\ "resolve" \in {"replay", "resolve"}
          /\ call' = [call EXCEPT ![o] = [NoCall EXCEPT !.kind = "resolve", !.event = e]]
          /\ UNCHANGED <<outbox, dlq, pass, sent, crashes>>
      BY <1>7 DEF StartResolve
    <2> QED BY <1>5, <2>1
  <1> DEFINE e == call[o].event
  <1>8. dlq[e] \in DeadLetters /\ outbox[e] \in Rows /\ AttemptsLeft(outbox[e])
        /\ (dlq[e].state # "NONE" => dlq[e].hash = outbox[e].payload)
    BY <1>1 DEF RowsOK
  <1>9. CASE CommitMigrate(o)
    <2> DEFINE v == Unless(call[o].from, call[o].to, outbox[e].payload)
               t == Unless(call[o].state, "MIGRATED", dlq[e].state)
               row == [outbox[e] EXCEPT !.payload = v]
               letter == [dlq[e] EXCEPT !.hash = v, !.state = t]
    <2>1. dlq[e].state # "NONE" /\ dlq[e].hash = outbox[e].payload
      BY <1>3, <1>8, <1>9 DEF CommitMigrate
    <2>2. v \in Versions /\ t \in Resolution /\ t # "NONE"
      BY <1>1, <1>8, <2>1 DEF Unless, Calls, Rows, DeadLetters, Resolution
    <2>3. /\ outbox' = [outbox EXCEPT ![e] = row] /\ call' = [call EXCEPT ![o] = NoCall]
          /\ UNCHANGED <<pass, sent, crashes>>
      BY <1>1, <1>9 DEF CommitMigrate
    <2>4. dlq' = [dlq EXCEPT ![e] = letter]
      BY <1>1, <1>9, <2>1 DEF CommitMigrate
    <2> HIDE DEF v, t
    <2>5. row \in Rows /\ row.payload = v /\ AttemptsLeft(row)
      BY <1>8, <2>2 DEF Rows, AttemptsLeft
    <2>6. letter \in DeadLetters /\ letter.hash = v /\ letter.state = t
      BY <1>8, <2>2 DEF DeadLetters
    <2> HIDE DEF row, letter
    <2> QED BY <1>1, <1>2, <2>1, <2>2, <2>3, <2>4, <2>5, <2>6, FinishInv
  <1>10. CASE CommitReplay(o)
    <2> DEFINE row == [outbox[e] EXCEPT !.published = FALSE, !.attempts = 0, !.waiting = FALSE]
               letter == [dlq[e] EXCEPT !.state = "REPLAY_PENDING"]
    <2>1. dlq[e].state # "NONE" /\ dlq[e].hash = outbox[e].payload
      BY <1>3, <1>8, <1>10 DEF CommitReplay
    <2>2. /\ outbox' = [outbox EXCEPT ![e] = row] /\ call' = [call EXCEPT ![o] = NoCall]
          /\ dlq' = [dlq EXCEPT ![e] = letter] /\ UNCHANGED <<pass, sent, crashes>>
      BY <1>1, <1>10 DEF CommitReplay
    <2>3. row \in Rows /\ row.payload = outbox[e].payload /\ AttemptsLeft(row)
      <3>1. row \in Rows /\ row.payload = outbox[e].payload /\ row.attempts = 0
        <4>1. 0 \in 0..MaxAttempts
          BY OutboxAssumption
        <4> HIDE DEF e
        <4> QED BY <1>8, <4>1 DEF Rows
      <3> QED BY <3>1, OutboxAssumption DEF AttemptsLeft
    <2>4. letter \in DeadLetters /\ letter.hash = dlq[e].hash /\ letter.state = "REPLAY_PENDING"
      BY <1>8 DEF DeadLetters, Resolution
    <2> HIDE DEF row, letter
    <2> QED BY <1>1, <1>2, <2>1, <2>2, <2>3, <2>4, FinishInv
  <1>11. CASE CommitResolve(o)
    <2> DEFINE letter == [dlq[e] EXCEPT !.state = "RESOLVED"]
    <2>1. dlq[e].state # "NONE" /\ dlq[e].hash = outbox[e].payload
      BY <1>3, <1>8, <1>11 DEF CommitResolve
    <2>2. /\ outbox' = [outbox EXCEPT ![e] = outbox[e]] /\ call' = [call EXCEPT ![o] = NoCall]
          /\ dlq' = [dlq EXCEPT ![e] = letter] /\ UNCHANGED <<pass, sent, crashes>>
      BY <1>1, <1>11 DEF CommitResolve
    <2>3. letter \in DeadLetters /\ letter.hash = dlq[e].hash /\ letter.state = "RESOLVED"
      BY <1>8 DEF DeadLetters, Resolution
    <2> HIDE DEF letter
    <2> QED BY <1>1, <1>2, <1>8, <2>1, <2>2, <2>3, FinishInv
  <1> QED BY <1>4, <1>6, <1>7, <1>9, <1>10, <1>11 DEF Operate

LEMMA EnvironmentInv ==
  ASSUME OutboxIInv, NEW e \in Events, Commit(e) \/ BackoffEnds(e) PROVE OutboxIInv'
  <1>1. RowsOK /\ outbox[e] \in Rows /\ call \in [Operators -> Calls] /\ dlq \in [Events -> DeadLetters]
    BY RowsOf DEF OutboxIInv, OutboxInv, TypeOK
  <1>2. PICK row \in Rows : /\ outbox' = [outbox EXCEPT ![e] = row]
                            /\ row.payload = outbox[e].payload /\ row.published = outbox[e].published
                            /\ row.attempts = outbox[e].attempts
    <2>1. CASE Commit(e)
      <3> DEFINE row == [outbox[e] EXCEPT !.present = TRUE]
      <3>1. row \in Rows /\ row.payload = outbox[e].payload /\ row.published = outbox[e].published
            /\ row.attempts = outbox[e].attempts
        BY <1>1 DEF Rows
      <3>2. outbox' = [outbox EXCEPT ![e] = row]
        BY <2>1 DEF Commit
      <3> HIDE DEF row
      <3> QED BY <3>1, <3>2
    <2>2. CASE BackoffEnds(e)
      <3> DEFINE row == [outbox[e] EXCEPT !.waiting = FALSE]
      <3>1. row \in Rows /\ row.payload = outbox[e].payload /\ row.published = outbox[e].published
            /\ row.attempts = outbox[e].attempts
        BY <1>1 DEF Rows
      <3>2. outbox' = [outbox EXCEPT ![e] = row]
        BY <2>2 DEF BackoffEnds
      <3> HIDE DEF row
      <3> QED BY <3>1, <3>2
    <2> QED BY <2>1, <2>2
  <1>3. UNCHANGED <<dlq, pass, call, sent, crashes>>
    BY DEF Commit, BackoffEnds
  <1>4. RowsOK'
    BY <1>1, <1>2, <1>3 DEF RowsOK, AttemptsLeft
  <1>5. \A o \in Operators : call[o].kind # "idle" => dlq[call[o].event].state # "NONE"
    BY DEF OutboxIInv, CallsOnDeadLetters
  <1> QED BY <1>1, <1>3, <1>4, <1>5, OtherStep

LEMMA OutboxNextInv == OutboxIInv /\ [Next]_vars => OutboxIInv'
  <1> SUFFICES ASSUME OutboxIInv, [Next]_vars PROVE OutboxIInv'
    OBVIOUS
  <1>1. ASSUME NEW w \in Workers, CommitRefused(w) PROVE OutboxIInv'
    <2>1. RowsOK' /\ dlq \in [Events -> DeadLetters] /\ crashes \in 0..MaxCrashes
      BY <1>1, SameRows DEF CommitRefused, OutboxIInv, OutboxInv, TypeOK
    <2> QED BY <1>1, <2>1, DropInv DEF CommitRefused
  <1>2. ASSUME NEW w \in Workers, Crash(w) PROVE OutboxIInv'
    <2>1. RowsOK' /\ dlq \in [Events -> DeadLetters] /\ crashes' \in 0..MaxCrashes
      BY <1>2, SameRows, OutboxAssumption DEF Crash, OutboxIInv, OutboxInv, TypeOK
    <2> QED BY <1>2, <2>1, DropInv DEF Crash
  <1>3. ASSUME NEW w \in Workers, Dispatch(w) PROVE OutboxIInv'
    BY <1>1, <1>3, BeginInv, TryInv, CommitPassInv DEF Dispatch
  <1>4. CASE UNCHANGED vars
    <2>1. UNCHANGED <<outbox, dlq, pass, call, sent, crashes>>
      BY <1>4 DEF vars
    <2>2. RowsOK' /\ call \in [Operators -> Calls] /\ dlq \in [Events -> DeadLetters]
      BY <2>1, SameRows DEF OutboxIInv, OutboxInv, TypeOK
    <2>3. \A o \in Operators : call[o].kind # "idle" => dlq[call[o].event].state # "NONE"
      BY DEF OutboxIInv, CallsOnDeadLetters
    <2> QED BY <2>1, <2>2, <2>3, OtherStep
  <1> QED BY <1>2, <1>3, <1>4, OperateInv, EnvironmentInv DEF Next

\* OutboxDispatcher and DeadLetterOperator: whatever passes overlap, crash or lose their
\* commit, an event marked published was sent or has a dead letter, and a dead letter's
\* payload_hash is that of the stored payload.
THEOREM OutboxIsAccountedFor == Spec => []OutboxInv
  <1>1. OutboxIInv => OutboxInv
    BY DEF OutboxIInv
  <1> QED BY <1>1, OutboxInitInv, OutboxNextInv, PTL DEF Spec

-----------------------------------------------------------------------------
(* ResearchLedger: an entry's hash is its place in the chain, its ordinal the *)
(* number of its hypothesis' trials when it came, and the versions of a       *)
(* symbol stay sorted.                                                       *)

TrialsIn(s, h) == {i \in 1..Len(s) : s[i].hypothesis = h}

EntryInOrder(e, i, r) ==
  /\ e.hash = i /\ e.previous = i - 1
  /\ r # NoHypothesis /\ e.ordinal <= r.budget /\ e.at >= r.at /\ e.measure = r.measure
  /\ PeriodsValid(e.windows)

LedgerInOrder(s, r) == \A i \in 1..Len(s) : EntryInOrder(s[i], i, r[s[i].hypothesis])

CountedIn(s, h) ==
  /\ IsFiniteSet(TrialsIn(s, h))
  /\ {s[i].ordinal : i \in TrialsIn(s, h)} = 1..Cardinality(TrialsIn(s, h))

SortedByTime(m) == \A i \in 1..Len(m) : \A j \in i+1..Len(m) : m[i].at < m[j].at

ResearchInv ==
  /\ ResearchTypeOK
  /\ LedgerInOrder(entries, registered)
  /\ \A h \in Hypotheses : CountedIn(entries, h)
  /\ SortedByTime(metadata)

LEMMA ResearchInitInv == ResearchInit => ResearchInv
  <1> SUFFICES ASSUME ResearchInit PROVE ResearchInv
    OBVIOUS
  <1>1. entries = <<>> /\ metadata = <<>> /\ Len(entries) = 0 /\ Len(metadata) = 0
    BY DEF ResearchInit
  <1>2. ResearchTypeOK
    <2>1. <<>> \in Seq(LedgerEntries) /\ <<>> \in Seq(MetaRows)
      OBVIOUS
    <2>2. registered \in [Hypotheses -> Registrations \cup {NoHypothesis}]
      BY DEF ResearchInit
    <2> QED BY <1>1, <2>1, <2>2, Zenon DEF ResearchTypeOK
  <1>3. ASSUME NEW h \in Hypotheses PROVE CountedIn(entries, h)
    <2>1. TrialsIn(entries, h) = {}
      BY <1>1 DEF TrialsIn
    <2>2. Cardinality(TrialsIn(entries, h)) = 0 /\ IsFiniteSet(TrialsIn(entries, h))
      BY <2>1, FS_EmptySet
    <2> QED BY <2>1, <2>2 DEF CountedIn
  <1>4. LedgerInOrder(entries, registered) /\ SortedByTime(metadata)
    BY <1>1 DEF LedgerInOrder, SortedByTime
  <1> QED BY <1>2, <1>3, <1>4 DEF ResearchInv

LEMMA RegisterInv ==
  ASSUME ResearchInv, NEW h \in Hypotheses, NEW measure \in Measures, NEW budget \in Budgets,
         NEW at \in ResearchTimes, RegisterHypothesis(h, measure, budget, at)
  PROVE  ResearchInv'
  <1> DEFINE r == [measure |-> measure, budget |-> budget, at |-> at]
  <1>1. registered' = [registered EXCEPT ![h] = r] /\ UNCHANGED <<entries, metadata>>
        /\ registered[h] = NoHypothesis
    BY DEF RegisterHypothesis
  <1>2. r \in Registrations
    BY DEF Registrations
  <1> HIDE DEF r
  <1>3. registered' \in [Hypotheses -> Registrations \cup {NoHypothesis}]
    BY <1>1, <1>2 DEF ResearchInv, ResearchTypeOK
  <1>4. LedgerInOrder(entries, registered')
    <2> SUFFICES ASSUME NEW i \in 1..Len(entries)
                 PROVE  EntryInOrder(entries[i], i, registered'[entries[i].hypothesis])
      BY DEF LedgerInOrder
    <2>1. EntryInOrder(entries[i], i, registered[entries[i].hypothesis])
          /\ entries[i].hypothesis \in Hypotheses
      <3>1. entries[i] \in LedgerEntries
        BY DEF ResearchInv, ResearchTypeOK
      <3>2. entries[i].hypothesis \in Hypotheses
        BY <3>1 DEF LedgerEntries
      <3> QED BY <3>2 DEF ResearchInv, LedgerInOrder
    <2>2. registered[entries[i].hypothesis] # NoHypothesis
      BY <2>1 DEF EntryInOrder
    <2>3. registered'[entries[i].hypothesis] = registered[entries[i].hypothesis]
      BY <1>1, <2>1, <2>2 DEF ResearchInv, ResearchTypeOK
    <2> QED BY <2>1, <2>3
  <1> QED BY <1>1, <1>3, <1>4 DEF ResearchInv, ResearchTypeOK

\* One more trial of h has the next ordinal; the other hypotheses' trials stay.
LEMMA CountedOneMore ==
  ASSUME NEW s \in Seq(LedgerEntries), NEW e \in LedgerEntries, NEW g \in Hypotheses,
         CountedIn(s, g),
         e.hypothesis = g => e.ordinal = 1 + Cardinality(TrialsIn(s, g))
  PROVE  CountedIn(Append(s, e), g)
  <1> DEFINE t == Append(s, e)
             n == Len(s) + 1
             T == TrialsIn(s, g)
             U == TrialsIn(t, g)
             c == Cardinality(T)
  <1>1. Len(s) \in Nat /\ Len(t) = n /\ t[n] = e /\ (\A i \in 1..Len(s) : t[i] = s[i])
    OBVIOUS
  <1> HIDE DEF t
  <1>2. T \subseteq 1..Len(s) /\ n \notin T /\ \A i \in T : t[i] = s[i]
    BY <1>1 DEF TrialsIn
  <1>3. c \in Nat /\ IsFiniteSet(T) /\ {s[i].ordinal : i \in T} = 1..c
    BY FS_CardinalityType DEF CountedIn
  <1>4. CASE e.hypothesis = g
    <2>1. U = T \cup {n}
      BY <1>1, <1>4 DEF TrialsIn
    <2>2. IsFiniteSet(U) /\ Cardinality(U) = c + 1
      BY <1>2, <1>3, <2>1, FS_AddElement
    <2>3. {t[i].ordinal : i \in U} = {s[i].ordinal : i \in T} \cup {e.ordinal}
      <3> HIDE DEF T, U, n
      <3> QED BY <1>1, <1>2, <2>1
    <2>4. e.ordinal = c + 1
      BY <1>3, <1>4
    <2>5. 1..c \cup {c + 1} = 1..(c + 1)
      BY <1>3
    <2> HIDE DEF T, U, c
    <2>6. {t[i].ordinal : i \in U} = 1..Cardinality(U)
      BY <1>3, <2>2, <2>3, <2>4, <2>5
    <2> QED BY <2>2, <2>6 DEF CountedIn, U, t
  <1>5. CASE e.hypothesis # g
    <2>1. U = T
      BY <1>1, <1>5 DEF TrialsIn
    <2>2. {t[i].ordinal : i \in U} = {s[i].ordinal : i \in T}
      <3> HIDE DEF T, U
      <3> QED BY <1>2, <2>1
    <2> QED BY <1>3, <2>1, <2>2 DEF CountedIn, t
  <1> QED BY <1>4, <1>5

LEMMA AppendTrialInv ==
  ASSUME ResearchInv, NEW trial \in Trials, NEW h \in Hypotheses, NEW w \in Windows,
         NEW at \in ResearchTimes, NEW measure \in Measures,
         AppendTrial(trial, h, w, at, measure)
  PROVE  ResearchInv'
  <1> DEFINE o == 1 + Cardinality(TrialsOf(h))
             e == [trial |-> trial, hypothesis |-> h, intact |-> TRUE, windows |-> w, at |-> at,
                   measure |-> measure, ordinal |-> o, previous |-> LastHash,
                   hash |-> Len(entries) + 1]
  <1>0. entries \in Seq(LedgerEntries) /\ Len(entries) \in Nat /\ DOMAIN entries = 1..Len(entries)
    BY DEF ResearchInv, ResearchTypeOK
  <1>1. TrialsOf(h) = TrialsIn(entries, h)
    BY <1>0 DEF TrialsOf, TrialsIn
  <1>2. o = 1 + Cardinality(TrialsIn(entries, h)) /\ o \in Nat
    BY <1>1, FS_CardinalityType DEF ResearchInv, CountedIn
  <1>3. LastHash = Len(entries) /\ LastHash \in Nat
    <2>1. CASE entries = <<>>
      BY <2>1 DEF LastHash
    <2>2. CASE entries # <<>>
      <3>1. Len(entries) \in 1..Len(entries)
        BY <1>0, <2>2
      <3> QED BY <1>0, <2>2, <3>1 DEF LastHash, ResearchInv, LedgerInOrder, EntryInOrder
    <2> QED BY <2>1, <2>2
  <1>4. /\ registered[h] # NoHypothesis /\ at >= registered[h].at
        /\ measure = registered[h].measure /\ o <= registered[h].budget /\ PeriodsValid(w)
        /\ entries' = Append(entries, e) /\ UNCHANGED <<registered, metadata>>
    BY DEF AppendTrial
  <1> HIDE DEF o
  <1>5. e \in LedgerEntries /\ e.hypothesis = h /\ e.ordinal = o
        /\ EntryInOrder(e, Len(entries) + 1, registered[h])
    <2>1. Len(entries) + 1 \in Nat
      BY <1>0
    <2>2. e \in LedgerEntries
      BY <1>2, <1>3, <2>1 DEF LedgerEntries
    <2>3. e.previous = Len(entries) + 1 - 1
      BY <1>0, <1>3
    <2> QED BY <1>4, <2>2, <2>3 DEF EntryInOrder
  <1> HIDE DEF e
  <1>6. entries' \in Seq(LedgerEntries) /\ Len(entries') = Len(entries) + 1
        /\ entries'[Len(entries) + 1] = e /\ \A i \in 1..Len(entries) : entries'[i] = entries[i]
    BY <1>0, <1>4, <1>5
  <1>7. LedgerInOrder(entries', registered)
    <2> SUFFICES ASSUME NEW i \in 1..Len(entries')
                 PROVE  EntryInOrder(entries'[i], i, registered[entries'[i].hypothesis])
      BY DEF LedgerInOrder
    <2>1. CASE i \in 1..Len(entries)
      BY <1>6, <2>1 DEF ResearchInv, LedgerInOrder
    <2>2. CASE i = Len(entries) + 1
      BY <1>5, <1>6, <2>2
    <2> QED BY <1>0, <1>6, <2>1, <2>2
  <1>8. \A g \in Hypotheses : CountedIn(entries', g)
    BY <1>0, <1>2, <1>4, <1>5, CountedOneMore DEF ResearchInv
  <1> QED BY <1>4, <1>6, <1>7, <1>8 DEF ResearchInv, ResearchTypeOK

\* The caller's dict is no part of the order, of the chain or of the count.
LEMMA CallerChangesInv ==
  ASSUME ResearchInv, NEW k \in DOMAIN entries, NEW intact \in BOOLEAN, CallerChanges(k, intact)
  PROVE  ResearchInv'
  <1> DEFINE e == [entries[k] EXCEPT !.intact = intact]
  <1>0. entries \in Seq(LedgerEntries) /\ Len(entries) \in Nat /\ DOMAIN entries = 1..Len(entries)
        /\ entries[k] \in LedgerEntries
    BY DEF ResearchInv, ResearchTypeOK
  <1>1. entries' = [entries EXCEPT ![k] = e] /\ UNCHANGED <<registered, metadata>>
    BY DEF CallerChanges
  <1>2. /\ e \in LedgerEntries /\ e.hypothesis = entries[k].hypothesis
        /\ e.ordinal = entries[k].ordinal /\ e.hash = entries[k].hash
        /\ e.previous = entries[k].previous /\ e.at = entries[k].at
        /\ e.measure = entries[k].measure /\ e.windows = entries[k].windows
    BY <1>0 DEF LedgerEntries
  <1> HIDE DEF e
  <1>3. entries' \in Seq(LedgerEntries) /\ Len(entries') = Len(entries)
        /\ \A i \in 1..Len(entries) : entries'[i] = IF i = k THEN e ELSE entries[i]
    BY <1>0, <1>1, <1>2
  <1>4. LedgerInOrder(entries', registered)
    BY <1>0, <1>2, <1>3 DEF ResearchInv, LedgerInOrder, EntryInOrder
  <1>5. ASSUME NEW h \in Hypotheses PROVE CountedIn(entries', h)
    <2>1. TrialsIn(entries', h) = TrialsIn(entries, h)
      BY <1>2, <1>3 DEF TrialsIn
    <2>2. \A i \in TrialsIn(entries, h) : entries'[i].ordinal = entries[i].ordinal
      BY <1>2, <1>3 DEF TrialsIn
    <2>3. {entries'[i].ordinal : i \in TrialsIn(entries', h)}
            = {entries[i].ordinal : i \in TrialsIn(entries, h)}
      BY <2>1, <2>2
    <2> QED BY <2>1, <2>3 DEF ResearchInv, CountedIn
  <1> QED BY <1>1, <1>3, <1>4, <1>5 DEF ResearchInv, ResearchTypeOK

\* The new version goes between the older and the newer ones.
LEMMA RecordVersionInv ==
  ASSUME ResearchInv, NEW version \in MetaVersions, NEW at \in ResearchTimes,
         RecordVersion(version, at)
  PROVE  ResearchInv'
  <1> DEFINE row == [at |-> at, version |-> version]
  <1>0. metadata \in Seq(MetaRows) /\ Len(metadata) \in Nat /\ UNCHANGED <<registered, entries>>
    BY DEF ResearchInv, ResearchTypeOK, RecordVersion
  <1>1. CASE UNCHANGED metadata
    BY <1>0, <1>1 DEF ResearchInv, ResearchTypeOK
  <1>2. CASE ~UNCHANGED metadata
    <2>1. PICK n \in 0..Len(metadata) :
            /\ \A i \in 1..n : metadata[i].at < at
            /\ \A i \in (n + 1)..Len(metadata) : metadata[i].at > at
            /\ metadata' = SubSeq(metadata, 1, n) \o <<row>> \o SubSeq(metadata, n + 1, Len(metadata))
      BY <1>2 DEF RecordVersion
    <2>2. row \in MetaRows /\ row.at = at
      BY DEF MetaRows
    <2> HIDE DEF row
    <2> DEFINE A == SubSeq(metadata, 1, n)
               B == SubSeq(metadata, n + 1, Len(metadata))
               C == A \o <<row>>
               L == Len(metadata)
    <2>3. A \in Seq(MetaRows) /\ Len(A) = n /\ \A i \in 1..n : A[i] = metadata[i]
      BY <1>0
    <2>4. B \in Seq(MetaRows) /\ Len(B) = L - n /\ \A i \in 1..(L - n) : B[i] = metadata[n + i]
      BY <1>0
    <2> HIDE DEF A, B
    <2>5. C \in Seq(MetaRows) /\ Len(C) = n + 1 /\ C[n + 1] = row /\ \A i \in 1..n : C[i] = metadata[i]
      BY <2>2, <2>3
    <2> HIDE DEF C
    <2>6. metadata' = C \o B
      BY <2>1 DEF A, B, C
    <2>7. metadata' \in Seq(MetaRows) /\ Len(metadata') = L + 1
          /\ (\A i \in 1..(n + 1) : metadata'[i] = C[i])
          /\ (\A i \in (n + 2)..(L + 1) : metadata'[i] = B[i - (n + 1)])
      <3> DEFINE M == C \o B
      <3>1. M \in Seq(MetaRows) /\ Len(M) = Len(C) + Len(B)
            /\ (\A i \in 1..Len(C) : M[i] = C[i])
            /\ (\A i \in Len(C)+1..Len(C)+Len(B) : M[i] = B[i - Len(C)])
        <4>1. C \in Seq(MetaRows) /\ B \in Seq(MetaRows)
          BY <2>4, <2>5
        <4> HIDE DEF L
        <4> QED BY <4>1
      <3>2. Len(C) + Len(B) = L + 1 /\ Len(C) + 1 = n + 2
        BY <1>0, <2>4, <2>5
      <3> HIDE DEF M
      <3>3. (\A i \in 1..(n + 1) : M[i] = C[i]) /\ (\A i \in (n + 2)..(L + 1) : M[i] = B[i - (n + 1)])
        BY <2>5, <3>1, <3>2
      <3> QED BY <2>6, <3>1, <3>2, <3>3 DEF M
    <2>8. (\A i \in 1..n : metadata'[i] = metadata[i]) /\ metadata'[n + 1] = row
          /\ (\A i \in (n + 2)..(L + 1) : metadata'[i] = metadata[i - 1])
      <3>1. \A i \in 1..n : metadata'[i] = metadata[i]
        BY <2>5, <2>7
      <3>2. metadata'[n + 1] = row
        BY <2>5, <2>7
      <3>3. ASSUME NEW i \in (n + 2)..(L + 1) PROVE metadata'[i] = metadata[i - 1]
        <4>1. i - (n + 1) \in 1..(L - n) /\ n + (i - (n + 1)) = i - 1
          BY <1>0
        <4> QED BY <2>4, <2>7, <4>1
      <3> QED BY <3>1, <3>2, <3>3
    <2>9. ASSUME NEW k \in 1..L PROVE metadata[k].at \in Nat
      <3>1. metadata[k] \in MetaRows
        BY <1>0
      <3>2. metadata[k].at \in ResearchTimes
        BY <3>1 DEF MetaRows
      <3> QED BY <3>2, ResearchAssumption
    <2>10. at \in Nat
      BY ResearchAssumption
    <2>11. SortedByTime(metadata')
      <3> SUFFICES ASSUME NEW i \in 1..(L + 1), NEW j \in i+1..(L + 1)
                   PROVE  metadata'[i].at < metadata'[j].at
        BY <2>7 DEF SortedByTime
      <3>0. \A a \in 1..L : \A b \in a+1..L : metadata[a].at < metadata[b].at
        BY DEF ResearchInv, SortedByTime
      <3>1. CASE i \in 1..n /\ j \in 1..n
        <4>1. i \in 1..L /\ j \in i+1..L
          BY <1>0, <3>1
        <4> QED BY <2>8, <3>0, <3>1, <4>1
      <3>2. CASE i \in 1..n /\ j = n + 1
        BY <2>1, <2>2, <2>8, <3>2
      <3>3. CASE i \in 1..n /\ j \in (n + 2)..(L + 1)
        <4>1. i \in 1..L /\ j - 1 \in i+1..L
          BY <1>0, <3>3
        <4> QED BY <2>8, <3>0, <3>3, <4>1
      <3>4. CASE i = n + 1 /\ j \in (n + 2)..(L + 1)
        <4>1. j - 1 \in (n + 1)..L
          BY <1>0, <3>4
        <4>2. metadata[j - 1].at > at /\ metadata'[j] = metadata[j - 1] /\ metadata'[i] = row
          BY <2>1, <2>8, <3>4, <4>1
        <4>3. metadata[j - 1].at \in Nat
          BY <1>0, <2>9, <4>1
        <4> QED BY <2>2, <2>10, <4>2, <4>3
      <3>5. CASE i \in (n + 2)..(L + 1) /\ j \in (n + 2)..(L + 1)
        <4>1. i - 1 \in 1..L /\ j - 1 \in (i - 1)+1..L
          BY <1>0, <3>5
        <4> QED BY <2>8, <3>0, <3>5, <4>1
      <3> QED BY <1>0, <3>1, <3>2, <3>3, <3>4, <3>5
    <2> QED BY <1>0, <2>7, <2>11 DEF ResearchInv, ResearchTypeOK
  <1> QED BY <1>1, <1>2

\* The last of the eligible versions exists.
LEMMA GreatestIndex ==
  ASSUME NEW n \in Nat, NEW E, E \subseteq 1..n, E # {}
  PROVE  \E i \in E : \A j \in E : j <= i
  <1> DEFINE T == {x \in 0..n : n - x \in E}
  <1>1. T \subseteq Nat /\ T # {}
    <2>1. PICK i \in E : TRUE
      OBVIOUS
    <2>2. i \in 1..n
      BY <2>1
    <2>3. n - i \in 0..n /\ n - (n - i) = i
      BY <2>2
    <2>4. n - i \in T
      BY <2>1, <2>3
    <2>5. T \subseteq Nat
      OBVIOUS
    <2> QED BY <2>4, <2>5
  <1>2. PICK x \in T : \A y \in T : x <= y
    <2> HIDE DEF T
    <2> QED BY <1>1, LeastElement
  <1>3. x \in 0..n /\ n - x \in E
    OBVIOUS
  <1>4. ASSUME NEW j \in E PROVE j <= n - x
    <2>1. j \in 1..n /\ n - j \in 0..n /\ n - (n - j) = j
      OBVIOUS
    <2>2. x <= n - j
      BY <1>2, <2>1
    <2> QED BY <1>3, <2>1, <2>2
  <1> QED BY <1>3, <1>4

LEMMA ResearchInvHonest == ResearchInv => ResearchIsHonest
  <1> SUFFICES ASSUME ResearchInv PROVE ResearchIsHonest
    OBVIOUS
  <1>0. /\ DOMAIN entries = 1..Len(entries) /\ DOMAIN metadata = 1..Len(metadata)
        /\ Len(entries) \in Nat /\ Len(metadata) \in Nat
        /\ (\A i \in 1..Len(entries) : entries[i] \in LedgerEntries)
        /\ (\A i \in 1..Len(metadata) : metadata[i] \in MetaRows)
        /\ \A i \in 1..Len(entries) : EntryInOrder(entries[i], i, registered[entries[i].hypothesis])
    BY DEF ResearchInv, ResearchTypeOK, LedgerInOrder
  <1>1. SearchIsCounted
    <2> SUFFICES ASSUME NEW h \in Hypotheses
                 PROVE  /\ \A i \in TrialsOf(h) : registered[h] # NoHypothesis
                                                   /\ entries[i].ordinal <= registered[h].budget
                        /\ {entries[i].ordinal : i \in TrialsOf(h)} = 1..Cardinality(TrialsOf(h))
      BY DEF SearchIsCounted
    <2>1. TrialsOf(h) = TrialsIn(entries, h)
      BY <1>0 DEF TrialsOf, TrialsIn
    <2>2. \A i \in TrialsOf(h) :
            registered[h] # NoHypothesis /\ entries[i].ordinal <= registered[h].budget
      BY <1>0 DEF TrialsOf, EntryInOrder
    <2> QED BY <2>1, <2>2 DEF ResearchInv, CountedIn
  <1>2. NothingIsChosenAfterwards
    <2> SUFFICES ASSUME NEW i \in 1..Len(entries)
                 PROVE  LET h == registered[entries[i].hypothesis]  w == entries[i].windows IN
                        /\ entries[i].at >= h.at /\ entries[i].measure = h.measure
                        /\ w.train[2] < w.test[2] /\ w.train[2] <= w.test[1]
      BY <1>0 DEF NothingIsChosenAfterwards
    <2> DEFINE w == entries[i].windows
    <2>1. EntryInOrder(entries[i], i, registered[entries[i].hypothesis]) /\ w \in Windows
      BY <1>0 DEF LedgerEntries
    <2>2. w.train \in Nat \X Nat /\ w.validation \in Nat \X Nat /\ w.test \in Nat \X Nat
      BY <2>1, ResearchAssumption
    <2>3. PeriodsValid(w)
      BY <2>1 DEF EntryInOrder
    <2> HIDE DEF w
    <2>4. w.train[2] <= w.validation[1] /\ w.validation[2] <= w.test[1]
          /\ w.validation[1] < w.validation[2] /\ w.test[1] < w.test[2]
      BY <2>3 DEF PeriodsValid
    <2>5. w.train[2] \in Nat /\ w.validation[1] \in Nat /\ w.validation[2] \in Nat
          /\ w.test[1] \in Nat /\ w.test[2] \in Nat
      BY <2>2
    <2>6. w.train[2] < w.test[2] /\ w.train[2] <= w.test[1]
      BY <2>4, <2>5
    <2> QED BY <2>1, <2>6 DEF EntryInOrder, w
  <1>3. TamperingShows
    <2>1. ASSUME NEW i \in 1..Len(entries)
          PROVE  entries[i].previous = IF i = 1 THEN 0 ELSE entries[i - 1].hash
      <3>1. entries[i].previous = i - 1
        BY <1>0 DEF EntryInOrder
      <3>2. CASE i = 1
        BY <3>1, <3>2
      <3>3. CASE i # 1
        <4>1. i - 1 \in 1..Len(entries)
          BY <1>0, <3>3
        <4> QED BY <1>0, <3>1, <3>3, <4>1 DEF EntryInOrder
      <3> QED BY <3>2, <3>3
    <2> QED BY <1>0, <2>1 DEF TamperingShows, VerifyIntegrity
  <1>4. AnswersArePointInTime
    <2> SUFFICES ASSUME NEW asOf \in ResearchTimes, Eligible(asOf) # {},
                        NEW i \in 1..Len(metadata), metadata[i].at <= asOf
                 PROVE  metadata[i].at < VersionAt(asOf).at \/ metadata[i] = VersionAt(asOf)
      BY <1>0 DEF AnswersArePointInTime
    <2> DEFINE E == Eligible(asOf)
               c == CHOOSE k \in E : \A j \in E : j <= k
    <2>1. E \subseteq 1..Len(metadata) /\ i \in E
      BY <1>0 DEF Eligible
    <2>2. c \in E /\ \A j \in E : j <= c
      <3> HIDE DEF E
      <3>1. \E k \in E : \A j \in E : j <= k
        BY <1>0, <2>1, GreatestIndex
      <3> QED BY <3>1
    <2>3. VersionAt(asOf) = metadata[c]
      BY DEF VersionAt
    <2> HIDE DEF E, c
    <2>4. c \in 1..Len(metadata) /\ i <= c
      BY <2>1, <2>2
    <2>5. CASE i = c
      BY <2>3, <2>5
    <2>6. CASE i # c
      <3>1. c \in i+1..Len(metadata)
        BY <1>0, <2>4, <2>6
      <3> QED BY <2>3, <3>1 DEF ResearchInv, SortedByTime
    <2> QED BY <2>5, <2>6
  <1> QED BY <1>1, <1>2, <1>3, <1>4 DEF ResearchIsHonest

\* research/registry.py and universe/manager.py: for any hypotheses, budgets, times and
\* order of calls, trials are counted without a gap against what was registered first, a
\* changed entry shows, and a question about the past gets the version of that time.
THEOREM ResearchStaysHonest == ResearchSpec => []ResearchIsHonest
<1>1. ResearchInv /\ [ResearchNext]_researchVars => ResearchInv'
  <2> SUFFICES ASSUME ResearchInv, [ResearchNext]_researchVars PROVE ResearchInv'
    OBVIOUS
  <2>1. CASE UNCHANGED researchVars
    BY <2>1 DEF researchVars, ResearchInv, ResearchTypeOK
  <2>2. CASE ResearchNext
    BY <2>2, RegisterInv, AppendTrialInv, CallerChangesInv, RecordVersionInv DEF ResearchNext
  <2> QED BY <2>1, <2>2
<1> QED BY <1>1, ResearchInitInv, ResearchInvHonest, PTL DEF ResearchSpec

-----------------------------------------------------------------------------
(* AuditChain: on PostgreSQL the newest hash a writer has read stays the      *)
(* newest until it commits; a digest is longer than what it was computed      *)
(* from, so no row has the hash of the one before it.                        *)

Hashes == Seq(Entries \X Nat)
AuditRows == [id : Nat, prev : Hashes, entry : Entries, at : Nat, hash : Hashes]
StampedJobs == [pc : {"stamped"}, entry : Entries, at : Nat]
LinkedJobs == [pc : {"linked"}, entry : Entries, at : Nat, prev : Hashes]
AuditJobs == {Idle} \cup StampedJobs \cup LinkedJobs

AuditRowsOK(rows) ==
  /\ rows \subseteq AuditRows
  /\ \A r, s \in rows : r.id = s.id => r = s

\* Every row's digest is that of its fields.
DigestsOK(rows) == \A r \in rows : r.hash = Digest(r.prev, r.entry, r.at)

HasLatest(rows) == rows = {} \/ \E r \in rows : \A s \in rows \ {r} : Before(s, r)

AuditInv ==
  /\ AuditRowsOK(log) /\ DigestsOK(log) /\ HasLatest(log) /\ clock \in Nat
  /\ writer \in [Writers -> AuditJobs]
  /\ Postgres => \A w \in Writers :
       writer[w].pc = "linked" => lock = w /\ writer[w].prev = Newest(log)
  /\ OrderedAppendsVerify

LEMMA JobKinds ==
  /\ Idle \in AuditJobs /\ Idle.pc = "idle"
  /\ \A j \in AuditJobs : j.pc = "stamped" => j \in StampedJobs
  /\ \A j \in AuditJobs : j.pc = "linked" => j \in LinkedJobs
  BY DEF Idle, AuditJobs, StampedJobs, LinkedJobs

LEMMA DigestIsNew ==
  ASSUME NEW p \in Hashes, NEW e \in Entries, NEW t \in Nat
  PROVE  Digest(p, e, t) \in Hashes /\ Digest(p, e, t) # p /\ Digest(p, e, t) # Genesis
         /\ \A f \in Entries : Digest(p, f, t) = Digest(p, e, t) => f = e
  <1>1. \A f \in Entries : <<f, t>> \in Entries \X Nat
    OBVIOUS
  <1>2. \A x \in Entries \X Nat : /\ Append(p, x) \in Hashes
                                  /\ Len(Append(p, x)) = Len(p) + 1
                                  /\ Append(p, x)[Len(p) + 1] = x
    BY DEF Hashes
  <1>3. Len(p) \in Nat /\ Len(Genesis) = 0
    BY DEF Hashes, Genesis
  <1>4. Digest(p, e, t) # p /\ Digest(p, e, t) # Genesis
    BY <1>1, <1>2, <1>3 DEF Digest
  <1>5. ASSUME NEW f \in Entries, Digest(p, f, t) = Digest(p, e, t) PROVE f = e
    <2>1. <<f, t>> = <<e, t>>
      BY <1>1, <1>2, <1>5 DEF Digest
    <2> QED BY <2>1
  <1> QED BY <1>1, <1>2, <1>4, <1>5 DEF Digest

\* The sort order is a total order on rows with different ids.
LEMMA BeforeIsOrder ==
  ASSUME NEW r \in AuditRows, NEW s \in AuditRows
  PROVE  /\ ~(Before(r, s) /\ Before(s, r)) /\ ~Before(r, r)
         /\ (r.id # s.id => Before(r, s) \/ Before(s, r))
         /\ \A t \in AuditRows : Before(r, s) /\ Before(s, t) => Before(r, t)
  <1>1. \A x \in AuditRows : x.at \in Nat /\ x.id \in Nat
    BY DEF AuditRows
  <1> QED BY <1>1 DEF Before

LEMMA LatestIsUnique ==
  ASSUME NEW rows, rows \subseteq AuditRows, NEW r \in rows,
         \A s \in rows \ {r} : Before(s, r)
  PROVE  LatestRow(rows) = r
  <1>1. LatestRow(rows) \in rows /\ \A s \in rows \ {LatestRow(rows)} : Before(s, LatestRow(rows))
    BY DEF LatestRow
  <1> QED BY <1>1, BeforeIsOrder

\* A digest verifies only with the entry it was computed over.
LEMMA ChangedEntryShows ==
  ASSUME NEW rows, AuditRowsOK(rows), Verify(rows), NEW r \in rows, NEW entry \in Entries \ {r.entry}
  PROVE  ~Verify((rows \ {r}) \cup {[r EXCEPT !.entry = entry]})
  <1> DEFINE x == [r EXCEPT !.entry = entry]
  <1>1. r \in AuditRows /\ r.hash = Digest(r.prev, r.entry, r.at)
        /\ r.prev \in Hashes /\ r.entry \in Entries /\ r.at \in Nat
    BY DEF AuditRowsOK, AuditRows, Verify, RowVerifies
  <1>2. x.hash = r.hash /\ x.prev = r.prev /\ x.at = r.at /\ x.entry = entry
    BY <1>1 DEF AuditRows
  <1> HIDE DEF x
  <1>3. SUFFICES ASSUME Verify((rows \ {r}) \cup {x}) PROVE FALSE
    BY DEF x
  <1>4. x.hash = Digest(x.prev, x.entry, x.at)
    BY <1>3 DEF Verify, RowVerifies
  <1>5. Digest(r.prev, entry, r.at) = Digest(r.prev, r.entry, r.at)
    BY <1>1, <1>2, <1>4
  <1>6. \A f \in Entries : Digest(r.prev, f, r.at) = Digest(r.prev, r.entry, r.at) => f = r.entry
    BY <1>1, DigestIsNew
  <1> QED BY <1>5, <1>6

\* The first of the rows behind r.
LEMMA NextRow ==
  ASSUME NEW rows, AuditRowsOK(rows), NEW r \in rows, NEW s \in rows, Before(r, s)
  PROVE  \E n \in rows : Before(r, n) /\ \A t \in rows : Before(r, t) => t = n \/ Before(n, t)
  <1> DEFINE After == {t \in rows : Before(r, t)}
             times == {t.at : t \in After}
  <1>1. s \in After /\ After \subseteq rows /\ After \subseteq AuditRows
    BY DEF AuditRowsOK
  <1>2. times \subseteq Nat /\ times # {}
    BY <1>1 DEF AuditRows
  <1>3. PICK a \in times : \A y \in times : a <= y
    <2> HIDE DEF times
    <2> QED BY <1>2, LeastElement
  <1> DEFINE First == {t \in After : t.at = a}
             ids == {t.id : t \in First}
  <1>4. ids \subseteq Nat /\ ids # {}
    BY <1>1 DEF AuditRows
  <1>5. PICK i \in ids : \A y \in ids : i <= y
    <2> HIDE DEF ids
    <2> QED BY <1>4, LeastElement
  <1>6. PICK n \in First : n.id = i
    OBVIOUS
  <1>7. n \in rows /\ Before(r, n) /\ n.at = a /\ n \in AuditRows
    BY <1>1, <1>6
  <1>8. ASSUME NEW t \in rows, Before(r, t) PROVE t = n \/ Before(n, t)
    <2>1. t \in After /\ t \in AuditRows /\ a <= t.at
      BY <1>1, <1>3, <1>8
    <2>2. t.at \in Nat /\ t.id \in Nat /\ n.at \in Nat /\ n.id \in Nat
      BY <1>7, <2>1 DEF AuditRows
    <2>3. CASE t.at = a
      <3>1. n.id <= t.id
        BY <1>5, <1>6, <2>1, <2>3
      <3>2. t.id = n.id => t = n
        BY <1>7 DEF AuditRowsOK
      <3> QED BY <1>7, <2>2, <2>3, <3>1, <3>2 DEF Before
    <2>4. CASE t.at # a
      BY <1>7, <2>1, <2>2, <2>4 DEF Before
    <2> QED BY <2>3, <2>4
  <1> QED BY <1>7, <1>8

\* Without r the row behind it would have to carry r's prev instead of r's hash.
LEMMA RemovedRowShows ==
  ASSUME NEW rows, AuditRowsOK(rows), Verify(rows), NEW r \in rows, \E s \in rows : Before(r, s)
  PROVE  ~Verify(rows \ {r})
  <1>1. PICK n \in rows : Before(r, n) /\ \A t \in rows : Before(r, t) => t = n \/ Before(n, t)
    BY NextRow
  <1>2. rows \subseteq AuditRows /\ r \in AuditRows /\ n \in AuditRows /\ n # r
    BY <1>1, BeforeIsOrder DEF AuditRowsOK
  <1> DEFINE P == {s \in rows : Before(s, r)}
             Q == {s \in rows : Before(s, n)}
             R == {s \in rows \ {r} : Before(s, n)}
  <1>3. ASSUME NEW s \in rows, s # r PROVE Before(s, n) <=> Before(s, r)
    <2>1. s \in AuditRows /\ s.id # r.id
      BY <1>2, <1>3 DEF AuditRowsOK
    <2>2. Before(s, r) \/ Before(r, s)
      BY <1>2, <2>1, BeforeIsOrder
    <2>3. CASE Before(s, r)
      BY <1>1, <1>2, <2>1, <2>3, BeforeIsOrder
    <2>4. CASE Before(r, s)
      BY <1>1, <1>2, <2>1, <2>4, BeforeIsOrder
    <2> QED BY <2>2, <2>3, <2>4
  <1>4. R = P /\ Q = P \cup {r} /\ r \in Q
    BY <1>1, <1>2, <1>3, BeforeIsOrder
  <1>5. LatestRow(Q) = r
    <2>1. Q \subseteq AuditRows /\ r \in Q /\ \A s \in Q \ {r} : Before(s, r)
      BY <1>2, <1>4
    <2> HIDE DEF Q
    <2> QED BY <2>1, LatestIsUnique
  <1>6. n.prev = r.hash
    BY <1>4, <1>5 DEF Verify, RowVerifies, PrevIn
  <1>7. PrevIn(rows, r) = r.prev /\ r.hash = Digest(r.prev, r.entry, r.at)
    BY DEF Verify, RowVerifies
  <1>8. PrevIn(rows \ {r}, n) = PrevIn(rows, r)
    <2>1. PrevIn(rows \ {r}, n) = (IF R = {} THEN Genesis ELSE LatestRow(R).hash)
      BY DEF PrevIn
    <2>2. PrevIn(rows, r) = (IF P = {} THEN Genesis ELSE LatestRow(P).hash)
      BY DEF PrevIn
    <2> QED BY <1>4, <2>1, <2>2
  <1>9. r.hash # r.prev
    BY <1>2, <1>7, DigestIsNew DEF AuditRows
  <1>10. SUFFICES ASSUME Verify(rows \ {r}) PROVE FALSE
    OBVIOUS
  <1>11. n.prev = PrevIn(rows \ {r}, n)
    BY <1>2, <1>10 DEF Verify, RowVerifies
  <1> QED BY <1>6, <1>7, <1>8, <1>9, <1>11

\* A row behind all the others, linked to the newest of them, keeps the chain.
LEMMA VerifiedOneMore ==
  ASSUME NEW rows, rows \subseteq AuditRows, Verify(rows), NEW x \in AuditRows,
         \A r \in rows : r.at < x.at,
         x.prev = Newest(rows), x.hash = Digest(x.prev, x.entry, x.at)
  PROVE  Verify(rows \cup {x})
  <1> DEFINE all == rows \cup {x}
  <1>0. \A y \in AuditRows : y.at \in Nat
    BY DEF AuditRows
  <1>1. (\A r \in rows : Before(r, x) /\ ~Before(x, r)) /\ ~Before(x, x)
    BY <1>0, BeforeIsOrder DEF Before
  <1>2. {s \in all : Before(s, x)} = rows
    BY <1>1
  <1>3. RowVerifies(all, x)
    <2>1. PrevIn(all, x) = Newest(rows)
      BY <1>2 DEF PrevIn, Newest
    <2> QED BY <2>1 DEF RowVerifies
  <1>4. ASSUME NEW r \in rows PROVE RowVerifies(all, r)
    <2>1. {s \in all : Before(s, r)} = {s \in rows : Before(s, r)}
      BY <1>1
    <2>2. PrevIn(all, r) = PrevIn(rows, r)
      BY <2>1 DEF PrevIn
    <2> QED BY <2>2 DEF Verify, RowVerifies
  <1> QED BY <1>3, <1>4 DEF Verify

LEMMA NewestIsHash ==
  ASSUME NEW rows, AuditRowsOK(rows), HasLatest(rows) PROVE Newest(rows) \in Hashes
  <1>1. CASE rows = {}
    BY <1>1 DEF Newest, Genesis, Hashes
  <1>2. CASE rows # {}
    <2>1. LatestRow(rows) \in rows
      BY <1>2 DEF HasLatest, LatestRow
    <2>2. LatestRow(rows) \in AuditRows
      BY <2>1 DEF AuditRowsOK
    <2>3. LatestRow(rows).hash \in Hashes
      BY <2>2 DEF AuditRows
    <2> QED BY <1>2, <2>3 DEF Newest
  <1> QED BY <1>1, <1>2

LEMMA LatestOneMore ==
  ASSUME NEW rows, rows \subseteq AuditRows, HasLatest(rows), NEW x \in AuditRows,
         \A r \in rows : r.id # x.id
  PROVE  HasLatest(rows \cup {x})
  <1>1. CASE rows = {}
    BY <1>1 DEF HasLatest
  <1>2. CASE rows # {}
    <2>1. PICK w \in rows : \A s \in rows \ {w} : Before(s, w)
      BY <1>2 DEF HasLatest
    <2>2. w \in AuditRows /\ (Before(w, x) \/ Before(x, w))
      BY BeforeIsOrder
    <2>3. CASE Before(w, x)
      <3>1. \A s \in rows : Before(s, x)
        BY <2>1, <2>2, <2>3, BeforeIsOrder
      <3> QED BY <3>1 DEF HasLatest
    <2>4. CASE Before(x, w)
      BY <2>1, <2>4 DEF HasLatest
    <2> QED BY <2>2, <2>3, <2>4
  <1> QED BY <1>1, <1>2

LEMMA AuditInitInv == AuditInit => AuditInv
  <1> SUFFICES ASSUME AuditInit PROVE AuditInv
    OBVIOUS
  <1>1. log = {} /\ clock \in Nat /\ \A w \in Writers : writer[w] = Idle
    BY DEF AuditInit
  <1>2. writer \in [Writers -> AuditJobs]
    BY JobKinds DEF AuditInit
  <1>3. AuditRowsOK(log) /\ DigestsOK(log) /\ HasLatest(log) /\ Verify(log)
    BY <1>1 DEF AuditRowsOK, DigestsOK, HasLatest, Verify
  <1> QED BY <1>1, <1>2, <1>3, JobKinds DEF AuditInv, OrderedAppendsVerify

\* A step that leaves the log alone and gives w another job.
LEMMA JobStep ==
  ASSUME AuditInv, NEW w \in Writers, NEW j \in AuditJobs, writer' = [writer EXCEPT ![w] = j],
         UNCHANGED <<log, clock, inOrder>>,
         Postgres => /\ j.pc = "linked" => lock' = w /\ j.prev = Newest(log)
                     /\ \A q \in Writers \ {w} : lock = q => lock' = q
  PROVE  AuditInv'
  <1>1. writer' \in [Writers -> AuditJobs]
        /\ \A q \in Writers : writer'[q] = IF q = w THEN j ELSE writer[q]
    BY DEF AuditInv
  <1>2. Postgres => \A q \in Writers :
          writer'[q].pc = "linked" => lock' = q /\ writer'[q].prev = Newest(log)
    BY <1>1 DEF AuditInv
  <1> QED BY <1>1, <1>2 DEF AuditInv, OrderedAppendsVerify

LEMMA AuditStepInv ==
  ASSUME AuditInv, NEW w \in Writers,
         (\E entry \in Entries : Stamp(w, entry)) \/ Link(w) \/ AppendFails(w)
  PROVE  AuditInv'
  <1>1. ASSUME NEW entry \in Entries, Stamp(w, entry) PROVE AuditInv'
    <2> DEFINE j == [pc |-> "stamped", entry |-> entry, at |-> clock]
    <2>1. writer' = [writer EXCEPT ![w] = j] /\ UNCHANGED <<log, clock, lock, inOrder>>
      BY <1>1 DEF Stamp
    <2>2. j \in AuditJobs /\ j.pc = "stamped"
      BY DEF AuditJobs, StampedJobs, AuditInv
    <2> HIDE DEF j
    <2> QED BY <2>1, <2>2, JobStep
  <1>2. CASE Link(w)
    <2> DEFINE j == [pc |-> "linked", entry |-> writer[w].entry, at |-> writer[w].at,
                     prev |-> Newest(log)]
    <2>1. /\ writer' = [writer EXCEPT ![w] = j] /\ UNCHANGED <<log, clock, inOrder>>
          /\ writer[w].pc = "stamped" /\ (Postgres => lock = NoWriter /\ lock' = w)
      BY <1>2 DEF Link
    <2>2. writer[w] \in StampedJobs
      BY <2>1, JobKinds DEF AuditInv
    <2>3. writer[w].entry \in Entries /\ writer[w].at \in Nat /\ Newest(log) \in Hashes
      BY <2>2, NewestIsHash DEF StampedJobs, AuditInv
    <2>4. j \in AuditJobs /\ j.prev = Newest(log)
      BY <2>3 DEF AuditJobs, LinkedJobs
    <2> HIDE DEF j
    <2> QED BY <2>1, <2>4, JobStep, AuditAssumption
  <1>3. CASE AppendFails(w)
    <2>1. writer' = [writer EXCEPT ![w] = Idle] /\ UNCHANGED <<log, clock, inOrder>>
          /\ lock' = IF lock = w THEN NoWriter ELSE lock
      BY <1>3 DEF AppendFails, Unlock
    <2> QED BY <2>1, JobKinds, JobStep
  <1> QED BY <1>1, <1>2, <1>3

\* The commit: under the lock the row is linked to the row that is newest now.
LEMMA AppendRowInv ==
  ASSUME AuditInv, NEW w \in Writers, NEW id \in Ids, AppendRow(w, id) PROVE AuditInv'
  <1> DEFINE j == writer[w]
             h == Digest(j.prev, j.entry, j.at)
             x == [id |-> id, prev |-> j.prev, entry |-> j.entry, at |-> j.at, hash |-> h]
  <1>1. /\ j.pc = "linked" /\ (\A r \in log : r.id # id) /\ log' = log \cup {x}
        /\ inOrder' = (inOrder /\ \A r \in log : r.at < j.at)
        /\ writer' = [writer EXCEPT ![w] = Idle] /\ UNCHANGED clock
    BY DEF AppendRow
  <1>2. j \in LinkedJobs
    BY <1>1, JobKinds DEF AuditInv
  <1>3. j.entry \in Entries /\ j.at \in Nat /\ j.prev \in Hashes /\ id \in Nat /\ h \in Hashes
    <2>1. j.entry \in Entries /\ j.at \in Nat /\ j.prev \in Hashes
      BY <1>2 DEF LinkedJobs
    <2> HIDE DEF j
    <2> QED BY <2>1, DigestIsNew, AuditAssumption
  <1> HIDE DEF h
  <1>4. x \in AuditRows /\ x.id = id /\ x.prev = j.prev /\ x.entry = j.entry /\ x.at = j.at
        /\ x.hash = Digest(x.prev, x.entry, x.at)
    <2> HIDE DEF j
    <2> QED BY <1>3 DEF AuditRows, h
  <1> HIDE DEF x
  <1>5. log \subseteq AuditRows /\ AuditRowsOK(log) /\ DigestsOK(log) /\ HasLatest(log)
    BY DEF AuditInv, AuditRowsOK
  <1>6. AuditRowsOK(log') /\ DigestsOK(log')
    BY <1>1, <1>4, <1>5 DEF AuditRowsOK, DigestsOK
  <1>7. HasLatest(log')
    BY <1>1, <1>4, <1>5, LatestOneMore
  <1>8. writer' \in [Writers -> AuditJobs]
        /\ \A q \in Writers : writer'[q] = IF q = w THEN Idle ELSE writer[q]
    BY <1>1, JobKinds DEF AuditInv
  <1>9. Postgres => /\ x.prev = Newest(log)
                    /\ \A q \in Writers : writer'[q].pc # "linked"
    BY <1>1, <1>4, <1>8, JobKinds DEF AuditInv
  <1>10. OrderedAppendsVerify'
    <2> SUFFICES ASSUME inOrder', Postgres PROVE Verify(log')
      BY DEF OrderedAppendsVerify
    <2>1. inOrder /\ \A r \in log : r.at < x.at
      BY <1>1, <1>4
    <2>2. Verify(log) /\ x.prev = Newest(log)
      BY <1>9, <2>1 DEF AuditInv, OrderedAppendsVerify
    <2> QED BY <1>1, <1>4, <1>5, <2>1, <2>2, VerifiedOneMore
  <1> QED BY <1>1, <1>6, <1>7, <1>8, <1>9, <1>10 DEF AuditInv

\* DatabaseAuditStore: for any writers, entries, ids and failures, rows committed in the
\* order of their timestamps verify, and a changed entry or a removed row that is not the
\* newest makes a log that verified fail to.
THEOREM AuditLogStaysSound == AuditSpec => []AuditLogIsSound
<1>1. AuditInv /\ [AuditNext]_auditVars => AuditInv'
  <2> SUFFICES ASSUME AuditInv, [AuditNext]_auditVars PROVE AuditInv'
    OBVIOUS
  <2>1. CASE UNCHANGED auditVars
    BY <2>1 DEF auditVars, AuditInv, OrderedAppendsVerify
  <2>2. CASE Tick
    <3>1. clock' \in Nat /\ UNCHANGED <<log, writer, lock, inOrder>>
      BY <2>2 DEF Tick, AuditInv
    <3> QED BY <3>1 DEF AuditInv, OrderedAppendsVerify
  <2>3. CASE \E w \in Writers : \/ \E entry \in Entries : Stamp(w, entry)
                                \/ Link(w) \/ AppendFails(w)
    BY <2>3, AuditStepInv
  <2>4. CASE \E w \in Writers, id \in Ids : AppendRow(w, id)
    BY <2>4, AppendRowInv
  <2> QED BY <2>1, <2>2, <2>3, <2>4 DEF AuditNext
<1>2. AuditInv => AuditLogIsSound
  <2> SUFFICES ASSUME AuditInv PROVE OrderedAppendsVerify /\ TamperEvident
    BY DEF AuditLogIsSound
  <2>1. AuditRowsOK(log)
    BY DEF AuditInv
  <2>2. TamperEvident
    BY <2>1, ChangedEntryShows, RemovedRowShows DEF TamperEvident
  <2> QED BY <2>2 DEF AuditInv
<1> QED BY <1>1, <1>2, AuditInitInv, PTL DEF AuditSpec
=============================================================================
