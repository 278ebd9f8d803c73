---------------------------- MODULE TestVPNTunnel ----------------------------
(***************************************************************************)
(* The tests of a tunnel that has come up: pings with growing time limits,  *)
(* one after the other, until one is answered. The engine starts them, and  *)
(* starts them again for a rotated address, and stops them when the session *)
(* ends or reconnects (.../engine/testvpntunnel.cpp).                       *)
(***************************************************************************)
EXTENDS Naturals, Sequences

CONSTANTS
    Tests,          \* timeouts_.size()
    MaxPauses,      \* bound on the pauses within one time limit
    MaxStarts       \* bound on the calls of startTests()

ASSUME TestsAssumption ==
    Tests \in Nat \ {0} /\ MaxPauses \in Nat /\ MaxStarts \in Nat

VARIABLE tt

\* ExtraConfig's parameters: a retry delay, time limit or number of tests; a
\* delay of the start; no tests at all.
Configs == [custom : BOOLEAN, delayed : BOOLEAN, skipped : BOOLEAN]
Default == [custom |-> FALSE, delayed |-> FALSE, skipped |-> FALSE]

\* The event loop's queue: did the ping succeed?
Replies == Seq(BOOLEAN)

TtType ==
    [config : Configs,
     running : BOOLEAN,         \* bRunning_
     curTest : 1..Tests,        \* curTest_
     pauses : 0..MaxPauses,     \* since elapsed_ was started
     request : Nat,             \* curRequest_, 0 for none
     pings : SUBSET Nat,        \* the requests that wsnet works on
     answers : Replies,         \* queued calls of onPingTestAnswer()
     timers : Nat,              \* single shots of doNextPingTest()
     delays : Nat,              \* single shots of startTestImpl()
     skips : Nat,               \* single shots of onTestsSkipped()
     issued : Nat,
     starts : 0..MaxStarts,
     wanted : BOOLEAN,          \* history: started, and not stopped since
     told : 0..2]               \* history: results since then

TtInit ==
    \E config \in Configs :
        tt = [config |-> config, running |-> FALSE, curTest |-> 1, pauses |-> 0,
              request |-> 0, pings |-> {}, answers |-> <<>>,
              timers |-> 0, delays |-> 0, skips |-> 0, issued |-> 0,
              starts |-> 0, wanted |-> FALSE, told |-> 0]

-----------------------------------------------------------------------------
\* A request that was there before is forgotten, not cancelled. The assertions
\* that there is none do not hold: a pause of an earlier test ends in this one.
CallPingTest(s) ==
    [s EXCEPT !.request = s.issued + 1, !.pings = @ \cup {s.issued + 1}, !.issued = @ + 1]

\* Mutant: the last time limit is never tried.
DoNextPingTestBeforeLast(s) ==
    IF s.running /\ s.curTest < Tests THEN CallPingTest(s) ELSE s

DoNextPingTest(s) ==
    IF s.running /\ s.curTest <= Tests THEN CallPingTest(s) ELSE s

TestsFinished(s) == [s EXCEPT !.told = IF @ = 2 THEN 2 ELSE @ + 1]

Finish(s) == TestsFinished([s EXCEPT !.running = FALSE])

\* Mutant: the request is cancelled, and a pause goes on.
StopTestsRequestOnly(s) ==
    IF s.running THEN [s EXCEPT !.pings = @ \ {s.request}, !.request = 0] ELSE s

\* stopTests(): a call that is queued or a single shot is not taken back.
StopTests(s) ==
    IF s.running
    THEN [s EXCEPT !.running = FALSE, !.pings = @ \ {s.request}, !.request = 0]
    ELSE s

StartTestImpl(s) ==
    IF s.config.skipped
    THEN [s EXCEPT !.skips = @ + 1]
    ELSE CallPingTest([s EXCEPT !.running = TRUE, !.curTest = 1, !.pauses = 0])

LastTest(s) == s.curTest = Tests

NextTest(s) == [s EXCEPT !.curTest = @ + 1, !.pauses = 0]

\* QTimer::singleShot() of doNextPingTest()
Pause(s) == [s EXCEPT !.timers = @ + 1]

\* A custom test pauses before the next test; a default one repeats its ping
\* within the time limit, and goes on to the next limit at once.
TestFails(s) ==
    \/ ~s.config.custom /\ s.pauses < MaxPauses /\ tt' = Pause([s EXCEPT !.pauses = @ + 1])
    \/ s.config.custom /\ ~LastTest(s) /\ tt' = Pause(NextTest(s))
    \/ ~s.config.custom /\ ~LastTest(s) /\ tt' = DoNextPingTest(NextTest(s))
    \/ LastTest(s) /\ tt' = Finish(s)

-----------------------------------------------------------------------------
\* A tunnel has come up, its address was rotated, or could not be pinned.
StartTests ==
    /\ tt.starts < MaxStarts
    /\ LET s == [StopTests(tt) EXCEPT !.starts = @ + 1, !.wanted = TRUE, !.told = 0]
       IN  tt' = IF s.config.delayed THEN [s EXCEPT !.delays = @ + 1] ELSE StartTestImpl(s)

\* The session ends or reconnects; else the call changes nothing.
StopTestsCalled ==
    /\ tt.wanted \/ tt.running
    /\ tt' = [StopTests(tt) EXCEPT !.wanted = FALSE, !.told = 0]

DelayEnds == tt.delays > 0 /\ tt' = StartTestImpl([tt EXCEPT !.delays = @ - 1])

\* wsnet answers a ping or gives it up; its callback queues the answer.
Answered(ping) ==
    /\ ping \in tt.pings
    /\ \E success \in BOOLEAN :
           tt' = [tt EXCEPT !.pings = @ \ {ping}, !.answers = Append(@, success)]

\* The answer of any ping is taken for that of the current request.
OnPingTestAnswer ==
    /\ tt.answers # <<>>
    /\ LET s == [tt EXCEPT !.answers = Tail(@), !.request = 0] IN
       \/ (tt.request = 0 \/ ~tt.running) /\ tt' = s
       \/ tt.request # 0 /\ tt.running /\ Head(tt.answers) /\ tt' = Finish(s)
       \/ tt.request # 0 /\ tt.running /\ ~Head(tt.answers) /\ TestFails(s)

RestEnds == tt.timers > 0 /\ tt' = DoNextPingTest([tt EXCEPT !.timers = @ - 1])

OnTestsSkipped == tt.skips > 0 /\ tt' = TestsFinished([tt EXCEPT !.skips = @ - 1])

Answers == \E ping \in tt.pings : Answered(ping)

TtNext ==
    \/ StartTests \/ StopTestsCalled \/ DelayEnds
    \/ Answers \/ OnPingTestAnswer \/ RestEnds \/ OnTestsSkipped

\* Timers fire, the event loop delivers, and every ping has a time limit.
TtFairness ==
    /\ WF_tt(DelayEnds) /\ WF_tt(Answers) /\ WF_tt(OnPingTestAnswer)
    /\ WF_tt(RestEnds) /\ WF_tt(OnTestsSkipped)

TtSpec == TtInit /\ [][TtNext]_tt /\ TtFairness

-----------------------------------------------------------------------------
\* The tester's state is of its type.
TtTypeOK == tt \in TtType

\* Without a delay and unless skipped, a start is answered by one result at
\* most, whatever pauses, pings and queued answers of earlier tests are still to
\* come, and after a stop there is none (ConnectionManager::onTunnelTestResult()
\* takes a result for one of the present tunnel).
OneResultPerStart ==
    ~tt.config.delayed /\ ~tt.config.skipped =>
        tt.told <= 1 /\ (~tt.wanted => tt.told = 0)

\* A running test always has something that will carry it on: a pause that
\* ends, or a request that is going to be answered.
TestIsDriven ==
    tt.running =>
        \/ tt.timers > 0
        \/ tt.request # 0 /\ (tt.request \in tt.pings \/ tt.answers # <<>>)

\* A test ends, in a result or in a stop: while it runs, the protocol shown is
\* not settled and no failover can happen.
TestEnds == tt.running ~> ~tt.running
=============================================================================
