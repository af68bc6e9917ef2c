--------------------------- MODULE MainLoop_proofs ---------------------------
(***************************************************************************)
(* For any number of clients and streams: main_loop() decides to terminate *)
(* only when it is alone.  Module MainLoop is proved to keep LoopInv.      *)
(***************************************************************************)
EXTENDS MainLoop, FiniteSetTheorems, TLAPS

\* No connection is counted when there is none.
LEMMA NoneCounted ==
    ASSUME MTypeOK
    PROVE  Cardinality(Open) \in Nat /\ (Cardinality(Open) = 0 => Open = {})
<1>1. IsFiniteSet(Open)
    BY MainLoopAssumption, FS_Subset DEF Open
<1> QED
    BY <1>1, FS_CardinalityType, FS_EmptySet

\* The loop starts with nothing decided.
LEMMA InitLoop == Init => LoopInv
<1> SUFFICES ASSUME Init PROVE LoopInv
    OBVIOUS
<1>1. g_terminate \in BOOLEAN /\ g_no_listen \in BOOLEAN
    <2>1. PICK o \in Options : g_terminate = o[1] /\ g_no_listen = o[2]
        BY DEF Init
    <2>2. o \in BOOLEAN \X BOOLEAN
        BY MainLoopAssumption
    <2>3. o[1] \in BOOLEAN /\ o[2] \in BOOLEAN
        BY <2>2
    <2> QED
        BY <2>1, <2>3
<1>2. listening \in BOOLEAN /\ have_listen \in BOOLEAN /\ term \in BOOLEAN /\ alive \in BOOLEAN
    BY DEF Init
<1>3. {listening, have_listen, term, alive, g_terminate, g_no_listen} \subseteq BOOLEAN
    BY <1>1, <1>2
<1>4. /\ client \in [Conn -> {"none", "open", "closed"}]
      /\ stream \in [Stream -> [owner : Conn \cup {self}, silent : BOOLEAN] \cup {NULL}]
    <2>1. client \in [Conn -> {"none", "open"}]
        BY DEF Init
    <2>2. stream \in [Stream -> {NULL, [owner |-> self, silent |-> FALSE]}]
        BY DEF Init
    <2>3. [owner |-> self, silent |-> FALSE] \in [owner : Conn \cup {self}, silent : BOOLEAN]
        OBVIOUS
    <2> QED
        BY <2>1, <2>2, <2>3, ZenonT(60)
<1>5. MTypeOK
    BY <1>3, <1>4 DEF Init, MTypeOK
<1> QED
    BY <1>5 DEF Init, LoopInv, TermMeansAlone

\* Every stage of the loop, request, event and signal keeps the types.
LEMMA StepType ==
    ASSUME MTypeOK, [Next]_vars
    PROVE  MTypeOK'
<1> USE DEF MTypeOK
<1>1. CASE Listen
    BY <1>1 DEF Listen
<1>2. CASE Accept
    BY <1>2 DEF Accept
<1>3. CASE CheckBegin
    BY <1>3, NoneCounted DEF CheckBegin
<1>4. CASE CheckEnd
    BY <1>4 DEF CheckEnd
<1>5. CASE Mix
    BY <1>5 DEF Mix
<1>6. CASE Tail
    BY <1>6 DEF Tail
<1>7. CASE Exit
    BY <1>7 DEF Exit
<1>8. ASSUME NEW c \in Conn, ReqTerminate(c) \/ ReqExit(c) PROVE MTypeOK'
    BY <1>8 DEF ReqTerminate, ReqExit, Loop
<1>9. ASSUME NEW c \in Conn, ReqNewStream(c) \/ ReqFlag(c) PROVE MTypeOK'
    <2>1. CASE ReqNewStream(c)
        BY <2>1 DEF ReqNewStream, Loop
    <2>2. CASE ReqFlag(c)
        BY <2>2 DEF ReqFlag, Loop, Live
    <2> QED
        BY <1>9, <2>1, <2>2
<1>10. ASSUME NEW c \in Conn, ReqClose(c) \/ ReqPass(c) \/ ReqListen(c) PROVE MTypeOK'
    BY <1>10 DEF ReqClose, ReqPass, ReqListen, Loop
<1>11. ASSUME NEW c \in Conn, Disconnect(c) PROVE MTypeOK'
    BY <1>11 DEF Disconnect, Loop
<1>12. ASSUME NEW s \in Stream, StreamEnds(s) PROVE MTypeOK'
    BY <1>12 DEF StreamEnds, Loop
<1>13. CASE on_sig_usr1
    BY <1>13 DEF on_sig_usr1, Loop
<1>14. CASE UNCHANGED vars
    BY <1>14 DEF vars
<1> QED
    BY <1>1, <1>2, <1>3, <1>4, <1>5, <1>6, <1>7, <1>8, <1>9, <1>10, <1>11, <1>12,
       <1>13, <1>14 DEF Next, LoopStep, Left, clean_quit, Exited

\* ... and the rest of LoopInv.
LEMMA StepLoop ==
    ASSUME LoopInv, [Next]_vars
    PROVE  LoopInv'
<1>0. MTypeOK /\ MTypeOK'
    BY StepType DEF LoopInv
<1> USE <1>0 DEF LoopInv, TermMeansAlone, MTypeOK
<1>1. CASE Listen
    BY <1>1 DEF Listen, Open
<1>2. CASE Accept
    BY <1>2 DEF Accept, Open
<1>3. CASE CheckBegin
    BY <1>3, NoneCounted DEF CheckBegin, Open
<1>4. CASE CheckEnd
    <2>1. Open' = Open /\ listening' = listening /\ pc' = "mix"
        BY <1>4 DEF CheckEnd, Open
    <2>2. term' => Open = {} /\ ~ listening
        <3>1. ASSUME have = 0, ~ have_listen PROVE Open = {} /\ ~ listening
            BY <1>4, <3>1 DEF CheckEnd
        <3>2. term' => term \/ (have = 0 /\ ~ have_listen)
            BY <1>4 DEF CheckEnd
        <3>3. term => Open = {} /\ ~ listening
            OBVIOUS
        <3> QED
            BY <3>1, <3>2, <3>3
    <2> QED
        BY <2>1, <2>2
<1>5. CASE Mix
    BY <1>5 DEF Mix, Open
<1>6. CASE Tail
    BY <1>6 DEF Tail, Open
<1>7. CASE Exit
    BY <1>7 DEF Exit, Open
<1>8. ASSUME NEW c \in Conn, ReqTerminate(c) \/ ReqExit(c) PROVE LoopInv'
    BY <1>8 DEF ReqTerminate, ReqExit, Loop, Open
<1>9. ASSUME NEW c \in Conn, ReqNewStream(c) \/ ReqFlag(c) PROVE LoopInv'
    BY <1>9 DEF ReqNewStream, ReqFlag, Loop, Open
<1>10. ASSUME NEW c \in Conn, ReqClose(c) \/ ReqPass(c) \/ ReqListen(c) PROVE LoopInv'
    <2>1. ~ term /\ pc = "serve" /\ have # 0
        BY <1>10 DEF ReqClose, ReqPass, ReqListen, Serving, Open
    <2>2. ~ term' /\ pc' = "serve" /\ have' # 0
        BY <1>10, <2>1 DEF ReqClose, ReqPass, ReqListen, Loop
    <2> QED
        BY <2>2
<1>11. ASSUME NEW c \in Conn, Disconnect(c) PROVE LoopInv'
    BY <1>11 DEF Disconnect, Loop, Open
<1>12. ASSUME NEW s \in Stream, StreamEnds(s) PROVE LoopInv'
    BY <1>12 DEF StreamEnds, Loop, Open
<1>13. CASE on_sig_usr1
    BY <1>13 DEF on_sig_usr1, Loop, Open
<1>14. CASE UNCHANGED vars
    BY <1>14 DEF vars, Open
<1> QED
    BY <1>1, <1>2, <1>3, <1>4, <1>5, <1>6, <1>7, <1>8, <1>9, <1>10, <1>11, <1>12,
       <1>13, <1>14 DEF Next, LoopStep, Left, clean_quit, Exited

\* LoopInv holds at every stage of main_loop().
THEOREM LoopInvariance == Spec => []LoopInv
BY InitLoop, StepLoop, PTL DEF Spec

\* The flags of main_loop(), the clients and the streams are well formed at
\* every stage, for any number of clients and streams.
THEOREM TypesCorrect == Spec => []MTypeOK
<1>1. LoopInv => MTypeOK
    BY DEF LoopInv
<1> QED
    BY <1>1, LoopInvariance, PTL

\* main_loop() decides to terminate only when no client is connected and none
\* can connect any more, whatever arrives between two of its stages.
THEOREM TermCorrect == Spec => []TermMeansAlone
<1>1. LoopInv => TermMeansAlone
    BY DEF LoopInv
<1> QED
    BY <1>1, LoopInvariance, PTL
=============================================================================
