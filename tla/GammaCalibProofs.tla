-------------------------- MODULE GammaCalibProofs --------------------------
(***************************************************************************)
(* What holds of GammaCalib for every number of apertures, grays, clicks   *)
(* and deaths: its types; and, if the sleep of the worker suffices and the *)
(* device reports its AF state, that an undisturbed calibration stores a   *)
(* map of its own apertures and a ramp at the brightest, that the          *)
(* preferences are a prefix of one calibration over its predecessor, and   *)
(* that findMax throws only when two clicks shared the lists.              *)
(***************************************************************************)
EXTENDS GammaCalib, FiniteSetTheorems, WellFoundedInduction, TLAPS

USE DEF vars, workerVars, uiVars, listVars, deviceVars, ghosts, camera

------------------------------------------------------------------------------
(* Sequences, and the least of a set of numbers.                           *)

(* What Tail leaves of a sequence.                                         *)
LEMMA TailFacts ==
    ASSUME NEW S, NEW s \in Seq(S), s # <<>>
    PROVE  /\ Head(s) \in S /\ Head(s) = s[1]
           /\ Len(s) \in Nat \ {0} /\ 1 \in 1..Len(s)
           /\ Tail(s) \in Seq(S) /\ Len(Tail(s)) = Len(s) - 1
           /\ \A i \in 1..Len(Tail(s)) : i + 1 \in 1..Len(s) /\ Tail(s)[i] = s[i + 1]
    OBVIOUS

(* What Append adds to a sequence.                                         *)
LEMMA AppendFacts ==
    ASSUME NEW S, NEW s \in Seq(S), NEW e \in S
    PROVE  /\ Append(s, e) \in Seq(S) /\ Append(s, e) # <<>>
           /\ Len(s) \in Nat /\ Len(Append(s, e)) = Len(s) + 1
           /\ \A i \in 1..Len(s) : Append(s, e)[i] = s[i]
           /\ Append(s, e)[Len(s) + 1] = e
    OBVIOUS

(* A set of natural numbers has a least element: with it, what holds of a  *)
(* sequence is shown by looking at the shortest prefix that fails.         *)
LEMMA LeastNatural ==
    ASSUME NEW T, T \subseteq Nat, T # {}
    PROVE  \E m \in T : \A k \in T : m <= k
<1> DEFINE R == OpToRel(<, Nat)
<1>1. IsWellFoundedOn(R, Nat)
    BY NatLessThanWellFounded
<1>2. \A x, y \in Nat : <<y, x>> \in R <=> y < x
    BY DEF OpToRel
<1> HIDE DEF R
<1>3. PICK m \in T : \A k \in T : ~(<<k, m>> \in R)
    BY <1>1, WFMin
<1>4. \A k \in T : ~(k < m)
    BY <1>2, <1>3
<1> QED
    BY <1>4

(* The first of the largest values of a finite set of positions exists.    *)
LEMMA FirstMaxExists ==
    ASSUME NEW L \in Nat, NEW P, P \subseteq 1..L, P # {},
           NEW v, \A i \in P : v[i] \in Nat
    PROVE  \E i \in P : \A j \in P : v[j] < v[i] \/ (v[j] = v[i] /\ i <= j)
<1> DEFINE Top(i, k) == /\ i \in P /\ i <= k
                        /\ \A j \in P : j <= k => v[j] < v[i] \/ (v[j] = v[i] /\ i <= j)
           Good(k) == (\A j \in P : k < j) \/ (\E i \in P : Top(i, k))
           T == {k \in Nat : ~Good(k)}
<1>1. SUFFICES Good(L)
    <2> SUFFICES ASSUME Good(L)
                 PROVE  \E i \in P : \A j \in P : v[j] < v[i] \/ (v[j] = v[i] /\ i <= j)
        OBVIOUS
    <2>1. \A j \in P : j <= L /\ ~(L < j)
        OBVIOUS
    <2>2. PICK i \in P : Top(i, L)
        BY <2>1
    <2> QED
        BY <2>1, <2>2
<1>2. SUFFICES ASSUME T # {} PROVE FALSE
    OBVIOUS
<1>3. PICK m \in T : \A k \in T : m <= k
    <2>1. T \subseteq Nat
        OBVIOUS
    <2> HIDE DEF T
    <2> QED
        BY <1>2, <2>1, LeastNatural
<1>4. m \in Nat /\ m # 0 /\ ~Good(m)
    <2>1. Good(0)
        OBVIOUS
    <2> QED
        BY <1>3, <2>1
<1>5. Good(m - 1)
    <2>1. m - 1 \in Nat /\ ~(m <= m - 1)
        BY <1>4
    <2>2. m - 1 \notin T
        <3> HIDE DEF T
        <3> QED
            BY <1>3, <2>1
    <2> QED
        BY <2>1, <2>2
<1>6. CASE m \notin P
    <2>1. \A j \in P : j <= m => j <= m - 1
        BY <1>4, <1>6
    <2>2. \A j \in P : m - 1 < j => m < j
        BY <1>4, <1>6
    <2> QED
        BY <1>4, <1>5, <2>1, <2>2
<1>7. CASE m \in P /\ \A j \in P : m - 1 < j
    <2>1. Top(m, m)
        BY <1>4, <1>7
    <2> QED
        BY <1>4, <1>7, <2>1
<1>8. ASSUME m \in P, NEW i \in P, Top(i, m - 1) PROVE FALSE
    <2>1. \A j \in P : j <= m => j <= m - 1 \/ j = m
        BY <1>4
    <2>2. CASE v[i] < v[m]
        <3>1. \A j \in P : j <= m - 1 => v[j] < v[m]
            BY <1>8, <2>2
        <3>2. Top(m, m)
            BY <1>4, <1>8, <2>1, <3>1
        <3> QED
            BY <1>4, <1>8, <3>2
    <2>3. CASE v[m] <= v[i]
        <3>1. Top(i, m)
            BY <1>4, <1>8, <2>1, <2>3
        <3> QED
            BY <1>4, <1>8, <3>1
    <2> QED
        BY <1>8, <2>2, <2>3
<1> QED
    BY <1>5, <1>6, <1>7, <1>8

(* getMaxIndex returns an index of the list.                               *)
LEMMA MaxIndexInList ==
    ASSUME NEW list \in Seq(Mean), Len(list) > 0
    PROVE  getMaxIndex(list) \in 1..Len(list)
<1> DEFINE P == {i \in DOMAIN list : list[i].val # Null /\ list[i].val > 0}
           v == [i \in P |-> list[i].val]
<1>1. DOMAIN list = 1..Len(list) /\ Len(list) \in Nat
    OBVIOUS
<1>2. CASE P = {}
    BY <1>1, <1>2 DEF getMaxIndex
<1>3. CASE P # {}
    <2>1. P \subseteq 1..Len(list)
        BY <1>1
    <2>2. \A i \in P : list[i].val \in Nat
        <3>1. \A i \in P : list[i] \in Mean /\ list[i].val # Null
            BY <1>1
        <3>2. \A x \in Mean : x.val \in Nat \cup {Null}
            BY DEF Mean
        <3> QED
            BY <3>1, <3>2
    <2>3. \A i \in P : v[i] = list[i].val
        OBVIOUS
    <2>4. \E i \in P : \A j \in P : v[j] < v[i] \/ (v[j] = v[i] /\ i <= j)
        <3>1. \A i \in P : v[i] \in Nat
            BY <2>2, <2>3
        <3> HIDE DEF P, v
        <3> QED
            BY <1>1, <1>3, <2>1, <3>1, FirstMaxExists
    <2>5. \E i \in P : \A j \in P :
            list[j].val < list[i].val \/ (list[j].val = list[i].val /\ i <= j)
        <3> HIDE DEF P, v
        <3> QED
            BY <2>3, <2>4
    <2>6. getMaxIndex(list) = CHOOSE i \in P : \A j \in P :
            list[j].val < list[i].val \/ (list[j].val = list[i].val /\ i <= j)
        BY <1>3 DEF getMaxIndex
    <2> HIDE DEF P
    <2>7. getMaxIndex(list) \in P
        BY <2>5, <2>6
    <2> QED
        BY <2>1, <2>7
<1> QED
    BY <1>2, <1>3

(* normalize keeps the length of the map and what lit its pictures.        *)
LEMMA NormalizeFacts ==
    ASSUME NEW list \in Seq(Mean), NEW max \in 1..Len(list)
    PROVE  /\ normalize(list, max) \in Seq(Mean)
           /\ Len(normalize(list, max)) = Len(list)
           /\ \A i \in 1..Len(list) : normalize(list, max)[i].lit = list[i].lit
<1> DEFINE Percent(xi) ==
             IF Null \in {list[xi].val, list[max].val} \/ list[max].val = 0 THEN Null
             ELSE IF xi <= max THEN (list[xi].val * 100) \div list[max].val ELSE list[xi].val
           Entry(xi) == IF xi > NPos THEN list[xi] ELSE [list[xi] EXCEPT !.val = Percent(xi)]
<1>1. DOMAIN list = 1..Len(list) /\ Len(list) \in Nat
    OBVIOUS
<1>2. \A i \in 1..Len(list) : list[i] \in Mean
    OBVIOUS
<1>3. \A x \in Mean : x.val \in Nat \cup {Null}
    BY DEF Mean
<1>4. ASSUME NEW xi \in 1..Len(list) PROVE Percent(xi) \in Nat \cup {Null}
    <2>1. \A a, b \in Nat : b # 0 => (a * 100) \div b \in Nat
        <3>1. \A a \in Nat : a * 100 \in Nat
            OBVIOUS
        <3>2. \A a, b \in Nat : b # 0 => a \div b \in Nat
            OBVIOUS
        <3> QED
            BY <3>1, <3>2
    <2>2. PICK a, b : a = list[xi].val /\ b = list[max].val
        OBVIOUS
    <2>3. a \in Nat \cup {Null} /\ b \in Nat \cup {Null}
        BY <1>2, <1>3, <2>2
    <2>4. Percent(xi) = IF Null \in {a, b} \/ b = 0 THEN Null
                        ELSE IF xi <= max THEN (a * 100) \div b ELSE a
        BY <2>2
    <2> HIDE DEF Percent
    <2> QED
        BY <2>1, <2>3, <2>4
<1>5. normalize(list, max) = [xi \in 1..Len(list) |-> Entry(xi)]
    BY <1>1 DEF normalize
<1> HIDE DEF Percent
<1>6. ASSUME NEW xi \in 1..Len(list) PROVE Entry(xi) \in Mean /\ Entry(xi).lit = list[xi].lit
    <2>1. PICK x, y : x = list[xi] /\ y = Percent(xi)
        OBVIOUS
    <2>2. x \in Mean /\ y \in Nat \cup {Null}
        BY <1>2, <1>4, <2>1
    <2>3. [x EXCEPT !.val = y] \in Mean /\ [x EXCEPT !.val = y].lit = x.lit
        BY <2>2 DEF Mean
    <2> QED
        BY <2>1, <2>2, <2>3
<1> HIDE DEF Entry
<1> QED
    BY <1>1, <1>5, <1>6

------------------------------------------------------------------------------
(* Types.                                                                  *)

(* The messages the worker posts.                                          *)
LEMMA MessageTypes ==
    ASSUME NEW t \in Task
    PROVE  /\ Progress(t) \in Message /\ [kind |-> "post", task |-> t] \in Message
           /\ Progress(t).kind = "progress" /\ ~IsPost(Progress(t))
           /\ IsPost([kind |-> "post", task |-> t])
    BY DEF Progress, Message, IsPost

(* The patterns that are drawn.                                            *)
LEMMA PatternTypes ==
    /\ <<0, 0>> \in Pattern
    /\ Dark \in Mean /\ Dark.val = 0 /\ Dark.val # Null
    /\ TypeOK /\ n < NPos + NGamma => getCircle \in Pattern
<1>1. NPos \in Nat \ {0} /\ NGamma \in Nat \ {0} /\ Means \subseteq Nat /\ Means # {}
      /\ Null \notin Int
    BY CalibAssumption
<1>2. <<0, 0>> \in Pattern
    BY <1>1 DEF Pattern
<1>3. (CHOOSE v \in Means : TRUE) \in Means
    BY <1>1
<1>4. Dark \in Mean /\ Dark.val = 0 /\ Dark.val # Null
    BY <1>1, <1>2, <1>3 DEF Dark, Mean
<1>5. ASSUME TypeOK, n < NPos + NGamma PROVE getCircle \in Pattern
    <2>1. n \in Nat /\ best \in 0..NPos
        BY <1>1, <1>5 DEF TypeOK, WorkerType
    <2> QED
        BY <1>1, <1>5, <2>1 DEF getCircle, Pattern
<1> QED
    BY <1>2, <1>4, <1>5

(* The initial state is well typed.                                        *)
LEMMA InitTyped == Init => TypeInv
<1> SUFFICES ASSUME Init PROVE TypeInv
    OBVIOUS
<1>1. NPos \in Nat \ {0} /\ NGamma \in Nat \ {0} /\ MaxClicks \in Nat /\ MaxDeaths \in Nat
      /\ Depth \in Nat
    BY CalibAssumption
<1>2. 0 \notin Task
    BY <1>1 DEF Task
<1>3. prefs \in Stored
    BY <1>1 DEF Init, Stored
<1>4. slot \in [at : Nat, mean : Mean] /\ meanVal \in Mean /\ meanVal.val # Null
      /\ mBitmap \in Pattern /\ shown \in Pattern
    BY PatternTypes DEF Init
<1>8. overtaken \in BOOLEAN /\ cameraReady \in BOOLEAN /\ repeating \in BOOLEAN
    BY DEF Init
<1>5. post \in [at : Keys \cup {"none"}, task : 0..MaxClicks]
    BY <1>1 DEF Init
<1>6. points \in [Task -> Seq(Pattern)]
    BY DEF Init
<1>7. TypeOK
    BY <1>1, <1>3, <1>4, <1>5, <1>6, <1>8 DEF Init, TypeOK, WorkerType, UiType,
        CameraType, StoredType, STATE_PREVIEW
<1> QED
    BY <1>2, <1>4, <1>7 DEF Init, TypeInv, WorkerInStep

(* A click keeps the types.                                                *)
LEMMA ClickTyped == TypeInv /\ btnCalibrate => TypeInv'
<1> SUFFICES ASSUME TypeInv, btnCalibrate PROVE TypeInv'
    OBVIOUS
<1>0. TypeOK /\ WorkerInStep
    BY DEF TypeInv
<1>1. clicks \in 0..MaxClicks /\ clicks < MaxClicks /\ clicks' = clicks + 1
      /\ tasks \in Seq(Task) /\ tasks' = Append(tasks, clicks') /\ MaxClicks \in Nat
    BY <1>0, CalibAssumption DEF btnCalibrate, TypeOK, WorkerType
<1>2. clicks' \in 0..MaxClicks /\ clicks' \in Task
    BY <1>1 DEF Task
<1>3. tasks' \in Seq(Task)
    BY <1>1, <1>2, AppendFacts
<1>4. WorkerType'
    BY <1>0, <1>2, <1>3 DEF TypeOK, WorkerType, btnCalibrate
<1>5. UiType' /\ CameraType'
    BY <1>0 DEF TypeOK, UiType, CameraType, btnCalibrate
<1>6. disturbed' \subseteq Task
    BY <1>0, <1>2 DEF btnCalibrate, Unfinished, TypeOK, StoredType
<1>7. StoredType'
    BY <1>0, <1>6 DEF TypeOK, StoredType, btnCalibrate
<1>8. WorkerInStep'
    BY <1>0 DEF btnCalibrate, WorkerInStep
<1> QED
    BY <1>4, <1>5, <1>7, <1>8 DEF TypeInv, TypeOK

(* Every step of the worker keeps the types.                               *)
LEMMA WorkerTyped == TypeInv /\ Worker => TypeInv'
<1> SUFFICES ASSUME TypeInv, Worker PROVE TypeInv'
    OBVIOUS
<1>0. TypeOK /\ WorkerInStep /\ WorkerType /\ UiType /\ CameraType /\ StoredType
    BY DEF TypeInv, TypeOK
<1>1. /\ NPos \in Nat \ {0} /\ NGamma \in Nat \ {0} /\ MaxClicks \in Nat /\ Null \notin Int
      /\ STATE_WAITING_LOCK = 1 /\ Depth \in Nat
    BY CalibAssumption DEF STATE_WAITING_LOCK
<1>2. StoredType' /\ clicks' = clicks /\ post' = post /\ shown' = shown
    BY <1>0 DEF StoredType, Worker, WorkerOnly, start, draw, takePicture, takePictureLock,
        compare, addPoint, addReads, addWrites, finish
<1>3. 0 \notin Task /\ Task \subseteq 0..MaxClicks
    BY <1>1 DEF Task
<1>4. meanVal' = meanVal /\ meanVal.val \in Nat
    <2>1. meanVal' = meanVal
        BY DEF Worker, start, draw, takePicture, takePictureLock, compare, addPoint, addReads,
            addWrites, finish
    <2>2. meanVal.val \in Nat \cup {Null} /\ meanVal.val # Null
        BY <1>0 DEF CameraType, Mean, WorkerInStep
    <2> QED
        BY <2>1, <2>2
<1>t. ASSUME WorkerType', UiType', CameraType', WorkerInStep' PROVE TypeInv'
    BY <1>t, <1>2 DEF TypeInv, TypeOK
<1>5. CASE start
    <2>1. /\ tasks # <<>> /\ tasks \in Seq(Task) /\ task' = Head(tasks) /\ tasks' = Tail(tasks)
          /\ uiQueue \in Seq(Message) /\ uiQueue' = Append(uiQueue, Progress(task'))
          /\ pc' = "draw" /\ n' = 0 /\ best' = 0 /\ lastmeanVal' = -1
          /\ UNCHANGED <<slot, points, mBitmap, listVars, camera>>
        BY <1>0, <1>5 DEF start, WorkerType, UiType
    <2>2. task' \in Task /\ tasks' \in Seq(Task)
        BY <2>1, TailFacts
    <2>3. uiQueue' \in Seq(Message)
        BY <2>1, <2>2, MessageTypes, AppendFacts
    <2>4. WorkerType'
        BY <1>0, <1>1, <1>2, <1>3, <2>1, <2>2 DEF WorkerType
    <2>5. UiType'
        BY <1>0, <1>2, <2>1, <2>3 DEF UiType
    <2>6. CameraType'
        BY <1>0, <2>1 DEF CameraType
    <2>7. WorkerInStep'
        BY <1>0, <2>1, <2>2 DEF WorkerInStep
    <2> QED
        BY <1>t, <2>4, <2>5, <2>6, <2>7
<1>6. CASE draw
    <2>1. /\ pc = "draw" /\ n < NPos + NGamma /\ mBitmap' = getCircle /\ pc' = "settle"
          /\ uiQueue \in Seq(Message) /\ uiQueue' = Append(uiQueue, Progress(task))
          /\ UNCHANGED <<tasks, task, n, best, lastmeanVal, slot, points, listVars, camera>>
        BY <1>0, <1>6 DEF draw, UiType
    <2>2. task \in Task
        BY <1>0, <2>1 DEF WorkerInStep
    <2>3. uiQueue' \in Seq(Message)
        BY <2>1, <2>2, MessageTypes, AppendFacts
    <2>4. WorkerType'
        BY <1>0, <1>2, <2>1 DEF WorkerType
    <2>5. UiType'
        BY <1>0, <1>2, <2>1, <2>3, PatternTypes DEF UiType
    <2>6. CameraType'
        BY <1>0, <2>1 DEF CameraType
    <2>7. WorkerInStep'
        BY <1>0, <2>1, <2>2 DEF WorkerInStep
    <2> QED
        BY <1>t, <2>4, <2>5, <2>6, <2>7
<1>7. CASE takePicture \/ takePictureLock
    <2>1. /\ \/ pc = "settle" /\ pc' = "lock"
             \/ pc = "lock" /\ pc' = "wait"
          /\ UNCHANGED <<tasks, task, n, best, lastmeanVal, slot, points, uiQueue, mBitmap,
                         listVars, meanVal, completions, repeating, exposed, reader, available>>
        BY <1>7 DEF takePicture, takePictureLock
    <2>2. cameraReady' \in BOOLEAN /\ mState' \in 0..4 /\ results' \in 0..Depth
        <3>1. cameraReady \in BOOLEAN /\ mState \in 0..4 /\ results \in 0..Depth
            BY <1>0 DEF CameraType
        <3>2. CASE takePicture
            <4>1. cameraReady' = FALSE /\ UNCHANGED <<mState, results>>
                BY <3>2 DEF takePicture
            <4> QED
                BY <3>1, <4>1
        <3>3. CASE takePictureLock
            <4>1. cameraReady' = cameraReady /\ mState' = 1 /\ results' = Queued
                BY <1>1, <3>3 DEF takePictureLock
            <4>2. results' \in 0..Depth /\ mState' \in 0..4
                BY <1>1, <3>1, <4>1 DEF Queued
            <4> QED
                BY <3>1, <4>1, <4>2
        <3> QED
            BY <1>7, <3>2, <3>3
    <2>3. WorkerType' /\ UiType'
        BY <1>0, <1>2, <2>1 DEF WorkerType, UiType
    <2>4. CameraType'
        BY <1>0, <2>1, <2>2 DEF CameraType
    <2>5. WorkerInStep'
        BY <1>0, <2>1 DEF WorkerInStep
    <2> QED
        BY <1>t, <2>3, <2>4, <2>5
<1>8. CASE compare
    <2>1. /\ pc = "wait" /\ n < NPos /\ pc' = "add"
          /\ \/ best' = n + 1 /\ lastmeanVal' = meanVal.val
             \/ UNCHANGED <<best, lastmeanVal>>
          /\ UNCHANGED <<tasks, task, n, slot, points, uiQueue, mBitmap, listVars, camera>>
        BY <1>8 DEF compare
    <2>2. best' \in 0..NPos /\ lastmeanVal' \in Int
        BY <1>0, <1>1, <1>4, <2>1 DEF WorkerType
    <2>3. WorkerType' /\ UiType'
        BY <1>0, <1>2, <2>1, <2>2 DEF WorkerType, UiType
    <2>4. CameraType'
        BY <1>0, <2>1 DEF CameraType
    <2>5. WorkerInStep'
        BY <1>0, <2>1 DEF WorkerInStep
    <2> QED
        BY <1>t, <2>3, <2>4, <2>5
<1>9. CASE addPoint
    <2>1. /\ pc = "wait" /\ n >= NPos /\ n' = n + 1 /\ pc' = "draw"
          /\ points' = [points EXCEPT ![task] = Append(points[task], meanVal.lit)]
          /\ UNCHANGED <<tasks, task, best, lastmeanVal, slot, uiQueue, mBitmap, listVars,
                         camera>>
        BY <1>9 DEF addPoint
    <2>2. n < NPos + NGamma /\ task \in Task
        BY <1>0, <2>1 DEF WorkerInStep
    <2>3. n' \in 0..(NPos + NGamma)
        BY <1>0, <1>1, <2>1, <2>2 DEF WorkerType
    <2>4. points' \in [Task -> Seq(Pattern)]
        <3>1. points[task] \in Seq(Pattern) /\ meanVal.lit \in Pattern
            BY <1>0, <2>2 DEF WorkerType, CameraType, Mean
        <3>2. Append(points[task], meanVal.lit) \in Seq(Pattern)
            BY <3>1, AppendFacts
        <3> QED
            BY <1>0, <2>1, <3>2 DEF WorkerType
    <2>5. WorkerType' /\ UiType'
        BY <1>0, <1>2, <2>1, <2>3, <2>4 DEF WorkerType, UiType
    <2>6. CameraType'
        BY <1>0, <2>1 DEF CameraType
    <2>7. WorkerInStep'
        BY <1>0, <2>1 DEF WorkerInStep
    <2> QED
        BY <1>t, <2>5, <2>6, <2>7
<1>10. CASE addReads
    <2>1. /\ pc = "add" /\ pc' = "store"
          /\ slot' = [at |-> Len(maxValList) + 1, mean |-> meanVal]
          /\ UNCHANGED <<tasks, task, n, best, lastmeanVal, points, uiQueue, mBitmap, listVars,
                         camera>>
        BY <1>10 DEF addReads
    <2>2. slot' \in [at : Nat, mean : Mean]
        <3>1. Len(maxValList) \in Nat /\ meanVal \in Mean
            BY <1>0 DEF UiType, CameraType
        <3> QED
            BY <2>1, <3>1
    <2>3. WorkerType' /\ UiType'
        BY <1>0, <1>2, <2>1, <2>2 DEF WorkerType, UiType
    <2>4. CameraType'
        BY <1>0, <2>1 DEF CameraType
    <2>5. WorkerInStep'
        BY <1>0, <2>1 DEF WorkerInStep
    <2> QED
        BY <1>t, <2>3, <2>4, <2>5
<1>11. CASE addWrites
    <2>1. /\ pc = "store" /\ n' = n + 1 /\ pc' = "draw"
          /\ maxValList' = [i \in 1..slot.at |->
                                IF i = slot.at THEN slot.mean
                                ELSE IF i <= Len(maxValList) THEN maxValList[i] ELSE Null]
          /\ UNCHANGED <<tasks, task, best, lastmeanVal, slot, points, uiQueue, mBitmap,
                         maxIntensityIndex, globalLogit, camera>>
        BY <1>11 DEF addWrites
    <2>2. n' \in 0..(NPos + NGamma)
        BY <1>0, <1>1, <2>1 DEF WorkerType, WorkerInStep
    <2>3. maxValList' \in Seq(Mean \cup {Null})
        <3>1. PICK a, x : a = slot.at /\ x = slot.mean
            OBVIOUS
        <3>2. a \in Nat /\ x \in Mean /\ maxValList \in Seq(Mean \cup {Null})
            BY <1>0, <3>1 DEF WorkerType, UiType
        <3>3. maxValList' = [i \in 1..a |->
                                IF i = a THEN x
                                ELSE IF i <= Len(maxValList) THEN maxValList[i] ELSE Null]
            BY <2>1, <3>1
        <3>4. \A i \in 1..a : maxValList'[i] \in Mean \cup {Null}
            BY <3>2, <3>3
        <3> QED
            BY <3>2, <3>3, <3>4
    <2>4. WorkerType'
        BY <1>0, <1>2, <2>1, <2>2 DEF WorkerType
    <2>5. UiType'
        BY <1>0, <1>2, <2>1, <2>3 DEF UiType
    <2>6. CameraType'
        BY <1>0, <2>1 DEF CameraType
    <2>7. WorkerInStep'
        BY <1>0, <2>1 DEF WorkerInStep
    <2> QED
        BY <1>t, <2>4, <2>5, <2>6, <2>7
<1>12. CASE finish
    <2>1. /\ pc = "draw" /\ task' = 0 /\ pc' = "idle"
          /\ uiQueue \in Seq(Message)
          /\ uiQueue' = Append(uiQueue, [kind |-> "post", task |-> task])
          /\ UNCHANGED <<tasks, n, best, lastmeanVal, slot, points, mBitmap, listVars, camera>>
        BY <1>0, <1>12 DEF finish, UiType
    <2>2. [kind |-> "post", task |-> task] \in Message
        BY <1>0, <2>1, MessageTypes DEF WorkerInStep
    <2>3. uiQueue' \in Seq(Message)
        BY <2>1, <2>2, AppendFacts
    <2>4. WorkerType'
        BY <1>0, <1>1, <1>2, <2>1 DEF WorkerType
    <2>5. UiType'
        BY <1>0, <1>2, <2>1, <2>3 DEF UiType
    <2>6. CameraType'
        BY <1>0, <2>1 DEF CameraType
    <2>7. WorkerInStep'
        BY <1>0, <1>3, <2>1 DEF WorkerInStep
    <2> QED
        BY <1>t, <2>4, <2>5, <2>6, <2>7
<1> QED
    BY <1>5, <1>6, <1>7, <1>8, <1>9, <1>10, <1>11, <1>12 DEF Worker

(* Every step of the looper keeps the types.                               *)
LEMMA LooperTyped == TypeInv /\ Looper => TypeInv'
<1> SUFFICES ASSUME TypeInv, Looper PROVE TypeInv'
    OBVIOUS
<1>0. TypeOK /\ WorkerInStep /\ WorkerType /\ UiType /\ CameraType /\ StoredType
    BY DEF TypeInv, TypeOK
<1>1. Depth \in Nat /\ Means \subseteq Nat /\ Null \notin Int
    BY CalibAssumption
<1>2. LooperOnly
    BY DEF Looper, previewResult, resultAdvances, resultIgnored, unlockFocus, imageReady,
        onImageAvailable
<1>3. WorkerType' /\ UiType'
    BY <1>0, <1>2 DEF LooperOnly, WorkerType, UiType
<1>o. overtaken' \in BOOLEAN
    <2>1. UNCHANGED overtaken \/ overtaken' = (overtaken \/ OpenRequest)
        BY DEF Looper, previewResult, resultAdvances, resultIgnored, ResultLeavesAlone,
            unlockFocus, imageReady, onImageAvailable
    <2> QED
        BY <1>0, <2>1, Zenon DEF StoredType
<1>4. ASSUME CameraType', life' \in {"alive", "killed", "exception", "diverged"},
             meanVal'.val # Null
      PROVE  TypeInv'
    <2>1. StoredType'
        BY <1>0, <1>2, <1>4, <1>o DEF LooperOnly, StoredType
    <2>2. WorkerInStep'
        BY <1>0, <1>2, <1>4 DEF LooperOnly, WorkerInStep
    <2> QED
        BY <1>3, <1>4, <2>1, <2>2 DEF TypeInv, TypeOK
<1>5. /\ cameraReady \in BOOLEAN /\ repeating \in BOOLEAN /\ results \in 0..Depth
      /\ completions \in Nat /\ available \in Nat /\ shown \in Pattern
      /\ exposed \in Seq(Pattern) /\ reader \in Seq(Pattern) /\ meanVal \in Mean
      /\ mState \in 0..4 /\ meanVal.val # Null
      /\ life \in {"alive", "killed", "exception", "diverged"}
    BY <1>0 DEF CameraType, UiType, WorkerInStep, StoredType
<1>6. Append(exposed, shown) \in Seq(Pattern)
    BY <1>5, AppendFacts
<1>7. ASSUME UNCHANGED <<cameraReady, meanVal, reader, available, life>>,
             results' \in 0..Depth, repeating' \in BOOLEAN, completions' \in Nat,
             exposed' \in Seq(Pattern), mState' \in 0..4
      PROVE  TypeInv'
    <2>1. CameraType'
        BY <1>5, <1>7 DEF CameraType
    <2> QED
        BY <1>4, <1>5, <1>7, <2>1
<1>8. CASE previewResult
    <2>1. /\ results < Depth /\ results' = results + 1
          /\ UNCHANGED <<cameraReady, meanVal, mState, repeating, completions, exposed, reader,
                         available, life>>
        BY <1>8 DEF previewResult
    <2>2. results' \in 0..Depth
        BY <1>1, <1>5, <2>1
    <2> QED
        BY <1>5, <1>7, <2>1, <2>2
<1>9. CASE resultAdvances
    <2>1. results > 0 /\ UNCHANGED <<cameraReady, meanVal, reader, available, life>>
          /\ \E af \in AfStates, ae \in AeStates : process(af, ae)
        BY <1>9 DEF resultAdvances, ResultLeavesAlone
    <2>2. results' \in {results, results - 1} /\ repeating' \in {repeating, FALSE}
          /\ completions' \in {completions, completions + 1}
          /\ exposed' \in {exposed, Append(exposed, shown)} /\ mState' \in {mState, 2, 3, 4}
        BY <2>1 DEF process, captureStillPicture, runPrecaptureSequence, NoStill,
            STATE_WAITING_PRECAPTURE, STATE_WAITING_NON_PRECAPTURE, STATE_PICTURE_TAKEN
    <2>3. results' \in 0..Depth /\ completions' \in Nat /\ mState' \in 0..4
        BY <1>1, <1>5, <2>1, <2>2
    <2>4. repeating' \in BOOLEAN /\ exposed' \in Seq(Pattern)
        BY <1>5, <1>6, <2>2
    <2> QED
        BY <1>7, <2>1, <2>3, <2>4
<1>10. CASE resultIgnored
    <2>1. results > 0 /\ results' = results - 1
          /\ UNCHANGED <<cameraReady, meanVal, reader, available, life, mState, repeating,
                         completions, exposed>>
        BY <1>10 DEF resultIgnored, ResultLeavesAlone, NoStill
    <2>2. results' \in 0..Depth
        BY <1>1, <1>5, <2>1
    <2> QED
        BY <1>5, <1>7, <2>1, <2>2
<1>11. CASE unlockFocus
    <2>1. /\ completions > 0 /\ completions' = completions - 1 /\ results' = Queued
          /\ mState' = 0 /\ repeating' = TRUE
          /\ UNCHANGED <<cameraReady, meanVal, exposed, reader, available, life>>
        BY <1>11 DEF unlockFocus, STATE_PREVIEW
    <2>2. results' \in 0..Depth /\ completions' \in Nat /\ mState' \in 0..4
        BY <1>1, <1>5, <2>1 DEF Queued
    <2> QED
        BY <1>5, <1>7, <2>1, <2>2
<1>12. CASE imageReady
    <2>1. /\ exposed # <<>> /\ reader' = Append(reader, Head(exposed))
          /\ exposed' = Tail(exposed) /\ available' = available + 1
          /\ UNCHANGED <<cameraReady, meanVal, mState, repeating, results, completions, life>>
        BY <1>12 DEF imageReady
    <2>2. Head(exposed) \in Pattern /\ exposed' \in Seq(Pattern)
        BY <1>5, <2>1, TailFacts
    <2>3. reader' \in Seq(Pattern)
        BY <1>5, <2>1, <2>2, AppendFacts
    <2>4. available' \in Nat
        BY <1>5, <2>1
    <2>5. CameraType'
        BY <1>5, <2>1, <2>2, <2>3, <2>4 DEF CameraType
    <2> QED
        BY <1>4, <1>5, <2>1, <2>5
<1>13. CASE onImageAvailable
    <2>1. /\ available > 0 /\ available' = available - 1 /\ reader' = <<>>
          /\ UNCHANGED <<mState, repeating, results, completions, exposed>>
        BY <1>13 DEF onImageAvailable
    <2>2. available' \in Nat /\ reader' \in Seq(Pattern)
        BY <1>5, <2>1
    <2>3. CASE reader # <<>> /\ cameraReady' = TRUE /\ life' = life
               /\ \E v \in Means : meanVal' = [lit |-> reader[Len(reader)], mean |-> v, val |-> v]
        <3>1. PICK v \in Means : meanVal' = [lit |-> reader[Len(reader)], mean |-> v, val |-> v]
            BY <2>3
        <3>2. reader[Len(reader)] \in Pattern
            BY <1>5, <2>3
        <3>3. v \in Nat /\ v # Null
            BY <1>1
        <3>4. meanVal' \in Mean /\ meanVal'.val # Null
            BY <3>1, <3>2, <3>3 DEF Mean
        <3>5. cameraReady' \in BOOLEAN
            BY <2>3
        <3>6. CameraType'
            BY <1>5, <2>1, <2>2, <3>4, <3>5 DEF CameraType
        <3> QED
            BY <1>4, <1>5, <2>3, <3>4, <3>6
    <2>4. CASE life' = "exception" /\ UNCHANGED <<meanVal, cameraReady>>
        <3>1. CameraType'
            BY <1>5, <2>1, <2>2, <2>4 DEF CameraType
        <3> QED
            BY <1>4, <1>5, <2>4, <3>1
    <2> QED
        BY <1>13, <2>3, <2>4 DEF onImageAvailable
<1> QED
    BY <1>8, <1>9, <1>10, <1>11, <1>12, <1>13 DEF Looper

(* A list that does not throw has no null in it and enough entries.        *)
LEMMA NotThrown ==
    ASSUME TypeOK, ~Thrown
    PROVE  /\ maxValList \in Seq(Mean) /\ Len(maxValList) >= NPos /\ Len(maxValList) > 0
           /\ getMaxIndex(maxValList) \in 1..Len(maxValList)
<1>1. maxValList \in Seq(Mean \cup {Null})
    BY DEF TypeOK, UiType
<1>2. Len(maxValList) \in Nat /\ DOMAIN maxValList = 1..Len(maxValList)
      /\ \A i \in 1..Len(maxValList) : maxValList[i] \in Mean \cup {Null}
    BY <1>1
<1>3. Len(maxValList) >= NPos /\ \A i \in 1..Len(maxValList) : maxValList[i] # Null
    BY <1>2, CalibAssumption DEF Thrown
<1>4. \A i \in 1..Len(maxValList) : maxValList[i] \in Mean
    BY <1>2, <1>3
<1>5. maxValList \in Seq(Mean)
    BY <1>1, <1>2, <1>4
<1>6. Len(maxValList) > 0
    BY <1>2, <1>3, CalibAssumption
<1> QED
    BY <1>3, <1>5, <1>6, MaxIndexInList

(* Every step of the UI thread keeps the types.                            *)
LEMMA UiTyped == TypeInv /\ Ui => TypeInv'
<1> SUFFICES ASSUME TypeInv, Ui PROVE TypeInv'
    OBVIOUS
<1>0. TypeOK /\ WorkerInStep /\ WorkerType /\ UiType /\ CameraType /\ StoredType
    BY DEF TypeInv, TypeOK
<1>1. UNCHANGED <<clicks, workerVars, mBitmap, camera, overtaken, ghosts>>
    BY DEF Ui, UiOnly, onProgressUpdate, onPostExecute, save
<1>2. WorkerType' /\ CameraType' /\ WorkerInStep'
    BY <1>0, <1>1 DEF WorkerType, CameraType, WorkerInStep
<1>3. ASSUME UiType', prefs' \in Stored, life' \in {"alive", "killed", "exception", "diverged"}
      PROVE  TypeInv'
    BY <1>0, <1>1, <1>2, <1>3 DEF TypeInv, TypeOK, StoredType
<1>4. MaxClicks \in Nat /\ Task \subseteq 0..MaxClicks
    BY CalibAssumption DEF Task
<1>5. /\ uiQueue \in Seq(Message) /\ mBitmap \in Pattern /\ shown \in Pattern
      /\ post \in [at : Keys \cup {"none"}, task : 0..MaxClicks]
      /\ maxValList \in Seq(Mean \cup {Null}) /\ maxIntensityIndex \in Nat
      /\ globalLogit \in Seq(Task) /\ prefs \in Stored
      /\ life \in {"alive", "killed", "exception", "diverged"}
    BY <1>0 DEF UiType, StoredType
<1>6. CASE onProgressUpdate
    <2>1. /\ uiQueue # <<>> /\ uiQueue' = Tail(uiQueue) /\ shown' = mBitmap
          /\ UNCHANGED <<post, listVars, prefs, life>>
        BY <1>6 DEF onProgressUpdate
    <2>2. uiQueue' \in Seq(Message)
        BY <1>5, <2>1, TailFacts
    <2>3. UiType'
        BY <1>1, <1>5, <2>1, <2>2 DEF UiType
    <2> QED
        BY <1>3, <1>5, <2>1, <2>3
<1>7. CASE onPostExecute
    <2>1. uiQueue # <<>> /\ uiQueue' = Tail(uiQueue) /\ UNCHANGED <<shown, prefs>>
        BY <1>7 DEF onPostExecute
    <2>2. uiQueue' \in Seq(Message) /\ Head(uiQueue).task \in Task
        <3>1. uiQueue' \in Seq(Message) /\ Head(uiQueue) \in Message
            BY <1>5, <2>1, TailFacts
        <3> QED
            BY <3>1 DEF Message
    <2>3. CASE life' \in {"exception", "diverged"} /\ UNCHANGED <<post, listVars>>
        <3>1. UiType'
            BY <1>1, <1>5, <2>1, <2>2, <2>3 DEF UiType
        <3> QED
            BY <1>3, <1>5, <2>1, <2>3, <3>1
    <2>4. CASE /\ ~Thrown /\ life' = life
               /\ maxIntensityIndex' = getMaxIndex(maxValList)
               /\ maxValList' = normalize(maxValList, maxIntensityIndex')
               /\ globalLogit' = Append(globalLogit, Head(uiQueue).task)
               /\ post' = [at |-> "Maxint", task |-> Head(uiQueue).task]
        <3>1. maxValList \in Seq(Mean) /\ maxIntensityIndex' \in 1..Len(maxValList)
              /\ maxIntensityIndex' \in Nat
            BY <1>0, <2>4, NotThrown
        <3>2. PICK i : i = maxIntensityIndex'
            OBVIOUS
        <3>3. maxValList' = normalize(maxValList, i) /\ i \in 1..Len(maxValList)
            BY <2>4, <3>1, <3>2
        <3>4. maxValList' \in Seq(Mean)
            BY <3>1, <3>3, NormalizeFacts
        <3>5. maxValList' \in Seq(Mean \cup {Null})
            BY <3>4
        <3>6. globalLogit' \in Seq(Task)
            BY <1>5, <2>2, <2>4, AppendFacts
        <3>7. post' \in [at : Keys \cup {"none"}, task : 0..MaxClicks]
            BY <1>4, <2>2, <2>4 DEF Keys
        <3>8. UiType'
            BY <1>1, <1>5, <2>1, <2>2, <3>1, <3>5, <3>6, <3>7 DEF UiType
        <3> QED
            BY <1>3, <1>5, <2>1, <2>4, <3>8
    <2> QED
        BY <1>7, <2>3, <2>4 DEF onPostExecute
<1>8. CASE save
    <2>1. PICK k, t : k = post.at /\ t = post.task
        OBVIOUS
    <2>2. /\ k # "none" /\ prefs' = [prefs EXCEPT ![k] = ToSave(k, t)]
          /\ post' = [at |-> SaveAfter[k], task |-> IF SaveAfter[k] = "none" THEN 0 ELSE t]
          /\ UNCHANGED <<uiQueue, shown, listVars, life>>
        BY <1>8, <2>1 DEF save
    <2>3. k \in Keys /\ t \in 0..MaxClicks
        BY <1>5, <2>1, <2>2
    <2>4. prefs' \in Stored
        <3>1. prefs = [Maxint |-> prefs.Maxint, Gamma |-> prefs.Gamma,
                       maxValPosX |-> prefs.maxValPosX, maxValPosY |-> prefs.maxValPosY,
                       Centerposition |-> prefs.Centerposition]
            BY <1>5 DEF Stored
        <3>2. CASE k = "Maxint"
            <4>1. ToSave(k, t) = [task |-> t, list |-> maxValList]
                BY <3>2 DEF ToSave
            <4>2. ToSave(k, t) \in [task : 0..MaxClicks, list : Seq(Mean \cup {Null})]
                BY <1>5, <2>3, <4>1
            <4> QED
                BY <1>5, <2>2, <3>2, <4>2 DEF Stored
        <3>3. CASE k = "Gamma"
            <4>1. ToSave(k, t) = [task |-> t, list |-> globalLogit]
                BY <3>3 DEF ToSave
            <4>2. ToSave(k, t) \in [task : 0..MaxClicks, list : Seq(Task)]
                BY <1>5, <2>3, <4>1
            <4> QED
                BY <1>5, <2>2, <3>3, <4>2 DEF Stored
        <3>4. CASE k = "Centerposition"
            <4>1. ToSave(k, t) = [task |-> t, index |-> maxIntensityIndex]
                BY <3>4 DEF ToSave
            <4>2. ToSave(k, t) \in [task : 0..MaxClicks, index : Nat]
                BY <1>5, <2>3, <4>1
            <4> QED
                BY <1>5, <2>2, <3>4, <4>2 DEF Stored
        <3>5. CASE k \in {"maxValPosX", "maxValPosY"}
            <4>1. ToSave(k, t) = t
                BY <3>5 DEF ToSave
            <4> QED
                BY <1>5, <2>2, <2>3, <3>5, <4>1 DEF Stored
        <3> QED
            BY <2>3, <3>2, <3>3, <3>4, <3>5 DEF Keys
    <2>5. SaveAfter[k] \in Keys \cup {"none"}
        BY <2>3 DEF Keys, SaveAfter
    <2>6. post' \in [at : Keys \cup {"none"}, task : 0..MaxClicks]
        <3>1. (IF SaveAfter[k] = "none" THEN 0 ELSE t) \in 0..MaxClicks
            BY <1>4, <2>3
        <3> QED
            BY <2>2, <2>5, <3>1
    <2>7. UiType'
        BY <1>1, <1>5, <2>2, <2>6 DEF UiType
    <2> QED
        BY <1>3, <1>5, <2>2, <2>4, <2>7
<1> QED
    BY <1>6, <1>7, <1>8 DEF Ui

(* Death and restart keep the types.                                       *)
LEMMA LifeTyped == TypeInv /\ (kill \/ restart) => TypeInv'
<1> SUFFICES ASSUME TypeInv, kill \/ restart PROVE TypeInv'
    OBVIOUS
<1>0. TypeOK /\ WorkerInStep /\ WorkerType /\ UiType /\ CameraType /\ StoredType
    BY DEF TypeInv, TypeOK
<1>1. CASE kill
    <2>1. life' = "killed" /\ deaths' = deaths + 1 /\ deaths < MaxDeaths
          /\ UNCHANGED <<clicks, workerVars, uiVars, mBitmap, listVars, camera, prefs, overtaken,
                         disturbed>>
        BY <1>1 DEF kill
    <2>2. deaths' \in 0..MaxDeaths
        BY <1>0, <2>1, CalibAssumption DEF StoredType
    <2>3. StoredType' /\ WorkerInStep'
        BY <1>0, <2>1, <2>2 DEF StoredType, WorkerInStep
    <2>4. WorkerType' /\ UiType' /\ CameraType'
        BY <1>0, <2>1 DEF WorkerType, UiType, CameraType
    <2> QED
        BY <2>3, <2>4 DEF TypeInv, TypeOK
<1>2. CASE restart
    <2>1. MaxClicks \in Nat /\ Depth \in Nat /\ 0 \notin Task
        BY CalibAssumption DEF Task
    <2>2. /\ life' = "alive" /\ tasks' = <<>> /\ task' = 0 /\ pc' = "idle" /\ uiQueue' = <<>>
          /\ post' = [at |-> "none", task |-> 0] /\ shown' = <<0, 0>> /\ mBitmap' = <<0, 0>>
          /\ maxValList' = <<>> /\ maxIntensityIndex' = 0 /\ globalLogit' = <<>>
          /\ cameraReady' = TRUE /\ meanVal' = Dark /\ mState' = 0 /\ repeating' = TRUE
          /\ results' = 0 /\ completions' = 0 /\ exposed' = <<>> /\ reader' = <<>>
          /\ available' = 0
          /\ UNCHANGED <<clicks, n, best, lastmeanVal, slot, points, prefs, ghosts>>
        BY <1>2 DEF restart, STATE_PREVIEW
    <2>3. WorkerType'
        BY <1>0, <2>1, <2>2 DEF WorkerType
    <2>4. UiType'
        <3>1. post' \in [at : Keys \cup {"none"}, task : 0..MaxClicks]
            BY <2>1, <2>2
        <3> QED
            BY <2>2, <3>1, PatternTypes DEF UiType
    <2>5. CameraType' /\ meanVal'.val # Null
        <3>1. meanVal' \in Mean /\ meanVal'.val # Null
            BY <2>2, PatternTypes
        <3>2. cameraReady' \in BOOLEAN /\ repeating' \in BOOLEAN
            BY <2>2
        <3> QED
            BY <2>1, <2>2, <3>1, <3>2 DEF CameraType
    <2>6. StoredType'
        <3>1. overtaken' \in BOOLEAN
            BY <1>2 DEF restart
        <3> QED
            BY <1>0, <2>2, <3>1 DEF StoredType
    <2>7. WorkerInStep'
        BY <2>1, <2>2, <2>5 DEF WorkerInStep
    <2> QED
        BY <2>3, <2>4, <2>5, <2>6, <2>7 DEF TypeInv, TypeOK
<1> QED
    BY <1>1, <1>2

(* TypeInv is inductive.                                                   *)
LEMMA NextTyped == TypeInv /\ [Next]_vars => TypeInv'
<1> SUFFICES ASSUME TypeInv, [Next]_vars PROVE TypeInv'
    OBVIOUS
<1>1. CASE UNCHANGED vars
    BY <1>1 DEF TypeInv, TypeOK, WorkerType, UiType, CameraType, StoredType, WorkerInStep
<1>2. CASE Next
    BY <1>2, ClickTyped, WorkerTyped, LooperTyped, UiTyped, LifeTyped DEF Next
<1> QED
    BY <1>1, <1>2

(* The calibration is well typed: the counters of doInBackground stay in   *)
(* range, and getMaxIndex and normalize give an index and a map although   *)
(* the list may be shared, too long or full of zeros.                      *)
THEOREM CalibTypeCorrect == Spec => []TypeOK
<1>1. TypeInv => TypeOK
    BY DEF TypeInv
<1> QED
    BY <1>1, InitTyped, NextTyped, PTL DEF Spec

------------------------------------------------------------------------------
(* The lamp and the camera.                                                *)

(* A message for the UI thread is the last of its queue.                   *)
LEMMA Published ==
    ASSUME TypeOK, NEW m \in Message, uiQueue' = Append(uiQueue, m)
    PROVE  /\ Len(uiQueue) \in Nat /\ Len(uiQueue') = Len(uiQueue) + 1
           /\ \A i \in 1..Len(uiQueue) : uiQueue'[i] = uiQueue[i]
           /\ uiQueue'[Len(uiQueue) + 1] = m
           /\ \A i \in 1..Len(uiQueue') : i \in 1..Len(uiQueue) \/ i = Len(uiQueue) + 1
<1>1. uiQueue \in Seq(Message)
    BY DEF TypeOK, UiType
<1>2. /\ Len(uiQueue) \in Nat /\ Len(uiQueue') = Len(uiQueue) + 1
      /\ \A i \in 1..Len(uiQueue) : uiQueue'[i] = uiQueue[i]
      /\ uiQueue'[Len(uiQueue) + 1] = m
    BY <1>1, AppendFacts
<1> QED
    BY <1>2

(* The first message leaves the queue of the UI thread.                    *)
LEMMA Received ==
    ASSUME TypeOK, uiQueue # <<>>, uiQueue' = Tail(uiQueue)
    PROVE  /\ Len(uiQueue) \in Nat \ {0} /\ Len(uiQueue') = Len(uiQueue) - 1
           /\ Head(uiQueue) = uiQueue[1] /\ 1 \in 1..Len(uiQueue) /\ Head(uiQueue) \in Message
           /\ \A i \in 1..Len(uiQueue') :
                i + 1 \in 1..Len(uiQueue) /\ uiQueue'[i] = uiQueue[i + 1]
           /\ \A i \in 1..Len(uiQueue) : i = 1 \/ (i - 1 \in 1..Len(uiQueue') /\ uiQueue'[i - 1] = uiQueue[i])
<1>1. /\ Len(uiQueue) \in Nat \ {0} /\ Len(uiQueue') = Len(uiQueue) - 1
      /\ Head(uiQueue) = uiQueue[1] /\ 1 \in 1..Len(uiQueue) /\ Head(uiQueue) \in Message
      /\ \A i \in 1..Len(uiQueue') :
            i + 1 \in 1..Len(uiQueue) /\ uiQueue'[i] = uiQueue[i + 1]
    BY TailFacts DEF TypeOK, UiType
<1>2. ASSUME NEW i \in 1..Len(uiQueue), i # 1
      PROVE  i - 1 \in 1..Len(uiQueue') /\ uiQueue'[i - 1] = uiQueue[i]
    <2>1. i - 1 \in 1..Len(uiQueue') /\ (i - 1) + 1 = i
        BY <1>1, <1>2
    <2> QED
        BY <1>1, <2>1
<1> QED
    BY <1>1, <1>2

(* The projector follows mBitmap: every drawing is announced, and pictures *)
(* are asked for when it has been shown.                                   *)
LEMMA NextLamp == ASSUME SleepSuffices PROVE TypeInv /\ LampInStep /\ Next => LampInStep'
<1> SUFFICES ASSUME TypeInv, LampInStep, Next PROVE LampInStep'
    OBVIOUS
<1>0. TypeOK /\ WorkerInStep
    BY DEF TypeInv
<1>1. ASSUME UNCHANGED <<uiQueue, shown, mBitmap>>,
             pc' \in {"settle", "lock", "wait"} => pc \in {"settle", "lock", "wait"},
             pc' \in {"lock", "wait"} => NoProgress,
             pc' \in {"settle", "lock", "wait"} => UNCHANGED <<n, best>>
      PROVE  LampInStep'
    BY <1>1 DEF LampInStep, NoProgress, getCircle
<1>2. CASE btnCalibrate \/ Looper \/ kill \/ save
    <2>1. UNCHANGED <<uiQueue, shown, mBitmap, pc, n, best>>
        BY <1>2 DEF btnCalibrate, Looper, previewResult, resultAdvances, resultIgnored,
            unlockFocus, imageReady, onImageAvailable, LooperOnly, kill, save, UiOnly
    <2> QED
        BY <1>1, <2>1 DEF LampInStep
<1>3. CASE restart
    <2>1. shown' = mBitmap' /\ pc' = "idle"
        BY <1>3 DEF restart
    <2> QED
        BY <2>1 DEF LampInStep
<1>4. CASE start \/ draw
    <2>1. PICK t : t = task'
        OBVIOUS
    <2>2. /\ uiQueue' = Append(uiQueue, Progress(t)) /\ pc' \in {"draw", "settle"} /\ t \in Task
          /\ pc' = "settle" => mBitmap' = getCircle /\ UNCHANGED <<n, best>>
        <3>1. CASE start
            <4>1. tasks \in Seq(Task) /\ tasks # <<>> /\ t = Head(tasks)
                BY <1>0, <2>1, <3>1 DEF start, TypeOK, WorkerType
            <4>2. t \in Task
                BY <4>1, TailFacts
            <4> QED
                BY <2>1, <3>1, <4>2 DEF start
        <3>2. CASE draw
            BY <1>0, <2>1, <3>2 DEF draw, WorkerInStep
        <3> QED
            BY <1>4, <3>1, <3>2
    <2>3. Progress(t) \in Message /\ Progress(t).kind = "progress"
        BY <2>2, MessageTypes
    <2>4. ~NoProgress'
        <3>1. Len(uiQueue) + 1 \in 1..Len(uiQueue') /\ uiQueue'[Len(uiQueue) + 1] = Progress(t)
            BY <1>0, <2>2, <2>3, Published
        <3> QED
            BY <2>3, <3>1 DEF NoProgress
    <2> QED
        BY <2>2, <2>4 DEF LampInStep, getCircle
<1>5. CASE takePicture
    <2>1. pc = "settle" /\ pc' = "lock" /\ Settled
          /\ UNCHANGED <<uiQueue, shown, mBitmap, n, best>>
        BY <1>5 DEF takePicture, WorkerOnly
    <2>2. NoProgress
        BY <1>0, <2>1 DEF Settled, NoProgress, TypeOK, UiType
    <2> QED
        BY <1>1, <2>1, <2>2
<1>6. CASE takePictureLock \/ compare \/ addPoint \/ addReads \/ addWrites
    <2>1. /\ UNCHANGED <<uiQueue, shown, mBitmap>>
          /\ \/ pc = "lock" /\ pc' = "wait" /\ UNCHANGED <<n, best>>
             \/ pc' \in {"add", "draw", "store"}
        BY <1>6 DEF takePictureLock, compare, addPoint, addReads, addWrites, WorkerOnly
    <2> QED
        BY <1>1, <2>1 DEF LampInStep
<1>7. CASE finish
    <2>1. pc = "draw" /\ pc' = "idle" /\ UNCHANGED <<shown, mBitmap>>
          /\ uiQueue' = Append(uiQueue, [kind |-> "post", task |-> task])
        BY <1>7 DEF finish, WorkerOnly
    <2>2. [kind |-> "post", task |-> task] \in Message
        BY <1>0, <2>1, MessageTypes DEF WorkerInStep
    <2>3. NoProgress' => NoProgress
        BY <1>0, <2>1, <2>2, Published DEF NoProgress
    <2> QED
        BY <2>1, <2>3 DEF LampInStep
<1>8. CASE onProgressUpdate
    <2>1. /\ uiQueue # <<>> /\ Head(uiQueue).kind = "progress" /\ shown' = mBitmap
          /\ UNCHANGED <<mBitmap, pc, n, best>>
        BY <1>8 DEF onProgressUpdate, UiOnly
    <2>2. ~NoProgress
        <3>1. 1 \in 1..Len(uiQueue) /\ Head(uiQueue) = uiQueue[1]
            BY <1>0, <2>1, TailFacts DEF TypeOK, UiType
        <3> QED
            BY <2>1, <3>1 DEF NoProgress
    <2> QED
        BY <2>1, <2>2 DEF LampInStep, getCircle
<1>9. CASE onPostExecute
    <2>1. /\ uiQueue # <<>> /\ Head(uiQueue).kind = "post" /\ uiQueue' = Tail(uiQueue)
          /\ UNCHANGED <<shown, mBitmap, pc, n, best>>
        BY <1>9 DEF onPostExecute, UiOnly
    <2>2. NoProgress' <=> NoProgress
        <3>1. /\ Len(uiQueue) \in Nat \ {0} /\ Head(uiQueue) = uiQueue[1]
              /\ \A i \in 1..Len(uiQueue') :
                    i + 1 \in 1..Len(uiQueue) /\ uiQueue'[i] = uiQueue[i + 1]
              /\ \A i \in 1..Len(uiQueue) :
                    i = 1 \/ (i - 1 \in 1..Len(uiQueue') /\ uiQueue'[i - 1] = uiQueue[i])
            BY <1>0, <2>1, Received
        <3>2. NoProgress => NoProgress'
            BY <3>1 DEF NoProgress
        <3>3. ASSUME NoProgress', NEW i \in 1..Len(uiQueue) PROVE uiQueue[i].kind # "progress"
            <4>1. CASE i = 1
                BY <2>1, <3>1, <4>1
            <4>2. CASE i # 1
                BY <3>1, <3>3, <4>2 DEF NoProgress
            <4> QED
                BY <4>1, <4>2
        <3> QED
            BY <3>2, <3>3 DEF NoProgress
    <2> QED
        BY <2>1, <2>2 DEF LampInStep, getCircle
<1> QED
    BY <1>2, <1>3, <1>4, <1>5, <1>6, <1>7, <1>8, <1>9 DEF Next, Worker, Ui

(* One picture at a time, exposed to the pattern that was drawn for it.    *)
LEMMA NextCamera ==
    ASSUME SleepSuffices, ReportsAf
    PROVE  TypeInv /\ LampInStep /\ CameraInStep /\ Next => CameraInStep'
<1> SUFFICES ASSUME TypeInv, LampInStep, CameraInStep, Next PROVE CameraInStep'
    OBVIOUS
<1> USE DEF STATE_PREVIEW, STATE_PICTURE_TAKEN, STATE_WAITING_LOCK, STATE_WAITING_PRECAPTURE,
            STATE_WAITING_NON_PRECAPTURE, OpenRequest
<1>0. /\ TypeOK /\ WorkerInStep /\ exposed \in Seq(Pattern) /\ reader \in Seq(Pattern)
      /\ completions \in Nat /\ available \in Nat /\ shown \in Pattern
      /\ Len(exposed) \in Nat /\ Len(reader) \in Nat
      /\ (exposed = <<>> <=> Len(exposed) = 0) /\ (reader = <<>> <=> Len(reader) = 0)
    BY DEF TypeInv, TypeOK, CameraType, UiType
<1>1. ASSUME UNCHANGED <<pc, n, best, camera>> PROVE CameraInStep'
    BY <1>1 DEF CameraInStep, Lit, getCircle
<1>2. CASE btnCalibrate \/ kill \/ Ui
    BY <1>1, <1>2 DEF btnCalibrate, kill, Ui, UiOnly, onProgressUpdate, onPostExecute, save
<1>3. CASE restart
    BY <1>3 DEF restart, CameraInStep, Lit
<1>4. ASSUME UNCHANGED <<meanVal, mState, exposed, reader, available, cameraReady>>,
             exposed = <<>>, reader = <<>>, mState \notin 1..3, pc' \notin {"lock", "wait"},
             pc' \in {"add", "store"} => meanVal.lit = getCircle'
      PROVE  CameraInStep'
    BY <1>4 DEF CameraInStep, Lit
<1>5. CASE start \/ draw \/ finish
    <2>1. /\ pc \in {"idle", "draw"} /\ pc' \in {"idle", "draw", "settle"}
          /\ UNCHANGED camera
        BY <1>5 DEF start, draw, finish
    <2>2. exposed = <<>> /\ reader = <<>> /\ mState \notin 1..3
        BY <2>1 DEF CameraInStep
    <2> QED
        BY <1>4, <2>1, <2>2
<1>6. CASE takePicture
    <2>1. /\ pc = "settle" /\ pc' = "lock" /\ Settled /\ cameraReady' = FALSE
          /\ UNCHANGED <<n, best, meanVal, mState, completions, exposed, reader, available>>
        BY <1>6 DEF takePicture
    <2>2. exposed = <<>> /\ reader = <<>> /\ mState \notin 1..3
        BY <1>0, <2>1 DEF Settled, CameraInStep
    <2> QED
        BY <2>1, <2>2 DEF CameraInStep, Lit
<1>7. CASE takePictureLock
    <2>1. /\ pc = "lock" /\ pc' = "wait" /\ mState' = 1
          /\ UNCHANGED <<n, best, meanVal, completions, exposed, reader, available, cameraReady>>
        BY <1>7 DEF takePictureLock
    <2>2. exposed = <<>> /\ reader = <<>> /\ ~cameraReady
        BY <2>1 DEF CameraInStep
    <2> QED
        BY <2>1, <2>2 DEF CameraInStep, Lit
<1>8. CASE compare \/ addPoint
    <2>1. /\ pc = "wait" /\ cameraReady /\ UNCHANGED camera
          /\ \/ pc' = "add" /\ n < NPos /\ n' = n
             \/ pc' = "draw"
        BY <1>8 DEF compare, addPoint
    <2>2. exposed = <<>> /\ reader = <<>> /\ mState \notin 1..3 /\ meanVal.lit = getCircle
        BY <2>1 DEF CameraInStep
    <2>3. pc' = "add" => getCircle' = getCircle
        BY <2>1 DEF getCircle
    <2> QED
        BY <1>4, <2>1, <2>2, <2>3
<1>9. CASE addReads \/ addWrites
    <2>1. /\ pc \in {"add", "store"} /\ UNCHANGED camera
          /\ \/ pc' = "store" /\ UNCHANGED <<n, best>>
             \/ pc' = "draw"
        BY <1>9 DEF addReads, addWrites
    <2>2. exposed = <<>> /\ reader = <<>> /\ mState \notin 1..3 /\ meanVal.lit = getCircle
        BY <2>1 DEF CameraInStep
    <2>3. pc' = "store" => getCircle' = getCircle
        BY <2>1 DEF getCircle
    <2> QED
        BY <1>4, <2>1, <2>2, <2>3
<1>10. CASE Looper
    <2>0. UNCHANGED <<pc, n, best>> /\ getCircle' = getCircle
        BY <1>10 DEF Looper, previewResult, resultAdvances, resultIgnored, unlockFocus,
            imageReady, onImageAvailable, LooperOnly, getCircle
    <2>1. CASE previewResult \/ resultIgnored
        <3>1. UNCHANGED <<meanVal, mState, completions, exposed, reader, available, cameraReady>>
            BY <2>1 DEF previewResult, resultIgnored, ResultLeavesAlone, NoStill
        <3> QED
            BY <2>0, <3>1 DEF CameraInStep, Lit
    <2>2. CASE resultAdvances
        <3>1. PICK af \in AfStates, ae \in AeStates : process(af, ae)
            BY <2>2 DEF resultAdvances
        <3>2. UNCHANGED <<cameraReady, meanVal, reader, available>> /\ af # Null
            BY <2>2 DEF resultAdvances, ResultLeavesAlone, ReportsAf
        <3>3. /\ mState \in 1..3
              /\ \/ mState' \in 1..3 /\ UNCHANGED <<completions, exposed>>
                 \/ mState' = 4 /\ completions' = completions + 1
                    /\ exposed' = Append(exposed, shown)
            BY <3>1, <3>2 DEF process, captureStillPicture, runPrecaptureSequence, NoStill
        <3>4. pc = "wait" /\ ~cameraReady /\ exposed = <<>> /\ reader = <<>>
            BY <3>3 DEF CameraInStep
        <3>5. CASE mState' \in 1..3 /\ UNCHANGED <<completions, exposed>>
            BY <2>0, <3>2, <3>4, <3>5 DEF CameraInStep, Lit
        <3>6. CASE mState' = 4 /\ completions' = completions + 1
                   /\ exposed' = Append(exposed, shown)
            <4>1. shown = getCircle
                BY <3>4 DEF LampInStep
            <4>2. Len(exposed') = 1 /\ exposed'[1] = shown
                <5>1. Len(exposed) = 0
                    BY <1>0, <3>4
                <5>2. Len(exposed') = Len(exposed) + 1 /\ exposed'[Len(exposed) + 1] = shown
                    BY <1>0, <3>6, AppendFacts
                <5> QED
                    BY <5>1, <5>2
            <4>3. Lit(exposed)'
                BY <2>0, <4>1, <4>2 DEF Lit
            <4>4. Len(reader') = 0 /\ reader' = <<>>
                BY <1>0, <3>2, <3>4
            <4>5. Lit(reader)'
                BY <4>4 DEF Lit
            <4>6. Len(exposed') + Len(reader') <= 1 /\ available' = Len(reader')
                BY <3>2, <4>2, <4>4 DEF CameraInStep
            <4>7. pc' = "wait" /\ ~cameraReady'
                BY <2>0, <3>2, <3>4, <3>6
            <4> QED
                BY <3>6, <4>3, <4>5, <4>6, <4>7 DEF CameraInStep
        <3> QED
            BY <3>3, <3>5, <3>6
    <2>3. CASE unlockFocus
        <3>1. /\ completions > 0 /\ completions' = completions - 1 /\ mState' = 0
              /\ UNCHANGED <<cameraReady, meanVal, exposed, reader, available>>
            BY <2>3 DEF unlockFocus
        <3> QED
            BY <2>0, <3>1 DEF CameraInStep, Lit
    <2>4. CASE imageReady
        <3>1. /\ exposed # <<>> /\ reader' = Append(reader, Head(exposed))
              /\ exposed' = Tail(exposed) /\ available' = available + 1
              /\ UNCHANGED <<cameraReady, meanVal, mState, completions>>
            BY <2>4 DEF imageReady
        <3>2. Len(exposed) = 1 /\ Len(reader) = 0 /\ pc = "wait" /\ ~cameraReady
              /\ available = 0 /\ mState \notin 1..3
            <4>1. Len(exposed) # 0 /\ Len(exposed) + Len(reader) <= 1 /\ available = Len(reader)
                BY <1>0, <3>1 DEF CameraInStep
            <4>2. PICK a, b : a = Len(exposed) /\ b = Len(reader)
                OBVIOUS
            <4>n. a \in Nat /\ b \in Nat /\ a # 0 /\ a + b <= 1 /\ available = b
                BY <1>0, <4>1, <4>2
            <4>4. a = 1 /\ b = 0
                BY <4>n
            <4>3. pc = "wait" /\ ~cameraReady /\ mState \notin 1..3
                BY <3>1 DEF CameraInStep
            <4> QED
                BY <4>2, <4>3, <4>n, <4>4
        <3>3. Head(exposed) = getCircle /\ Head(exposed) \in Pattern /\ Len(exposed') = 0
            <4>1. Head(exposed) = exposed[1] /\ 1 \in 1..Len(exposed) /\ Head(exposed) \in Pattern
                  /\ Len(exposed') = Len(exposed) - 1
                BY <1>0, <3>1, TailFacts
            <4> QED
                BY <3>2, <4>1 DEF CameraInStep, Lit
        <3>4. Len(reader') = 1 /\ reader'[1] = getCircle
            <4>1. Len(reader') = Len(reader) + 1 /\ reader'[Len(reader) + 1] = Head(exposed)
                BY <1>0, <3>1, <3>3, AppendFacts
            <4> QED
                BY <3>2, <3>3, <4>1
        <3>5. Lit(exposed)' /\ Lit(reader)'
            BY <2>0, <3>3, <3>4 DEF Lit
        <3>6. available' = Len(reader') /\ Len(exposed') + Len(reader') <= 1
            BY <3>1, <3>2, <3>3, <3>4
        <3>7. pc' = "wait" /\ ~cameraReady'
            BY <2>0, <3>1, <3>2
        <3> QED
            BY <3>1, <3>2, <3>5, <3>6, <3>7 DEF CameraInStep
    <2>5. CASE onImageAvailable
        <3>1. /\ available > 0 /\ available' = available - 1 /\ reader' = <<>>
              /\ UNCHANGED <<mState, completions, exposed>>
              /\ reader # <<>> => cameraReady' = TRUE /\ meanVal'.lit = reader[Len(reader)]
            BY <2>5 DEF onImageAvailable
        <3>2. Len(reader) = 1 /\ Len(exposed) = 0 /\ pc = "wait" /\ mState \notin 1..3
              /\ available = 1
            BY <1>0, <3>1 DEF CameraInStep
        <3>3. reader # <<>> /\ exposed = <<>>
            BY <1>0, <3>2
        <3>4. meanVal'.lit = getCircle' /\ cameraReady'
            BY <2>0, <3>1, <3>2, <3>3 DEF CameraInStep, Lit
        <3>5. available' = Len(reader') /\ Len(exposed') + Len(reader') <= 1
            BY <3>1, <3>2
        <3>6. Lit(exposed)' /\ Lit(reader)' /\ exposed' = <<>> /\ reader' = <<>> /\ pc' = "wait"
            BY <2>0, <3>1, <3>2, <3>3 DEF Lit
        <3>7. mState' \notin 1..3
            BY <3>1, <3>2
        <3> QED
            BY <3>4, <3>5, <3>6, <3>7 DEF CameraInStep
    <2> QED
        BY <1>10, <2>1, <2>2, <2>3, <2>4, <2>5 DEF Looper
<1> QED
    BY <1>2, <1>3, <1>5, <1>6, <1>7, <1>8, <1>9, <1>10 DEF Next, Worker

------------------------------------------------------------------------------
(* The order of the tasks and of the commits.                              *)

(* The tasks the five commits belong to.                                   *)
LEMMA CommitTypes ==
    ASSUME TypeOK
    PROVE  /\ Commit[1] = prefs.Maxint.task /\ Commit[2] = prefs.Gamma.task
           /\ Commit[3] = prefs.maxValPosX /\ Commit[4] = prefs.maxValPosY
           /\ Commit[5] = prefs.Centerposition.task
           /\ \A i \in 1..5 : Commit[i] \in 0..MaxClicks /\ Commit[i] \in Nat
<1>1. /\ Commit[1] = prefs.Maxint.task /\ Commit[2] = prefs.Gamma.task
      /\ Commit[3] = prefs.maxValPosX /\ Commit[4] = prefs.maxValPosY
      /\ Commit[5] = prefs.Centerposition.task
    BY DEF Commit
<1>2. /\ Commit[1] \in 0..MaxClicks /\ Commit[2] \in 0..MaxClicks /\ Commit[3] \in 0..MaxClicks
      /\ Commit[4] \in 0..MaxClicks /\ Commit[5] \in 0..MaxClicks
    <2>1. prefs \in Stored
        BY DEF TypeOK, StoredType
    <2> QED
        BY <1>1, <2>1 DEF Stored
<1>3. \A i \in 1..5 : i = 1 \/ i = 2 \/ i = 3 \/ i = 4 \/ i = 5
    OBVIOUS
<1>4. \A i \in 1..5 : Commit[i] \in 0..MaxClicks
    BY <1>2, <1>3
<1> QED
    BY <1>1, <1>4, CalibAssumption

(* A save changes the commit of its key only.                              *)
LEMMA SaveStep ==
    ASSUME TypeOK, save
    PROVE  /\ post.at \in Keys /\ Rank[post.at] \in 1..5
           /\ Commit'[Rank[post.at]] = post.task
           /\ \A i \in 1..5 : i # Rank[post.at] => Commit'[i] = Commit[i]
           /\ IF Rank[post.at] = 5 THEN post'.at = "none" /\ post'.task = 0
              ELSE post'.at \in Keys /\ Rank[post'.at] = Rank[post.at] + 1
                   /\ post'.task = post.task
           /\ prefs' = [prefs EXCEPT ![post.at] = ToSave(post.at, post.task)]
           /\ UNCHANGED <<clicks, workerVars, uiQueue, shown, mBitmap, listVars, camera, life, ghosts>>
<1>1. PICK k, t : k = post.at /\ t = post.task
    OBVIOUS
<1>2. /\ k # "none" /\ prefs' = [prefs EXCEPT ![k] = ToSave(k, t)]
      /\ post'.at = SaveAfter[k] /\ post'.task = IF SaveAfter[k] = "none" THEN 0 ELSE t
      /\ UNCHANGED <<clicks, workerVars, uiQueue, shown, mBitmap, listVars, camera, life, ghosts>>
    BY <1>1 DEF save, UiOnly
<1>3. k \in Keys
    BY <1>1, <1>2 DEF TypeOK, UiType
<1>4. prefs \in Stored
    BY DEF TypeOK, StoredType
<1>5. /\ Rank[k] \in 1..5
      /\ IF Rank[k] = 5 THEN SaveAfter[k] = "none"
         ELSE SaveAfter[k] \in Keys /\ SaveAfter[k] # "none" /\ Rank[SaveAfter[k]] = Rank[k] + 1
    <2>1. CASE k = "Maxint"
        BY <2>1 DEF Rank, SaveAfter, Keys
    <2>2. CASE k = "Gamma"
        BY <2>2 DEF Rank, SaveAfter, Keys
    <2>3. CASE k = "maxValPosX"
        BY <2>3 DEF Rank, SaveAfter, Keys
    <2>4. CASE k = "maxValPosY"
        BY <2>4 DEF Rank, SaveAfter, Keys
    <2>5. CASE k = "Centerposition"
        BY <2>5 DEF Rank, SaveAfter, Keys
    <2> QED
        BY <1>3, <2>1, <2>2, <2>3, <2>4, <2>5 DEF Keys
<1>6. \A i \in 1..5 : i = 1 \/ i = 2 \/ i = 3 \/ i = 4 \/ i = 5
    OBVIOUS
<1>7. Commit'[Rank[k]] = t /\ \A i \in 1..5 : i # Rank[k] => Commit'[i] = Commit[i]
    <2>0. /\ Commit'[1] = prefs'.Maxint.task /\ Commit'[2] = prefs'.Gamma.task
          /\ Commit'[3] = prefs'.maxValPosX /\ Commit'[4] = prefs'.maxValPosY
          /\ Commit'[5] = prefs'.Centerposition.task
        BY DEF Commit
    <2>c. /\ Commit[1] = prefs.Maxint.task /\ Commit[2] = prefs.Gamma.task
          /\ Commit[3] = prefs.maxValPosX /\ Commit[4] = prefs.maxValPosY
          /\ Commit[5] = prefs.Centerposition.task
        BY DEF Commit
    <2>1. CASE k = "Maxint"
        <3>1. Rank[k] = 1
            BY <2>1 DEF Rank
        <3>2. prefs'.Maxint = [task |-> t, list |-> maxValList]
              /\ prefs'.Gamma = prefs.Gamma /\ prefs'.maxValPosX = prefs.maxValPosX
              /\ prefs'.maxValPosY = prefs.maxValPosY /\ prefs'.Centerposition = prefs.Centerposition
            BY <1>2, <1>4, <2>1 DEF ToSave, Stored
        <3> QED
            BY <1>6, <2>0, <2>c, <3>1, <3>2
    <2>2. CASE k = "Gamma"
        <3>1. Rank[k] = 2
            BY <2>2 DEF Rank
        <3>2. prefs'.Gamma = [task |-> t, list |-> globalLogit]
              /\ prefs'.Maxint = prefs.Maxint /\ prefs'.maxValPosX = prefs.maxValPosX
              /\ prefs'.maxValPosY = prefs.maxValPosY /\ prefs'.Centerposition = prefs.Centerposition
            BY <1>2, <1>4, <2>2 DEF ToSave, Stored
        <3> QED
            BY <1>6, <2>0, <2>c, <3>1, <3>2
    <2>3. CASE k = "maxValPosX"
        <3>1. Rank[k] = 3
            BY <2>3 DEF Rank
        <3>2. prefs'.maxValPosX = t
              /\ prefs'.Maxint = prefs.Maxint /\ prefs'.Gamma = prefs.Gamma
              /\ prefs'.maxValPosY = prefs.maxValPosY /\ prefs'.Centerposition = prefs.Centerposition
            BY <1>2, <1>4, <2>3 DEF ToSave, Stored
        <3> QED
            BY <1>6, <2>0, <2>c, <3>1, <3>2
    <2>4. CASE k = "maxValPosY"
        <3>1. Rank[k] = 4
            BY <2>4 DEF Rank
        <3>2. prefs'.maxValPosY = t
              /\ prefs'.Maxint = prefs.Maxint /\ prefs'.Gamma = prefs.Gamma
              /\ prefs'.maxValPosX = prefs.maxValPosX /\ prefs'.Centerposition = prefs.Centerposition
            BY <1>2, <1>4, <2>4 DEF ToSave, Stored
        <3> QED
            BY <1>6, <2>0, <2>c, <3>1, <3>2
    <2>5. CASE k = "Centerposition"
        <3>1. Rank[k] = 5
            BY <2>5 DEF Rank
        <3>2. prefs'.Centerposition = [task |-> t, index |-> maxIntensityIndex]
              /\ prefs'.Maxint = prefs.Maxint /\ prefs'.Gamma = prefs.Gamma
              /\ prefs'.maxValPosX = prefs.maxValPosX /\ prefs'.maxValPosY = prefs.maxValPosY
            BY <1>2, <1>4, <2>5 DEF ToSave, Stored
        <3> QED
            BY <1>6, <2>0, <2>c, <3>1, <3>2
    <2> QED
        BY <1>3, <2>1, <2>2, <2>3, <2>4, <2>5 DEF Keys
<1> QED
    BY <1>1, <1>2, <1>3, <1>5, <1>7

(* What a step other than a save and a restart does to the preferences and *)
(* to onPostExecute.                                                       *)
LEMMA PostStep ==
    ASSUME Next, ~save, ~restart
    PROVE  /\ UNCHANGED prefs /\ Commit' = Commit
           /\ \/ onPostExecute /\ life' \in {"exception", "diverged"} /\ UNCHANGED post
              \/ /\ onPostExecute /\ life' = life
                 /\ post' = [at |-> "Maxint", task |-> Head(uiQueue).task]
              \/ ~onPostExecute /\ UNCHANGED post
<1>1. UNCHANGED prefs
    BY DEF Next, btnCalibrate, Worker, WorkerOnly, start, draw, takePicture, takePictureLock,
        compare, addPoint, addReads, addWrites, finish, Looper, previewResult, resultAdvances,
        resultIgnored, unlockFocus, imageReady, onImageAvailable, LooperOnly, Ui,
        onProgressUpdate, onPostExecute, kill
<1>2. ~onPostExecute => UNCHANGED post
    BY DEF Next, btnCalibrate, Worker, WorkerOnly, start, draw, takePicture, takePictureLock,
        compare, addPoint, addReads, addWrites, finish, Looper, previewResult, resultAdvances,
        resultIgnored, unlockFocus, imageReady, onImageAvailable, LooperOnly, Ui,
        onProgressUpdate, kill
<1>3. onPostExecute => \/ life' \in {"exception", "diverged"} /\ UNCHANGED post
                       \/ life' = life /\ post' = [at |-> "Maxint", task |-> Head(uiQueue).task]
    BY DEF onPostExecute
<1>4. Commit' = Commit
    BY <1>1 DEF Commit
<1> QED
    BY <1>1, <1>2, <1>3, <1>4

(* Tasks pass through the executor, the worker and the UI thread in the    *)
(* order of the clicks.                                                    *)
LEMMA NextInOrder == TypeInv /\ TasksInOrder /\ Next => TasksInOrder'
<1> SUFFICES ASSUME TypeInv, TasksInOrder, Next PROVE TasksInOrder'
    OBVIOUS
<1>0. /\ TypeOK /\ WorkerInStep /\ tasks \in Seq(Task) /\ uiQueue \in Seq(Message)
      /\ clicks \in Nat /\ task \in Nat /\ post.task \in Nat
      /\ Task \subseteq Nat /\ 0 \notin Task
      /\ \A i \in 1..Len(tasks) : tasks[i] \in Task
      /\ \A i \in 1..Len(uiQueue) : uiQueue[i] \in Message /\ uiQueue[i].task \in Task
    <2>1. TypeOK /\ WorkerInStep /\ MaxClicks \in Nat
        BY CalibAssumption DEF TypeInv
    <2>2. tasks \in Seq(Task) /\ uiQueue \in Seq(Message) /\ clicks \in Nat /\ task \in Nat
          /\ post.task \in Nat
        BY <2>1 DEF TypeOK, WorkerType, UiType
    <2>3. \A m \in Message : m.task \in Task
        BY DEF Message
    <2>4. Task \subseteq Nat /\ 0 \notin Task
        BY <2>1 DEF Task
    <2> QED
        BY <2>1, <2>2, <2>3, <2>4
<1>1. \A i \in 1..5 : Commit[i] \in Nat
    BY <1>0, CommitTypes
<1>z. BeforePosted(0)
    <2>1. \A t \in Task : 0 < t
        BY <1>0
    <2>2. \A i \in 1..Len(tasks) : 0 < tasks[i]
        BY <1>0, <2>1
    <2>3. \A i \in 1..Len(uiQueue) : 0 < uiQueue[i].task
        BY <1>0, <2>1
    <2>4. 0 <= clicks /\ (task # 0 => 0 < task)
        BY <1>0
    <2> QED
        BY <2>2, <2>3, <2>4 DEF BeforePosted, BeforeWorker, BeforeQueued
<1>2. ASSUME UNCHANGED <<clicks, tasks, task, post, prefs>>,
             \A i \in 1..Len(uiQueue') : IsPost(uiQueue'[i]) =>
                i \in 1..Len(uiQueue) /\ uiQueue'[i] = uiQueue[i],
             \A i \in 1..Len(uiQueue) : i \in 1..Len(uiQueue') /\ uiQueue'[i] = uiQueue[i]
      PROVE  TasksInOrder'
    <2>1. \A t \in Nat : BeforePosted(t) => BeforePosted(t)'
        BY <1>2 DEF BeforePosted, BeforeWorker, BeforeQueued
    <2>2. \A t \in Nat : BeforeWorker(t) => BeforeWorker(t)'
        BY <1>2 DEF BeforeWorker, BeforeQueued
    <2>3. \A j \in 1..Len(uiQueue') : IsPost(uiQueue'[j]) =>
            /\ BeforeWorker(uiQueue[j].task)'
            /\ \A i \in 1..(j - 1) : IsPost(uiQueue'[i]) => uiQueue'[i].task < uiQueue'[j].task
        <3> SUFFICES ASSUME NEW j \in 1..Len(uiQueue'), IsPost(uiQueue'[j])
                     PROVE  /\ BeforeWorker(uiQueue[j].task)'
                            /\ \A i \in 1..(j - 1) : IsPost(uiQueue'[i]) =>
                                    uiQueue'[i].task < uiQueue'[j].task
            OBVIOUS
        <3>1. j \in 1..Len(uiQueue) /\ uiQueue'[j] = uiQueue[j] /\ IsPost(uiQueue[j])
            BY <1>2
        <3>2. BeforeWorker(uiQueue[j].task)
            BY <3>1 DEF TasksInOrder
        <3>3. BeforeWorker(uiQueue[j].task)'
            BY <1>2, <3>1, <3>2 DEF BeforeWorker, BeforeQueued
        <3>4. \A i \in 1..(j - 1) : i \in 1..Len(uiQueue)
            BY <1>0, <3>1
        <3>5. \A i \in 1..(j - 1) : IsPost(uiQueue'[i]) => uiQueue'[i].task < uiQueue'[j].task
            BY <1>2, <3>1, <3>4 DEF TasksInOrder
        <3> QED
            BY <3>3, <3>5
    <2>4. Commit' = Commit
        BY <1>2 DEF Commit
    <2>5. BeforePosted(post.task)'
        BY <1>0, <1>2, <2>1 DEF TasksInOrder, BeforePosted, BeforeWorker, BeforeQueued
    <2>6. \A i \in 1..5 : BeforePosted(Commit[i])'
        BY <1>1, <2>1, <2>4 DEF TasksInOrder, BeforePosted, BeforeWorker, BeforeQueued
    <2>7. BeforeQueued(task)'
        BY <1>2 DEF TasksInOrder, BeforeQueued
    <2>8. \A j \in 1..Len(tasks') :
            tasks'[j] <= clicks' /\ \A i \in 1..(j - 1) : tasks'[i] < tasks'[j]
        BY <1>2 DEF TasksInOrder
    <2> QED
        BY <2>3, <2>5, <2>6, <2>7, <2>8 DEF TasksInOrder
<1>3. CASE btnCalibrate
    <2>1. /\ clicks' = clicks + 1 /\ tasks' = Append(tasks, clicks + 1) /\ clicks + 1 \in Task
          /\ UNCHANGED <<task, uiQueue, post, prefs>>
        <3>1. clicks < MaxClicks /\ clicks' = clicks + 1 /\ tasks' = Append(tasks, clicks')
              /\ UNCHANGED <<task, uiQueue, post, prefs>>
            BY <1>3 DEF btnCalibrate
        <3>2. clicks + 1 \in Task
            BY <1>0, <3>1, CalibAssumption DEF Task
        <3> QED
            BY <3>1, <3>2
    <2>2. /\ Len(tasks) \in Nat /\ Len(tasks') = Len(tasks) + 1
          /\ \A i \in 1..Len(tasks) : tasks'[i] = tasks[i]
          /\ tasks'[Len(tasks) + 1] = clicks + 1
        BY <1>0, <2>1, AppendFacts
    <2>3. \A i \in 1..Len(tasks') : i \in 1..Len(tasks) \/ i = Len(tasks) + 1
        BY <2>2
    <2>4. \A t \in Nat : BeforeQueued(t) => BeforeQueued(t)'
        BY <1>0, <2>1, <2>2, <2>3 DEF BeforeQueued
    <2>5. \A t \in Nat : BeforeWorker(t) => BeforeWorker(t)'
        BY <2>1, <2>4 DEF BeforeWorker
    <2>6. \A t \in Nat : BeforePosted(t) => BeforePosted(t)'
        BY <2>1, <2>5 DEF BeforePosted
    <2>7. \A j \in 1..Len(tasks') :
            tasks'[j] <= clicks' /\ \A i \in 1..(j - 1) : tasks'[i] < tasks'[j]
        <3> SUFFICES ASSUME NEW j \in 1..Len(tasks')
                     PROVE  tasks'[j] <= clicks' /\ \A i \in 1..(j - 1) : tasks'[i] < tasks'[j]
            OBVIOUS
        <3>1. \A i \in 1..Len(tasks) : tasks[i] <= clicks /\ tasks[i] \in Nat
            BY <1>0 DEF TasksInOrder
        <3>2. CASE j = Len(tasks) + 1
            <4>1. \A i \in 1..(j - 1) : i \in 1..Len(tasks)
                BY <2>2, <3>2
            <4> QED
                BY <1>0, <2>1, <2>2, <3>1, <3>2, <4>1
        <3>3. CASE j \in 1..Len(tasks)
            <4>1. \A i \in 1..(j - 1) : i \in 1..Len(tasks)
                BY <2>2, <3>3
            <4>2. \A i \in 1..(j - 1) : tasks'[i] < tasks'[j]
                BY <2>2, <3>3, <4>1 DEF TasksInOrder
            <4> QED
                BY <1>0, <2>1, <2>2, <3>1, <3>3, <4>2
        <3> QED
            BY <2>3, <3>2, <3>3
    <2>8. BeforeQueued(task)' /\ BeforePosted(post.task)'
        BY <1>0, <2>1, <2>4, <2>6 DEF TasksInOrder, BeforeQueued, BeforeWorker, BeforePosted
    <2>9. \A j \in 1..Len(uiQueue') : IsPost(uiQueue'[j]) => BeforeWorker(uiQueue[j].task)'
        BY <1>0, <2>1, <2>5 DEF TasksInOrder, BeforeQueued, BeforeWorker
    <2>10. \A i \in 1..5 : BeforePosted(Commit[i])'
        <3>1. Commit' = Commit
            BY <2>1 DEF Commit
        <3> QED
            BY <1>1, <2>6, <3>1 DEF TasksInOrder, BeforeQueued, BeforeWorker, BeforePosted
    <2> QED
        BY <2>1, <2>7, <2>8, <2>9, <2>10 DEF TasksInOrder
<1>4. CASE start
    <2>1. /\ pc = "idle" /\ tasks # <<>> /\ task' = Head(tasks) /\ tasks' = Tail(tasks)
          /\ uiQueue' = Append(uiQueue, Progress(task'))
          /\ UNCHANGED <<clicks, post, prefs>>
        BY <1>4 DEF start, WorkerOnly
    <2>2. /\ task' = tasks[1] /\ 1 \in 1..Len(tasks) /\ task' \in Task
          /\ Len(tasks) \in Nat /\ Len(tasks') = Len(tasks) - 1
          /\ \A i \in 1..Len(tasks') : i + 1 \in 1..Len(tasks) /\ tasks'[i] = tasks[i + 1]
        BY <1>0, <2>1, TailFacts
    <2>3. PICK m \in Message : uiQueue' = Append(uiQueue, m) /\ ~IsPost(m)
        <3>1. PICK t : t = task'
            OBVIOUS
        <3> QED
            BY <2>1, <2>2, <3>1, MessageTypes
    <2>4. /\ Len(uiQueue) \in Nat /\ Len(uiQueue') = Len(uiQueue) + 1
          /\ \A i \in 1..Len(uiQueue) : uiQueue'[i] = uiQueue[i]
          /\ \A i \in 1..Len(uiQueue') : IsPost(uiQueue'[i]) =>
                i \in 1..Len(uiQueue) /\ uiQueue'[i] = uiQueue[i]
        BY <1>0, <2>3, Published
    <2>5. \A t \in Nat : BeforeQueued(t) => BeforeWorker(t)'
        BY <2>1, <2>2 DEF BeforeQueued, BeforeWorker
    <2>6. \A t \in Nat : BeforePosted(t) => BeforePosted(t)'
        BY <2>4, <2>5 DEF BeforePosted, BeforeWorker
    <2>7. \A j \in 1..Len(tasks') :
            tasks'[j] <= clicks' /\ \A i \in 1..(j - 1) : tasks'[i] < tasks'[j]
        <3> SUFFICES ASSUME NEW j \in 1..Len(tasks')
                     PROVE  tasks'[j] <= clicks' /\ \A i \in 1..(j - 1) : tasks'[i] < tasks'[j]
            OBVIOUS
        <3>1. j + 1 \in 1..Len(tasks) /\ tasks'[j] = tasks[j + 1]
            BY <2>2
        <3>2. \A i \in 1..(j - 1) :
                i \in 1..Len(tasks') /\ i + 1 \in 1..((j + 1) - 1) /\ tasks'[i] = tasks[i + 1]
            BY <2>2
        <3> QED
            BY <2>1, <3>1, <3>2 DEF TasksInOrder
    <2>8. BeforeQueued(task)'
        <3>1. \A i \in 1..Len(tasks') : task' < tasks'[i]
            <4> SUFFICES ASSUME NEW i \in 1..Len(tasks') PROVE task' < tasks'[i]
                OBVIOUS
            <4>1. i + 1 \in 1..Len(tasks) /\ tasks'[i] = tasks[i + 1] /\ 1 \in 1..((i + 1) - 1)
                BY <2>2
            <4> QED
                BY <2>2, <4>1 DEF TasksInOrder
        <3>2. task' <= clicks'
            BY <2>1, <2>2 DEF TasksInOrder
        <3> QED
            BY <3>1, <3>2 DEF BeforeQueued
    <2>9. BeforePosted(post.task)'
        BY <1>0, <2>1, <2>6 DEF TasksInOrder, BeforeQueued, BeforeWorker, BeforePosted
    <2>10. \A i \in 1..5 : BeforePosted(Commit[i])'
        <3>1. Commit' = Commit
            BY <2>1 DEF Commit
        <3> QED
            BY <1>1, <2>6, <3>1 DEF TasksInOrder, BeforeQueued, BeforeWorker, BeforePosted
    <2>11. \A j \in 1..Len(uiQueue') : IsPost(uiQueue'[j]) =>
            /\ BeforeWorker(uiQueue[j].task)'
            /\ \A i \in 1..(j - 1) : IsPost(uiQueue'[i]) => uiQueue'[i].task < uiQueue'[j].task
        <3> SUFFICES ASSUME NEW j \in 1..Len(uiQueue'), IsPost(uiQueue'[j])
                     PROVE  /\ BeforeWorker(uiQueue[j].task)'
                            /\ \A i \in 1..(j - 1) : IsPost(uiQueue'[i]) =>
                                    uiQueue'[i].task < uiQueue'[j].task
            OBVIOUS
        <3>1. j \in 1..Len(uiQueue) /\ uiQueue'[j] = uiQueue[j] /\ IsPost(uiQueue[j])
            BY <2>4
        <3>2. PICK t \in Nat : t = uiQueue[j].task
            BY <1>0, <3>1
        <3>3. BeforeWorker(t)'
            BY <2>5, <3>1, <3>2 DEF TasksInOrder, BeforeWorker
        <3>4. \A i \in 1..(j - 1) : i \in 1..Len(uiQueue)
            BY <2>4, <3>1
        <3>5. \A i \in 1..(j - 1) : IsPost(uiQueue'[i]) => uiQueue'[i].task < uiQueue'[j].task
            BY <2>4, <3>1, <3>4 DEF TasksInOrder
        <3> QED
            BY <3>1, <3>2, <3>3, <3>5 DEF BeforeWorker, BeforeQueued
    <2> QED
        BY <2>7, <2>8, <2>9, <2>10, <2>11 DEF TasksInOrder
<1>5. CASE draw
    <2>1. pc = "draw" /\ uiQueue' = Append(uiQueue, Progress(task))
          /\ UNCHANGED <<clicks, tasks, task, post, prefs>>
        BY <1>5 DEF draw, WorkerOnly
    <2>2. Progress(task) \in Message /\ ~IsPost(Progress(task))
        BY <1>0, <2>1, MessageTypes DEF WorkerInStep
    <2>3. /\ Len(uiQueue) \in Nat /\ Len(uiQueue') = Len(uiQueue) + 1
          /\ \A i \in 1..Len(uiQueue) : uiQueue'[i] = uiQueue[i]
          /\ \A i \in 1..Len(uiQueue') : IsPost(uiQueue'[i]) =>
                i \in 1..Len(uiQueue) /\ uiQueue'[i] = uiQueue[i]
        BY <1>0, <2>1, <2>2, Published
    <2> QED
        BY <1>2, <2>1, <2>3
<1>6. CASE finish
    <2>1. pc = "draw" /\ uiQueue' = Append(uiQueue, [kind |-> "post", task |-> task]) /\ task' = 0
          /\ UNCHANGED <<clicks, tasks, post, prefs>>
        BY <1>6 DEF finish, WorkerOnly
    <2>2. task \in Task /\ task # 0
        BY <1>0, <2>1 DEF WorkerInStep
    <2>3. PICK m \in Message : uiQueue' = Append(uiQueue, m) /\ IsPost(m) /\ m.task = task
        BY <2>1, <2>2, MessageTypes
    <2>4. /\ Len(uiQueue) \in Nat /\ Len(uiQueue') = Len(uiQueue) + 1
          /\ \A i \in 1..Len(uiQueue) : uiQueue'[i] = uiQueue[i]
          /\ uiQueue'[Len(uiQueue) + 1] = m
          /\ \A i \in 1..Len(uiQueue') : i \in 1..Len(uiQueue) \/ i = Len(uiQueue) + 1
        BY <1>0, <2>3, Published
    <2>5. \A t \in Nat : BeforeQueued(t) => BeforeWorker(t)'
        BY <2>1 DEF BeforeQueued, BeforeWorker
    <2>6. \A t \in Nat : BeforePosted(t) => BeforePosted(t)'
        <3> SUFFICES ASSUME NEW t \in Nat, BeforePosted(t) PROVE BeforePosted(t)'
            OBVIOUS
        <3>1. BeforeWorker(t)' /\ t < task
            BY <2>2, <2>5 DEF BeforePosted, BeforeWorker
        <3>2. \A i \in 1..Len(uiQueue') : IsPost(uiQueue'[i]) => t < uiQueue'[i].task
            BY <2>3, <2>4, <3>1 DEF BeforePosted
        <3> QED
            BY <3>1, <3>2 DEF BeforePosted
    <2>7. BeforeQueued(task)'
        <3>1. BeforeQueued(0)
            BY <1>z DEF BeforePosted, BeforeWorker
        <3> QED
            BY <2>1, <3>1 DEF BeforeQueued
    <2>8. BeforePosted(post.task)'
        BY <1>0, <2>1, <2>6 DEF TasksInOrder, BeforeQueued, BeforeWorker, BeforePosted
    <2>9. \A i \in 1..5 : BeforePosted(Commit[i])'
        <3>1. Commit' = Commit
            BY <2>1 DEF Commit
        <3> QED
            BY <1>1, <2>6, <3>1 DEF TasksInOrder, BeforeQueued, BeforeWorker, BeforePosted
    <2>10. \A j \in 1..Len(uiQueue') : IsPost(uiQueue'[j]) =>
            /\ BeforeWorker(uiQueue[j].task)'
            /\ \A i \in 1..(j - 1) : IsPost(uiQueue'[i]) => uiQueue'[i].task < uiQueue'[j].task
        <3> SUFFICES ASSUME NEW j \in 1..Len(uiQueue'), IsPost(uiQueue'[j])
                     PROVE  /\ BeforeWorker(uiQueue[j].task)'
                            /\ \A i \in 1..(j - 1) : IsPost(uiQueue'[i]) =>
                                    uiQueue'[i].task < uiQueue'[j].task
            OBVIOUS
        <3>0. \A i \in 1..(j - 1) : i \in 1..Len(uiQueue)
            BY <2>4
        <3>1. CASE j \in 1..Len(uiQueue)
            <4>1. uiQueue'[j] = uiQueue[j] /\ IsPost(uiQueue[j])
                BY <2>4, <3>1
            <4>2. PICK t \in Nat : t = uiQueue[j].task
                BY <1>0, <3>1
            <4>3. BeforeWorker(t)'
                BY <2>5, <3>1, <4>1, <4>2 DEF TasksInOrder, BeforeWorker
            <4>4. \A i \in 1..(j - 1) : IsPost(uiQueue'[i]) => uiQueue'[i].task < uiQueue'[j].task
                BY <2>4, <3>0, <3>1, <4>1 DEF TasksInOrder
            <4> QED
                BY <4>1, <4>2, <4>3, <4>4 DEF BeforeWorker, BeforeQueued
        <3>2. CASE j = Len(uiQueue) + 1
            <4>1. uiQueue'[j].task = task
                BY <2>3, <2>4, <3>2
            <4>2. BeforeQueued(task)
                BY DEF TasksInOrder
            <4>3. PICK t \in Nat : t = task
                BY <1>0
            <4>4. BeforeWorker(t)'
                BY <2>5, <4>2, <4>3
            <4>5. \A i \in 1..(j - 1) : IsPost(uiQueue'[i]) => uiQueue'[i].task < task
                BY <2>2, <2>4, <3>0 DEF TasksInOrder, BeforeWorker
            <4> QED
                BY <4>1, <4>3, <4>4, <4>5 DEF BeforeWorker, BeforeQueued
        <3> QED
            BY <2>4, <3>1, <3>2
    <2> QED
        BY <2>1, <2>7, <2>8, <2>9, <2>10 DEF TasksInOrder
<1>7. CASE onProgressUpdate \/ onPostExecute
    <2>1. /\ uiQueue # <<>> /\ uiQueue' = Tail(uiQueue) /\ UNCHANGED <<clicks, tasks, task, prefs>>
          /\ \/ UNCHANGED post
             \/ IsPost(Head(uiQueue)) /\ post'.task = Head(uiQueue).task
        BY <1>7 DEF onProgressUpdate, onPostExecute, UiOnly, IsPost
    <2>2. /\ Len(uiQueue) \in Nat \ {0} /\ Len(uiQueue') = Len(uiQueue) - 1
          /\ Head(uiQueue) = uiQueue[1] /\ 1 \in 1..Len(uiQueue)
          /\ \A i \in 1..Len(uiQueue') :
                i + 1 \in 1..Len(uiQueue) /\ uiQueue'[i] = uiQueue[i + 1]
        BY <1>0, <2>1, Received
    <2>3. \A t \in Nat : BeforeWorker(t) => BeforeWorker(t)'
        BY <2>1 DEF BeforeWorker, BeforeQueued
    <2>4. \A t \in Nat : BeforePosted(t) => BeforePosted(t)'
        BY <2>2, <2>3 DEF BeforePosted
    <2>5. \A j \in 1..Len(uiQueue') : IsPost(uiQueue'[j]) =>
            /\ BeforeWorker(uiQueue[j].task)'
            /\ \A i \in 1..(j - 1) : IsPost(uiQueue'[i]) => uiQueue'[i].task < uiQueue'[j].task
        <3> SUFFICES ASSUME NEW j \in 1..Len(uiQueue'), IsPost(uiQueue'[j])
                     PROVE  /\ BeforeWorker(uiQueue[j].task)'
                            /\ \A i \in 1..(j - 1) : IsPost(uiQueue'[i]) =>
                                    uiQueue'[i].task < uiQueue'[j].task
            OBVIOUS
        <3>1. j + 1 \in 1..Len(uiQueue) /\ uiQueue'[j] = uiQueue[j + 1]
            BY <2>2
        <3>2. PICK t \in Nat : t = uiQueue[j + 1].task
            BY <1>0, <3>1
        <3>3. BeforeWorker(t)'
            BY <2>3, <3>1, <3>2 DEF TasksInOrder
        <3>4. \A i \in 1..(j - 1) : /\ i \in 1..Len(uiQueue') /\ i + 1 \in 1..((j + 1) - 1)
                                    /\ uiQueue'[i] = uiQueue[i + 1]
            <4> SUFFICES ASSUME NEW i \in 1..(j - 1)
                         PROVE  /\ i \in 1..Len(uiQueue') /\ i + 1 \in 1..((j + 1) - 1)
                                /\ uiQueue'[i] = uiQueue[i + 1]
                OBVIOUS
            <4>1. PICK m : m = Len(uiQueue')
                OBVIOUS
            <4>2. m \in Nat
                BY <2>2, <4>1
            <4>3. j \in 1..m
                BY <4>1
            <4>4. i \in 1..m /\ i + 1 \in 1..((j + 1) - 1)
                BY <4>2, <4>3
            <4> QED
                BY <2>2, <4>1, <4>4
        <3>5. \A i \in 1..(j - 1) : IsPost(uiQueue'[i]) => uiQueue'[i].task < uiQueue'[j].task
            BY <3>1, <3>4 DEF TasksInOrder
        <3> QED
            BY <3>1, <3>2, <3>3, <3>5 DEF BeforeWorker, BeforeQueued
    <2>6. BeforePosted(post.task)'
        <3>1. CASE UNCHANGED post
            BY <1>0, <2>4, <3>1 DEF TasksInOrder, BeforeQueued, BeforeWorker, BeforePosted
        <3>2. CASE IsPost(Head(uiQueue)) /\ post'.task = Head(uiQueue).task
            <4>1. PICK t \in Nat : t = uiQueue[1].task
                BY <1>0, <2>2
            <4>2. post'.task = t /\ IsPost(uiQueue[1])
                BY <2>2, <3>2, <4>1
            <4>3. BeforeWorker(t)'
                BY <2>2, <2>3, <4>1, <4>2 DEF TasksInOrder
            <4>4. ASSUME NEW i \in 1..Len(uiQueue'), IsPost(uiQueue'[i]) PROVE t < uiQueue'[i].task
                <5>1. i + 1 \in 1..Len(uiQueue) /\ uiQueue'[i] = uiQueue[i + 1]
                      /\ 1 \in 1..((i + 1) - 1)
                    BY <2>2
                <5> QED
                    BY <4>1, <4>2, <4>4, <5>1 DEF TasksInOrder
            <4>5. BeforePosted(t)'
                BY <4>3, <4>4 DEF BeforePosted
            <4> QED
                BY <4>2, <4>5 DEF BeforePosted, BeforeWorker, BeforeQueued
        <3> QED
            BY <2>1, <3>1, <3>2
    <2>7. \A i \in 1..5 : BeforePosted(Commit[i])'
        <3>1. Commit' = Commit
            BY <2>1 DEF Commit
        <3> QED
            BY <1>1, <2>4, <3>1 DEF TasksInOrder, BeforeQueued, BeforeWorker, BeforePosted
    <2>8. BeforeQueued(task)' /\ \A j \in 1..Len(tasks') :
            tasks'[j] <= clicks' /\ \A i \in 1..(j - 1) : tasks'[i] < tasks'[j]
        BY <2>1 DEF TasksInOrder, BeforeQueued
    <2> QED
        BY <2>5, <2>6, <2>7, <2>8 DEF TasksInOrder
<1>8. CASE save
    <2>1. /\ UNCHANGED <<clicks, tasks, task, uiQueue>> /\ post'.task \in {0, post.task}
          /\ \A i \in 1..5 : Commit'[i] \in {post.task, Commit[i]}
        BY <1>0, <1>8, SaveStep
    <2>2. \A t \in Nat : BeforePosted(t) => BeforePosted(t)'
        BY <2>1 DEF BeforePosted, BeforeWorker, BeforeQueued
    <2>3. BeforePosted(post.task) /\ \A i \in 1..5 : BeforePosted(Commit[i])
        BY DEF TasksInOrder
    <2>4. BeforePosted(0)
        BY <1>z
    <2>5. BeforePosted(post.task)'
        <3>1. PICK t \in Nat : t = post'.task /\ BeforePosted(t)
            BY <1>0, <2>1, <2>3, <2>4
        <3>2. BeforePosted(t)'
            BY <2>2, <3>1
        <3> QED
            BY <3>1, <3>2 DEF BeforePosted, BeforeWorker, BeforeQueued
    <2>6. \A i \in 1..5 : BeforePosted(Commit[i])'
        <3> SUFFICES ASSUME NEW i \in 1..5 PROVE BeforePosted(Commit[i])'
            OBVIOUS
        <3>1. PICK t \in Nat : t = Commit'[i] /\ BeforePosted(t)
            BY <1>0, <1>1, <2>1, <2>3
        <3>2. BeforePosted(t)'
            BY <2>2, <3>1
        <3> QED
            BY <3>1, <3>2 DEF BeforePosted, BeforeWorker, BeforeQueued
    <2>7. /\ BeforeQueued(task)'
          /\ \A j \in 1..Len(tasks') :
                tasks'[j] <= clicks' /\ \A i \in 1..(j - 1) : tasks'[i] < tasks'[j]
          /\ \A j \in 1..Len(uiQueue') : IsPost(uiQueue'[j]) =>
                /\ BeforeWorker(uiQueue[j].task)'
                /\ \A i \in 1..(j - 1) : IsPost(uiQueue'[i]) => uiQueue'[i].task < uiQueue'[j].task
        BY <2>1 DEF TasksInOrder, BeforeQueued, BeforeWorker
    <2> QED
        BY <2>5, <2>6, <2>7 DEF TasksInOrder
<1>9. CASE restart
    <2>1. tasks' = <<>> /\ task' = 0 /\ uiQueue' = <<>> /\ post'.task = 0 /\ UNCHANGED <<clicks, prefs>>
        BY <1>9 DEF restart
    <2>2. Len(tasks') = 0 /\ Len(uiQueue') = 0
        BY <2>1
    <2>3. Commit' = Commit /\ \A i \in 1..5 : Commit[i] <= clicks
        BY <2>1 DEF Commit, TasksInOrder, BeforePosted, BeforeWorker, BeforeQueued
    <2>4. \A i \in 1..5 : BeforePosted(Commit[i])'
        BY <2>1, <2>2, <2>3 DEF BeforePosted, BeforeWorker, BeforeQueued
    <2>5. BeforePosted(post.task)' /\ BeforeQueued(task)'
        BY <1>0, <2>1, <2>2 DEF BeforePosted, BeforeWorker, BeforeQueued
    <2> QED
        BY <2>2, <2>4, <2>5 DEF TasksInOrder
<1>10. CASE kill \/ Looper \/ takePicture \/ takePictureLock \/ compare \/ addPoint \/ addReads
            \/ addWrites
    <2>1. UNCHANGED <<clicks, tasks, task, post, prefs, uiQueue>>
        BY <1>10 DEF kill, Looper, previewResult, resultAdvances, resultIgnored, unlockFocus,
            imageReady, onImageAvailable, LooperOnly, WorkerOnly, takePicture, takePictureLock,
            compare, addPoint, addReads, addWrites
    <2> QED
        BY <1>2, <2>1
<1> QED
    BY <1>3, <1>4, <1>5, <1>6, <1>7, <1>8, <1>9, <1>10 DEF Next, Worker, Ui

(* Counting the borders.                                                   *)
LEMMA CountSteps ==
    ASSUME NEW S, S \subseteq 1..4, NEW k
    PROVE  /\ Cardinality(S) \in Nat
           /\ k \in 1..4 => /\ Cardinality(S \cup {k}) \in Nat
                            /\ Cardinality(S \cup {k}) <= Cardinality(S) + 1
           /\ k \in S => Cardinality(S \ {k}) = Cardinality(S) - 1
<1>1. IsFiniteSet(1..4)
    <2>1. PICK T : T = 1..4
        OBVIOUS
    <2>2. T \in SUBSET Nat /\ 4 \in Nat /\ \A s \in T : s <= 4
        BY <2>1
    <2>3. IsFiniteSet(T)
        BY <2>2, FS_BoundedSetOfNaturals
    <2> QED
        BY <2>1, <2>3
<1>2. IsFiniteSet(S) /\ Cardinality(S) \in Nat
    BY <1>1, FS_Subset, FS_CardinalityType
<1>3. /\ IsFiniteSet(S \cup {k}) /\ Cardinality(S \cup {k}) \in Nat
      /\ Cardinality(S \cup {k}) = IF k \in S THEN Cardinality(S) ELSE Cardinality(S) + 1
    BY <1>2, FS_AddElement, FS_CardinalityType
<1>4. k \in S => Cardinality(S \ {k}) = Cardinality(S) - 1
    BY <1>2, FS_RemoveElement
<1> QED
    BY <1>2, <1>3, <1>4

(* Each commit of onPostExecute moves the border between two calibrations  *)
(* by one key; the last one removes it.                                    *)
LEMMA SaveInOrder == ASSUME TypeInv, SavingInOrder, save PROVE SavingInOrder'
<1> DEFINE k == Rank[post.at]
<1>0. TypeOK /\ Alive /\ post.at # "none" /\ post.task \in Nat
    BY DEF TypeInv, TypeOK, UiType, save
<1>1. /\ post.at \in Keys /\ k \in 1..5 /\ Commit'[k] = post.task
      /\ \A i \in 1..5 : i # k => Commit'[i] = Commit[i]
      /\ IF k = 5 THEN post'.at = "none" /\ post'.task = 0
         ELSE post'.at \in Keys /\ Rank[post'.at] = k + 1 /\ post'.task = post.task
      /\ UNCHANGED <<life, ghosts>>
    BY <1>0, SaveStep
<1>2. \A i \in 1..5 : Commit[i] \in Nat
    BY <1>0, CommitTypes
<1>3. \A i \in 1..5 : IF i < k THEN Commit[i] = post.task ELSE Commit[i] < post.task
    BY <1>0 DEF SavingInOrder
<1>4. post.task # 0 /\ (post.at = "Maxint" <=> k = 1)
    BY <1>0, <1>1 DEF SavingInOrder, Keys, Rank
<1>5. (post'.at = "none" <=> k = 5) /\ (k # 5 => post'.at # "Maxint")
    <2>1. "none" \notin Keys
        BY DEF Keys
    <2>2. Rank["Maxint"] = 1
        BY DEF Rank
    <2> QED
        BY <1>1, <2>1, <2>2
<1>6. \A i \in 1..5 : Commit'[i] = IF i <= k THEN post.task ELSE Commit[i]
    BY <1>1, <1>3
<1>7. Cardinality(Borders) <= deaths + IF k = 1 THEN 0 ELSE 1
    BY <1>0, <1>4 DEF SavingInOrder
<1>8. Borders \subseteq 1..4 /\ Borders' \subseteq 1..4 /\ deaths \in Nat /\ deaths' = deaths
    BY <1>0, <1>1, CalibAssumption DEF Borders, ghosts, TypeOK, StoredType
<1> HIDE DEF k
<1>9. \A i \in 1..4 : Commit'[i] >= Commit'[i + 1]
    <2> SUFFICES ASSUME NEW i \in 1..4 PROVE Commit'[i] >= Commit'[i + 1]
        OBVIOUS
    <2>1. i \in 1..5 /\ i + 1 \in 1..5 /\ Commit[i] >= Commit[i + 1]
        BY DEF SavingInOrder
    <2> QED
        BY <1>0, <1>1, <1>2, <1>3, <1>6, <2>1
<1>10. Cardinality(Borders') <= deaths + IF k = 5 THEN 0 ELSE 1
    <2>1. \A i \in 1..4 : i \in Borders' <=>
            IF i < k THEN FALSE ELSE IF i = k THEN TRUE ELSE i \in Borders
        <3> SUFFICES ASSUME NEW i \in 1..4
                     PROVE  i \in Borders' <=>
                        IF i < k THEN FALSE ELSE IF i = k THEN TRUE ELSE i \in Borders
            OBVIOUS
        <3>1. /\ i \in 1..5 /\ i + 1 \in 1..5 /\ (i \in Borders <=> Commit[i] # Commit[i + 1])
              /\ (i \in Borders' <=> Commit'[i] # Commit'[i + 1])
            BY DEF Borders
        <3> QED
            BY <1>0, <1>1, <1>2, <1>3, <1>6, <3>1
    <2>2. \A i \in 1..4 : i \in Borders => i >= k - 1
        <3> SUFFICES ASSUME NEW i \in 1..4, i < k - 1 PROVE i \notin Borders
            BY <1>1
        <3>1. i \in 1..5 /\ i + 1 \in 1..5 /\ i < k /\ i + 1 < k
            BY <1>1
        <3> QED
            BY <1>3, <3>1 DEF Borders
    <2>3. k # 1 => k - 1 \in Borders
        <3> SUFFICES ASSUME k # 1 PROVE k - 1 \in Borders
            OBVIOUS
        <3>1. k - 1 \in 1..4 /\ k - 1 \in 1..5 /\ (k - 1) + 1 = k /\ k - 1 < k /\ ~(k < k)
            BY <1>1
        <3>2. Commit[k - 1] = post.task /\ Commit[k] < post.task
            BY <1>1, <1>3, <3>1
        <3> QED
            BY <1>0, <1>1, <1>2, <3>1, <3>2 DEF Borders
    <2>4. CASE k = 1
        <3>1. k \in 1..4 /\ \A i \in 1..4 : i \in Borders' <=> i \in Borders \cup {k}
            BY <2>1, <2>4
        <3>2. Borders' = Borders \cup {k}
            BY <1>8, <3>1
        <3>3. /\ Cardinality(Borders') <= Cardinality(Borders) + 1
              /\ Cardinality(Borders) \in Nat /\ Cardinality(Borders') \in Nat
            BY <1>8, <3>1, <3>2, CountSteps
        <3> QED
            BY <1>7, <1>8, <2>4, <3>3
    <2>5. CASE k \in 2..4
        <3>1. PICK S : S = Borders \ {k - 1}
            OBVIOUS
        <3>a. S \subseteq 1..4 /\ k \in 1..4
            BY <1>8, <2>5, <3>1
        <3>b. \A i \in 1..4 : i \in Borders' <=> i \in S \cup {k}
            BY <2>1, <2>2, <2>5, <3>1
        <3>2. Borders' = S \cup {k} /\ S \subseteq 1..4 /\ k \in 1..4
            BY <1>8, <3>a, <3>b
        <3>3. Cardinality(S) = Cardinality(Borders) - 1 /\ Cardinality(Borders) \in Nat
            <4>1. PICK j : j = k - 1
                OBVIOUS
            <4>2. j \in Borders /\ S = Borders \ {j}
                BY <2>3, <2>5, <3>1, <4>1
            <4> QED
                BY <1>8, <4>2, CountSteps
        <3>4. Cardinality(Borders') <= Cardinality(S) + 1 /\ Cardinality(Borders') \in Nat
              /\ Cardinality(S) \in Nat
            BY <3>2, CountSteps
        <3> QED
            BY <1>7, <1>8, <2>5, <3>3, <3>4
    <2>6. CASE k = 5
        <3>a. 4 \in Borders /\ \A i \in 1..4 : i \in Borders' <=> i \in Borders \ {4}
            BY <2>1, <2>2, <2>3, <2>6
        <3>1. Borders' = Borders \ {4} /\ 4 \in Borders
            BY <1>8, <3>a
        <3>2. Cardinality(Borders') = Cardinality(Borders) - 1 /\ Cardinality(Borders) \in Nat
            BY <1>8, <3>1, CountSteps
        <3> QED
            BY <1>7, <1>8, <2>6, <3>2
    <2> QED
        BY <1>1, <2>4, <2>5, <2>6
<1>11. post'.at # "none" => \A i \in 1..5 :
        IF i < Rank[post'.at] THEN Commit'[i] = post'.task ELSE Commit'[i] < post'.task
    <2> SUFFICES ASSUME post'.at # "none", NEW i \in 1..5
                 PROVE  IF i < Rank[post'.at] THEN Commit'[i] = post'.task
                        ELSE Commit'[i] < post'.task
        OBVIOUS
    <2>1. k # 5 /\ Rank[post'.at] = k + 1 /\ post'.task = post.task
        BY <1>1, <1>5
    <2> QED
        BY <1>1, <1>3, <1>6, <2>1
<1>12. post'.at = "none" <=> post'.task = 0
    BY <1>1, <1>4, <1>5
<1>13. life' = "alive"
    BY <1>0, <1>1 DEF Alive
<1>14. Cardinality(Borders') <= deaths' + IF post'.at \in {"none", "Maxint"} THEN 0 ELSE 1
    BY <1>5, <1>8, <1>10
<1> QED
    BY <1>9, <1>11, <1>12, <1>13, <1>14 DEF SavingInOrder

(* onImageAvailable finds the image it was called for.                     *)
LEMMA ImageThere ==
    ASSUME TypeOK, CameraInStep, onImageAvailable
    PROVE  /\ UNCHANGED life /\ cameraReady' = TRUE /\ reader # <<>>
           /\ \E v \in Means : meanVal' = [lit |-> reader[Len(reader)], mean |-> v, val |-> v]
<1>1. reader \in Seq(Pattern) /\ available = Len(reader) /\ available > 0
    BY DEF TypeOK, CameraType, CameraInStep, onImageAvailable
<1>2. reader # <<>>
    BY <1>1
<1> QED
    BY <1>2 DEF onImageAvailable

(* The commits form prefixes of calibrations.                              *)
LEMMA NextSaving ==
    TypeInv /\ CameraInStep /\ TasksInOrder /\ SavingInOrder /\ Next => SavingInOrder'
<1> SUFFICES ASSUME TypeInv, CameraInStep, TasksInOrder, SavingInOrder, Next
             PROVE  SavingInOrder'
    OBVIOUS
<1>0. TypeOK /\ deaths \in Nat
    BY CalibAssumption DEF TypeInv, TypeOK, StoredType
<1>1. \A i \in 1..5 : Commit[i] \in Nat
    BY <1>0, CommitTypes
<1>2. Borders \subseteq 1..4 /\ Cardinality(Borders) \in Nat
    <2>1. Borders \subseteq 1..4
        BY DEF Borders
    <2> QED
        BY <2>1, CountSteps
<1>3. CASE save
    BY <1>3, SaveInOrder
<1>4. CASE restart
    <2>1. life # "alive" /\ life' = "alive" /\ post'.at = "none" /\ post'.task = 0
          /\ UNCHANGED <<prefs, deaths>>
        BY <1>4 DEF restart, Alive, ghosts
    <2>2. Commit' = Commit /\ Borders' = Borders
        BY <2>1 DEF Commit, Borders
    <2>3. life = "killed" \/ life \in {"exception", "diverged"}
        BY <1>0, <2>1 DEF TypeOK, StoredType
    <2>4. Cardinality(Borders) <= deaths
        BY <1>0, <2>3 DEF SavingInOrder
    <2>5. Cardinality(Borders') <= deaths' + IF post'.at \in {"none", "Maxint"} THEN 0 ELSE 1
        BY <1>0, <2>1, <2>2, <2>4
    <2>6. \A i \in 1..4 : Commit'[i] >= Commit'[i + 1]
        BY <2>2 DEF SavingInOrder
    <2> QED
        BY <2>1, <2>5, <2>6 DEF SavingInOrder
<1>5. CASE ~save /\ ~restart
    <2>1. /\ UNCHANGED prefs /\ Commit' = Commit
          /\ \/ onPostExecute /\ life' \in {"exception", "diverged"} /\ UNCHANGED post
             \/ /\ onPostExecute /\ life' = life
                /\ post' = [at |-> "Maxint", task |-> Head(uiQueue).task]
             \/ ~onPostExecute /\ UNCHANGED post
        BY <1>5, PostStep
    <2>2. Borders' = Borders
        BY <2>1 DEF Borders
    <2>3. CASE onPostExecute
        <3>1. Alive /\ post.at = "none" /\ uiQueue # <<>> /\ IsPost(Head(uiQueue))
              /\ uiQueue' = Tail(uiQueue) /\ UNCHANGED deaths
            BY <2>3 DEF onPostExecute, UiFree, UiOnly, ghosts, IsPost
        <3>2. CASE life' \in {"exception", "diverged"} /\ UNCHANGED post
            BY <2>1, <2>2, <3>1, <3>2 DEF SavingInOrder
        <3>3. CASE life' = life /\ post' = [at |-> "Maxint", task |-> Head(uiQueue).task]
            <4>1. PICK t : t = Head(uiQueue).task
                OBVIOUS
            <4>2. 1 \in 1..Len(uiQueue) /\ Head(uiQueue) = uiQueue[1] /\ Head(uiQueue) \in Message
                BY <1>0, <3>1, Received
            <4>3. \A m \in Message : m.task \in 1..MaxClicks
                BY DEF Message, Task
            <4>4. t \in Nat /\ t # 0
                BY <4>1, <4>2, <4>3, CalibAssumption
            <4>5. \A i \in 1..5 : Commit[i] < t
                BY <3>1, <4>1, <4>2 DEF TasksInOrder, BeforePosted
            <4>6. post'.at = "Maxint" /\ post'.task = t /\ life' = "alive" /\ Rank["Maxint"] = 1
                BY <3>1, <3>3, <4>1 DEF Alive, Rank
            <4>7. \A i \in 1..5 : IF i < Rank[post'.at] THEN Commit'[i] = post'.task
                                  ELSE Commit'[i] < post'.task
                BY <2>1, <4>5, <4>6
            <4>8. Cardinality(Borders') <= deaths' + IF post'.at \in {"none", "Maxint"} THEN 0 ELSE 1
                BY <1>0, <1>2, <2>2, <3>1, <4>6 DEF SavingInOrder
            <4> QED
                BY <2>1, <4>4, <4>6, <4>7, <4>8 DEF SavingInOrder
        <3> QED
            BY <2>1, <2>3, <3>2, <3>3
    <2>4. CASE kill
        <3>1. Alive /\ life' = "killed" /\ deaths' = deaths + 1 /\ UNCHANGED post
            BY <2>4 DEF kill, uiVars
        <3>2. Cardinality(Borders) <= deaths + 1
            BY <1>0, <1>2 DEF SavingInOrder
        <3>3. Cardinality(Borders') <= deaths'
              /\ Cardinality(Borders') <= deaths' + IF post'.at \in {"none", "Maxint"} THEN 0 ELSE 1
            BY <1>0, <1>2, <2>2, <3>1, <3>2
        <3> QED
            BY <2>1, <3>1, <3>3 DEF SavingInOrder
    <2>5. CASE ~onPostExecute /\ ~kill
        <3>1. UNCHANGED post
            BY <2>1, <2>5
        <3>2. UNCHANGED deaths
            BY <1>5, <2>5 DEF Next, btnCalibrate, Worker, WorkerOnly, start, draw, takePicture,
                takePictureLock, compare, addPoint, addReads, addWrites, finish, Looper,
                previewResult, resultAdvances, resultIgnored, unlockFocus, imageReady,
                onImageAvailable, LooperOnly, Ui, UiOnly, onProgressUpdate, ghosts
        <3>3. UNCHANGED life
            <4>1. CASE onImageAvailable
                BY <1>0, <4>1, ImageThere
            <4>2. CASE ~onImageAvailable
                BY <1>5, <2>5, <4>2 DEF Next, btnCalibrate, Worker, WorkerOnly, start, draw,
                    takePicture, takePictureLock, compare, addPoint, addReads, addWrites, finish,
                    Looper, previewResult, resultAdvances, resultIgnored, ResultLeavesAlone,
                    unlockFocus, imageReady, LooperOnly, Ui, UiOnly, onProgressUpdate
            <4> QED
                BY <4>1, <4>2
        <3> QED
            BY <2>1, <2>2, <3>1, <3>2, <3>3 DEF SavingInOrder
    <2> QED
        BY <2>3, <2>4, <2>5
<1> QED
    BY <1>3, <1>4, <1>5

(* The initial state.                                                      *)
LEMMA InitStored == Init => StoredInv
<1> SUFFICES ASSUME Init PROVE StoredInv
    OBVIOUS
<1>1. TypeInv
    BY InitTyped
<1>2. LampInStep
    BY DEF Init, LampInStep
<1>3. CameraInStep
    BY DEF Init, CameraInStep, Lit, OpenRequest, STATE_PREVIEW, STATE_WAITING_LOCK,
        STATE_WAITING_PRECAPTURE, STATE_WAITING_NON_PRECAPTURE
<1>4. Len(tasks) = 0 /\ Len(uiQueue) = 0 /\ task = 0 /\ clicks = 0 /\ post.task = 0
      /\ post.at = "none" /\ life = "alive" /\ deaths = 0
    BY DEF Init
<1>5. Commit = <<0, 0, 0, 0, 0>>
    BY DEF Init, Commit
<1>6. \A i \in 1..5 : Commit[i] = 0
    BY <1>5
<1>7. TasksInOrder
    BY <1>4, <1>6 DEF TasksInOrder, BeforePosted, BeforeWorker, BeforeQueued
<1>8. Cardinality(Borders) = 0
    <2>1. Borders = {}
        BY <1>6 DEF Borders
    <2> QED
        BY <2>1, FS_EmptySet
<1>9. SavingInOrder
    BY <1>4, <1>6, <1>8 DEF SavingInOrder
<1> QED
    BY <1>1, <1>2, <1>3, <1>7, <1>9 DEF StoredInv

(* StoredInv is inductive.                                                 *)
LEMMA NextStored ==
    ASSUME SleepSuffices, ReportsAf
    PROVE  StoredInv /\ [Next]_vars => StoredInv'
<1> SUFFICES ASSUME StoredInv, [Next]_vars PROVE StoredInv'
    OBVIOUS
<1>1. CASE Next
    BY <1>1, NextTyped, NextLamp, NextCamera, NextInOrder, NextSaving DEF StoredInv
<1>2. CASE UNCHANGED vars
    <2>1. TypeInv'
        BY <1>2, NextTyped DEF StoredInv
    <2>2. LampInStep' /\ CameraInStep'
        BY <1>2 DEF StoredInv, LampInStep, CameraInStep, NoProgress, Lit, getCircle, vars,
            OpenRequest, workerVars, uiVars, camera, deviceVars
    <2>3. UNCHANGED <<clicks, tasks, task, uiQueue, post, prefs, life, deaths>>
        BY <1>2 DEF vars, workerVars, uiVars, ghosts
    <2>4. Commit' = Commit /\ Borders' = Borders
        BY <2>3 DEF Commit, Borders
    <2>5. TasksInOrder'
        BY <2>3, <2>4 DEF StoredInv, TasksInOrder, BeforePosted, BeforeWorker, BeforeQueued
    <2>6. SavingInOrder'
        BY <2>3, <2>4 DEF StoredInv, SavingInOrder
    <2> QED
        BY <2>1, <2>2, <2>5, <2>6 DEF StoredInv
<1> QED
    BY <1>1, <1>2

(* Under sleeps that are long enough and on a device that reports its AF   *)
(* state, the preferences hold prefixes of calibrations, one over the      *)
(* other, whenever the process is killed between the five commits of       *)
(* onPostExecute.                                                          *)
THEOREM StoredPrefix == ASSUME SleepSuffices, ReportsAf PROVE Spec => []StoredAsAPrefix
<1>1. StoredInv => StoredAsAPrefix
    <2> SUFFICES ASSUME StoredInv PROVE StoredAsAPrefix
        OBVIOUS
    <2>1. deaths \in Nat
        BY CalibAssumption DEF StoredInv, TypeInv, TypeOK, StoredType
    <2>2. \A i \in 1..5 : Commit[i] \in Nat
        BY CommitTypes DEF StoredInv, TypeInv
    <2>3. \A i \in Borders : Commit[i] > Commit[i + 1]
        <3> SUFFICES ASSUME NEW i \in Borders PROVE Commit[i] > Commit[i + 1]
            OBVIOUS
        <3>1. i \in 1..4 /\ i \in 1..5 /\ i + 1 \in 1..5 /\ Commit[i] # Commit[i + 1]
            BY DEF Borders
        <3>2. Commit[i] >= Commit[i + 1]
            BY <3>1 DEF StoredInv, SavingInOrder
        <3> QED
            BY <2>2, <3>1, <3>2
    <2>4. Cardinality(Borders) \in Nat
        <3>1. Borders \subseteq 1..4
            BY DEF Borders
        <3> QED
            BY <3>1, CountSteps
    <2>5. Cardinality(Borders) <= deaths + IF post.at = "none" THEN 0 ELSE 1
        BY <2>1, <2>4 DEF StoredInv, SavingInOrder
    <2> QED
        BY <2>3, <2>5 DEF StoredAsAPrefix, Borders, Commit
<1>2. StoredInv /\ [Next]_vars => StoredInv'
    BY NextStored
<1> QED
    BY <1>1, <1>2, InitStored, PTL DEF Spec

------------------------------------------------------------------------------
(* The tasks that have the lists to themselves.                            *)

(* Where an unfinished task is.                                            *)
LEMMA UnfinishedIs ==
    ASSUME TypeOK, NEW t \in Task
    PROVE  t \in Unfinished <=>
            \/ t = task
            \/ t = post.task
            \/ \E i \in 1..Len(tasks) : tasks[i] = t
            \/ \E i \in 1..Len(uiQueue) : IsPost(uiQueue[i]) /\ uiQueue[i].task = t
<1>1. DOMAIN tasks = 1..Len(tasks) /\ DOMAIN uiQueue = 1..Len(uiQueue)
      /\ \A i \in 1..Len(uiQueue) : uiQueue[i] \in Message
    BY DEF TypeOK, WorkerType, UiType
<1>2. \A m \in Message : m = [kind |-> "post", task |-> t] <=> IsPost(m) /\ m.task = t
    BY DEF Message, IsPost
<1>3. (\E i \in DOMAIN uiQueue : uiQueue[i] = [kind |-> "post", task |-> t]) <=>
      (\E i \in 1..Len(uiQueue) : IsPost(uiQueue[i]) /\ uiQueue[i].task = t)
    BY <1>1, <1>2
<1> HIDE DEF IsPost
<1>4. t \in Unfinished <=>
        \/ t \in {task, post.task}
        \/ \E i \in DOMAIN tasks : tasks[i] = t
        \/ \E i \in DOMAIN uiQueue : uiQueue[i] = [kind |-> "post", task |-> t]
    BY DEF Unfinished
<1> QED
    BY <1>1, <1>3, <1>4

(* The same of the next state.                                             *)
LEMMA UnfinishedNext ==
    ASSUME TypeOK', NEW t \in Task
    PROVE  t \in Unfinished' <=>
            \/ t = task'
            \/ t = post'.task
            \/ \E i \in 1..Len(tasks') : tasks'[i] = t
            \/ \E i \in 1..Len(uiQueue') : IsPost(uiQueue'[i]) /\ uiQueue'[i].task = t
<1>1. DOMAIN tasks' = 1..Len(tasks') /\ DOMAIN uiQueue' = 1..Len(uiQueue')
      /\ \A i \in 1..Len(uiQueue') : uiQueue'[i] \in Message
    <2>1. tasks' \in Seq(Task) /\ uiQueue' \in Seq(Message)
        BY DEF TypeOK, WorkerType, UiType
    <2>2. PICK s, u : s = tasks' /\ u = uiQueue'
        OBVIOUS
    <2>3. /\ DOMAIN s = 1..Len(s) /\ DOMAIN u = 1..Len(u)
          /\ \A i \in 1..Len(u) : u[i] \in Message
        BY <2>1, <2>2
    <2> QED
        BY <2>2, <2>3
<1>2. \A m \in Message : m = [kind |-> "post", task |-> t] <=> IsPost(m) /\ m.task = t
    BY DEF Message, IsPost
<1>3. (\E i \in DOMAIN uiQueue' : uiQueue'[i] = [kind |-> "post", task |-> t]) <=>
      (\E i \in 1..Len(uiQueue') : IsPost(uiQueue'[i]) /\ uiQueue'[i].task = t)
    BY <1>1, <1>2
<1> HIDE DEF IsPost
<1>4. t \in Unfinished' <=>
        \/ t \in {task', post'.task}
        \/ \E i \in DOMAIN tasks' : tasks'[i] = t
        \/ \E i \in DOMAIN uiQueue' : uiQueue'[i] = [kind |-> "post", task |-> t]
    BY DEF Unfinished
<1> QED
    BY <1>1, <1>3, <1>4

(* Types of the tasks in the queues.                                       *)
LEMMA QueueTypes ==
    ASSUME TypeOK
    PROVE  /\ Task \subseteq Nat /\ 0 \notin Task
           /\ tasks \in Seq(Task) /\ uiQueue \in Seq(Message)
           /\ \A i \in 1..Len(tasks) : tasks[i] \in Task
           /\ \A i \in 1..Len(uiQueue) : uiQueue[i] \in Message /\ uiQueue[i].task \in Task
           /\ clicks \in Nat /\ task \in Nat /\ post.task \in Nat
           /\ (task # 0 => task \in Task) /\ (post.task # 0 => post.task \in Task)
<1>1. MaxClicks \in Nat /\ Task = 1..MaxClicks
    BY CalibAssumption DEF Task
<1>2. tasks \in Seq(Task) /\ uiQueue \in Seq(Message) /\ clicks \in 0..MaxClicks
      /\ task \in 0..MaxClicks /\ post.task \in 0..MaxClicks
    BY DEF TypeOK, WorkerType, UiType
<1>3. \A m \in Message : m.task \in Task
    BY DEF Message
<1>4. \A i \in 1..Len(uiQueue) : uiQueue[i] \in Message /\ uiQueue[i].task \in Task
    BY <1>2, <1>3
<1>5. \A i \in 1..Len(tasks) : tasks[i] \in Task
    BY <1>2
<1> QED
    BY <1>1, <1>2, <1>4, <1>5

(* How the places of the tasks change.                                     *)
QueuesKept ==
    /\ UNCHANGED <<clicks, task, tasks>>
    /\ \A i \in 1..Len(uiQueue') : IsPost(uiQueue'[i]) =>
            \E j \in 1..Len(uiQueue) : uiQueue'[i] = uiQueue[j]
    /\ post'.task \in {0, post.task}

(* A step that keeps the queues leaves no task less finished.              *)
LEMMA KeptUnfinished ==
    ASSUME TypeOK, TypeOK', QueuesKept
    PROVE  Unfinished' \subseteq Unfinished
<1> SUFFICES ASSUME NEW t \in Unfinished' PROVE t \in Unfinished
    OBVIOUS
<1>1. t \in Task
    BY DEF Unfinished
<1>2. /\ t \in Unfinished' <=>
            \/ t = task'
            \/ t = post'.task
            \/ \E i \in 1..Len(tasks') : tasks'[i] = t
            \/ \E i \in 1..Len(uiQueue') : IsPost(uiQueue'[i]) /\ uiQueue'[i].task = t
    BY <1>1, UnfinishedNext
<1>3. 0 \notin Task
    BY QueueTypes
<1>4. \/ t = task
      \/ t = post.task
      \/ \E i \in 1..Len(tasks) : tasks[i] = t
      \/ \E i \in 1..Len(uiQueue) : IsPost(uiQueue[i]) /\ uiQueue[i].task = t
    BY <1>1, <1>2, <1>3 DEF QueuesKept
<1> QED
    BY <1>1, <1>4, UnfinishedIs

(* The steps that move no task.                                            *)
LEMMA QuietKeep ==
    ASSUME TypeInv, draw \/ takePicture \/ takePictureLock \/ compare \/ addPoint \/ addReads
                    \/ addWrites \/ Looper \/ kill \/ save \/ onProgressUpdate
    PROVE  QueuesKept /\ disturbed' = disturbed
<1>0. TypeOK /\ WorkerInStep /\ uiQueue \in Seq(Message)
    BY QueueTypes DEF TypeInv
<1>1. CASE takePicture \/ takePictureLock \/ compare \/ addPoint \/ addReads \/ addWrites
           \/ Looper \/ kill
    <2>1. UNCHANGED <<clicks, task, tasks, uiQueue, post, disturbed>>
        BY <1>1 DEF takePicture, takePictureLock, compare, addPoint, addReads, addWrites, Looper,
            previewResult, resultAdvances, resultIgnored, unlockFocus, imageReady,
            onImageAvailable, LooperOnly, WorkerOnly, kill, ghosts
    <2> QED
        BY <2>1 DEF QueuesKept
<1>2. CASE draw
    <2>1. pc = "draw" /\ uiQueue' = Append(uiQueue, Progress(task))
          /\ UNCHANGED <<clicks, tasks, task, post, disturbed>>
        BY <1>2 DEF draw, WorkerOnly, ghosts
    <2>2. Progress(task) \in Message /\ ~IsPost(Progress(task))
        BY <1>0, <2>1, MessageTypes DEF WorkerInStep
    <2>3. /\ \A i \in 1..Len(uiQueue) : uiQueue'[i] = uiQueue[i]
          /\ uiQueue'[Len(uiQueue) + 1] = Progress(task)
          /\ \A i \in 1..Len(uiQueue') : i \in 1..Len(uiQueue) \/ i = Len(uiQueue) + 1
        BY <1>0, <2>1, <2>2, Published
    <2> QED
        BY <2>1, <2>2, <2>3 DEF QueuesKept
<1>3. CASE save
    <2>1. UNCHANGED <<clicks, task, tasks, uiQueue, disturbed>> /\ post'.task \in {0, post.task}
        BY <1>3 DEF save, UiOnly, workerVars, ghosts
    <2> QED
        BY <2>1 DEF QueuesKept
<1>4. CASE onProgressUpdate
    <2>1. uiQueue # <<>> /\ uiQueue' = Tail(uiQueue)
          /\ UNCHANGED <<clicks, task, tasks, post, disturbed>>
        BY <1>4 DEF onProgressUpdate, UiOnly, workerVars, ghosts
    <2>2. \A i \in 1..Len(uiQueue') : i + 1 \in 1..Len(uiQueue) /\ uiQueue'[i] = uiQueue[i + 1]
        BY <1>0, <2>1, Received
    <2>3. \A i \in 1..Len(uiQueue') : \E j \in 1..Len(uiQueue) : uiQueue'[i] = uiQueue[j]
        BY <2>2
    <2> QED
        BY <2>1, <2>3 DEF QueuesKept
<1> QED
    BY <1>1, <1>2, <1>3, <1>4

(* What starting a task moves.                                             *)
LEMMA StartMoves ==
    ASSUME TypeInv, start
    PROVE  /\ pc = "idle" /\ task = 0 /\ task' \in Task
           /\ 1 \in 1..Len(tasks) /\ task' = tasks[1]
           /\ \A i \in 1..Len(tasks') : i + 1 \in 1..Len(tasks) /\ tasks'[i] = tasks[i + 1]
           /\ \A i \in 1..Len(uiQueue') : IsPost(uiQueue'[i]) =>
                i \in 1..Len(uiQueue) /\ uiQueue'[i] = uiQueue[i]
           /\ UNCHANGED <<clicks, post, disturbed>>
<1>0. TypeOK /\ WorkerInStep /\ tasks \in Seq(Task) /\ (task # 0 => task \in Task)
    BY QueueTypes DEF TypeInv
<1>1. /\ pc = "idle" /\ tasks # <<>> /\ task' = Head(tasks) /\ tasks' = Tail(tasks)
      /\ uiQueue' = Append(uiQueue, Progress(task')) /\ UNCHANGED <<clicks, post, disturbed>>
    BY DEF start, WorkerOnly, ghosts
<1>2. task = 0
    BY <1>0, <1>1 DEF WorkerInStep
<1>3. /\ task' = tasks[1] /\ 1 \in 1..Len(tasks) /\ task' \in Task
      /\ \A i \in 1..Len(tasks') : i + 1 \in 1..Len(tasks) /\ tasks'[i] = tasks[i + 1]
    BY <1>0, <1>1, TailFacts
<1>4. PICK m \in Message : uiQueue' = Append(uiQueue, m) /\ ~IsPost(m)
    <2>1. PICK t : t = task'
        OBVIOUS
    <2> QED
        BY <1>1, <1>3, <2>1, MessageTypes
<1>5. \A i \in 1..Len(uiQueue') : IsPost(uiQueue'[i]) =>
        i \in 1..Len(uiQueue) /\ uiQueue'[i] = uiQueue[i]
    BY <1>0, <1>4, Published
<1> QED
    BY <1>1, <1>2, <1>3, <1>5

(* What the end of doInBackground moves.                                   *)
LEMMA FinishMoves ==
    ASSUME TypeInv, finish
    PROVE  /\ pc = "draw" /\ task \in Task /\ n = NPos + NGamma /\ task' = 0
           /\ \A i \in 1..Len(uiQueue') : IsPost(uiQueue'[i]) =>
                \/ uiQueue'[i].task = task
                \/ i \in 1..Len(uiQueue) /\ uiQueue'[i] = uiQueue[i]
           /\ UNCHANGED <<clicks, tasks, post, disturbed>>
<1>0. TypeOK /\ WorkerInStep
    BY DEF TypeInv
<1>1. /\ pc = "draw" /\ uiQueue' = Append(uiQueue, [kind |-> "post", task |-> task])
      /\ task' = 0 /\ n = NPos + NGamma /\ UNCHANGED <<clicks, tasks, post, disturbed>>
    BY DEF finish, WorkerOnly, ghosts
<1>2. task \in Task
    BY <1>0, <1>1 DEF WorkerInStep
<1>3. PICK m \in Message : uiQueue' = Append(uiQueue, m) /\ m.task = task
    BY <1>1, <1>2, MessageTypes
<1>4. /\ \A i \in 1..Len(uiQueue) : uiQueue'[i] = uiQueue[i]
      /\ uiQueue'[Len(uiQueue) + 1] = m
      /\ \A i \in 1..Len(uiQueue') : i \in 1..Len(uiQueue) \/ i = Len(uiQueue) + 1
    BY <1>0, <1>3, Published
<1> QED
    BY <1>1, <1>2, <1>3, <1>4

(* What onPostExecute moves.                                               *)
LEMMA PostMoves ==
    ASSUME TypeInv, onPostExecute
    PROVE  /\ Alive /\ post.at = "none"
           /\ 1 \in 1..Len(uiQueue) /\ IsPost(uiQueue[1]) /\ Head(uiQueue) = uiQueue[1]
           /\ \A i \in 1..Len(uiQueue') :
                i + 1 \in 1..Len(uiQueue) /\ uiQueue'[i] = uiQueue[i + 1]
           /\ \/ life' \in {"exception", "diverged"} /\ UNCHANGED <<post, listVars>>
              \/ /\ ~Thrown /\ UNCHANGED life
                 /\ maxIntensityIndex' = getMaxIndex(maxValList)
                 /\ maxValList' = normalize(maxValList, maxIntensityIndex')
                 /\ post'.task = uiQueue[1].task
           /\ UNCHANGED <<clicks, task, tasks, pc, n, best, lastmeanVal, slot, points, meanVal,
                          prefs, disturbed>>
<1>0. TypeOK
    BY DEF TypeInv
<1>1. /\ Alive /\ post.at = "none" /\ uiQueue # <<>> /\ IsPost(Head(uiQueue))
      /\ uiQueue' = Tail(uiQueue)
      /\ \/ life' \in {"exception", "diverged"} /\ UNCHANGED <<post, listVars>>
         \/ /\ ~Thrown /\ UNCHANGED life
            /\ maxIntensityIndex' = getMaxIndex(maxValList)
            /\ maxValList' = normalize(maxValList, maxIntensityIndex')
            /\ post'.task = Head(uiQueue).task
      /\ UNCHANGED <<clicks, task, tasks, pc, n, best, lastmeanVal, slot, points, meanVal,
                     prefs, disturbed>>
    BY DEF onPostExecute, UiFree, UiOnly, workerVars, camera, ghosts, IsPost
<1>2. /\ 1 \in 1..Len(uiQueue) /\ Head(uiQueue) = uiQueue[1]
      /\ \A i \in 1..Len(uiQueue') :
            i + 1 \in 1..Len(uiQueue) /\ uiQueue'[i] = uiQueue[i + 1]
    BY <1>0, <1>1, Received
<1> QED
    BY <1>1, <1>2

(* Only a click makes a task that is not finished.                         *)
LEMMA NextUnfinished ==
    ASSUME TypeInv, TypeInv', Next, ~btnCalibrate
    PROVE  Unfinished' \subseteq Unfinished /\ disturbed' = disturbed
<1>0. TypeOK /\ TypeOK' /\ 0 \notin Task
    BY QueueTypes DEF TypeInv
<1>1. CASE draw \/ takePicture \/ takePictureLock \/ compare \/ addPoint \/ addReads
           \/ addWrites \/ Looper \/ kill \/ save \/ onProgressUpdate
    BY <1>0, <1>1, QuietKeep, KeptUnfinished
<1>2. ASSUME disturbed' = disturbed,
             ASSUME NEW t \in Task,
                    \/ t = task'
                    \/ t = post'.task
                    \/ \E i \in 1..Len(tasks') : tasks'[i] = t
                    \/ \E i \in 1..Len(uiQueue') : IsPost(uiQueue'[i]) /\ uiQueue'[i].task = t
             PROVE  \/ t = task
                    \/ t = post.task
                    \/ \E i \in 1..Len(tasks) : tasks[i] = t
                    \/ \E i \in 1..Len(uiQueue) : IsPost(uiQueue[i]) /\ uiQueue[i].task = t
      PROVE  Unfinished' \subseteq Unfinished /\ disturbed' = disturbed
    <2> SUFFICES ASSUME NEW t \in Unfinished' PROVE t \in Unfinished
        BY <1>2
    <2>1. t \in Task
        BY DEF Unfinished
    <2>2. \/ t = task'
          \/ t = post'.task
          \/ \E i \in 1..Len(tasks') : tasks'[i] = t
          \/ \E i \in 1..Len(uiQueue') : IsPost(uiQueue'[i]) /\ uiQueue'[i].task = t
        BY <1>0, <2>1, UnfinishedNext
    <2>3. \/ t = task
          \/ t = post.task
          \/ \E i \in 1..Len(tasks) : tasks[i] = t
          \/ \E i \in 1..Len(uiQueue) : IsPost(uiQueue[i]) /\ uiQueue[i].task = t
        BY <1>2, <2>1, <2>2
    <2> QED
        BY <1>0, <2>1, <2>3, UnfinishedIs
<1>3. CASE start
    <2>1. /\ task' \in Task /\ 1 \in 1..Len(tasks) /\ task' = tasks[1]
          /\ \A i \in 1..Len(tasks') : i + 1 \in 1..Len(tasks) /\ tasks'[i] = tasks[i + 1]
          /\ \A i \in 1..Len(uiQueue') : IsPost(uiQueue'[i]) =>
                i \in 1..Len(uiQueue) /\ uiQueue'[i] = uiQueue[i]
          /\ UNCHANGED <<post, disturbed>>
        BY <1>3, StartMoves
    <2> QED
        BY <1>2, <2>1
<1>4. CASE finish
    <2>1. /\ task' = 0
          /\ \A i \in 1..Len(uiQueue') : IsPost(uiQueue'[i]) =>
                \/ uiQueue'[i].task = task
                \/ i \in 1..Len(uiQueue) /\ uiQueue'[i] = uiQueue[i]
          /\ UNCHANGED <<tasks, post, disturbed>>
        BY <1>4, FinishMoves
    <2> QED
        BY <1>0, <1>2, <2>1
<1>5. CASE onPostExecute
    <2>1. /\ 1 \in 1..Len(uiQueue) /\ IsPost(uiQueue[1])
          /\ \A i \in 1..Len(uiQueue') :
                i + 1 \in 1..Len(uiQueue) /\ uiQueue'[i] = uiQueue[i + 1]
          /\ UNCHANGED post \/ post'.task = uiQueue[1].task
          /\ UNCHANGED <<task, tasks, disturbed>>
        BY <1>5, PostMoves
    <2> QED
        BY <1>2, <2>1
<1>6. CASE restart
    <2>1. task' = 0 /\ post'.task = 0 /\ Len(tasks') = 0 /\ Len(uiQueue') = 0
          /\ UNCHANGED disturbed
        BY <1>6 DEF restart, ghosts
    <2>2. 1..Len(tasks') = {} /\ 1..Len(uiQueue') = {}
        BY <2>1
    <2>3. \A t \in Task : t # task' /\ t # post'.task
        BY <1>0, <2>1
    <2> QED
        BY <1>2, <2>1, <2>2, <2>3
<1> QED
    BY <1>1, <1>3, <1>4, <1>5, <1>6 DEF Next, Worker, Ui

(* What a click moves.                                                     *)
LEMMA ClickMoves ==
    ASSUME TypeInv, TypeInv', btnCalibrate
    PROVE  /\ post.at = "none"
           /\ clicks' = clicks + 1 /\ clicks' \in Task
           /\ Len(tasks) \in Nat /\ Len(tasks') = Len(tasks) + 1
           /\ \A i \in 1..Len(tasks) : tasks'[i] = tasks[i]
           /\ tasks'[Len(tasks) + 1] = clicks'
           /\ Unfinished' = Unfinished \cup {clicks'}
           /\ disturbed \subseteq disturbed'
           /\ \/ /\ Unfinished = {} /\ maxValList' = <<>> /\ disturbed' = disturbed
              \/ Unfinished' \subseteq disturbed'
           /\ UNCHANGED <<task, pc, n, best, lastmeanVal, slot, points, uiQueue, post,
                          maxIntensityIndex, meanVal, prefs, life>>
<1>0. TypeOK /\ TypeOK'
    BY DEF TypeInv
<1>1. /\ post.at = "none" /\ clicks < MaxClicks /\ clicks' = clicks + 1
      /\ tasks' = Append(tasks, clicks')
      /\ UNCHANGED <<task, pc, n, best, lastmeanVal, slot, points, uiQueue, post,
                     maxIntensityIndex, meanVal, prefs, life>>
    BY DEF btnCalibrate, UiFree, uiVars, camera
<1>2. /\ disturbed' = IF Unfinished = {} /\ maxValList' = <<>> /\ globalLogit' = <<>>
                      THEN disturbed
                      ELSE disturbed \cup Unfinished \cup {clicks'}
    BY DEF btnCalibrate
<1>3. PICK c : c = clicks'
    OBVIOUS
<1>4. c \in Task
    BY <1>0, <1>1, <1>3, CalibAssumption DEF TypeOK, WorkerType, Task
<1>5. /\ Len(tasks) \in Nat /\ Len(tasks') = Len(tasks) + 1
      /\ \A i \in 1..Len(tasks) : tasks'[i] = tasks[i]
      /\ tasks'[Len(tasks) + 1] = c
    BY <1>0, <1>1, <1>3, <1>4, AppendFacts, QueueTypes
<1>6. \A i \in 1..Len(tasks') : i \in 1..Len(tasks) \/ i = Len(tasks) + 1
    BY <1>5
<1>7. \A i \in 1..Len(tasks) : i \in 1..Len(tasks')
    BY <1>5
<1>8. Len(tasks) + 1 \in 1..Len(tasks')
    BY <1>5
<1>9. ASSUME NEW t \in Task PROVE t \in Unfinished' <=> t \in Unfinished \/ t = c
    <2>1. (\E i \in 1..Len(tasks') : tasks'[i] = t) <=>
          (\E i \in 1..Len(tasks) : tasks[i] = t) \/ t = c
        BY <1>5, <1>6, <1>7, <1>8
    <2>2. t \in Unfinished <=>
            \/ t = task
            \/ t = post.task
            \/ \E i \in 1..Len(tasks) : tasks[i] = t
            \/ \E i \in 1..Len(uiQueue) : IsPost(uiQueue[i]) /\ uiQueue[i].task = t
        BY <1>0, UnfinishedIs
    <2>3. t \in Unfinished' <=>
            \/ t = task'
            \/ t = post'.task
            \/ \E i \in 1..Len(tasks') : tasks'[i] = t
            \/ \E i \in 1..Len(uiQueue') : IsPost(uiQueue'[i]) /\ uiQueue'[i].task = t
        BY <1>0, UnfinishedNext
    <2> QED
        BY <1>1, <2>1, <2>2, <2>3
<1>10. Unfinished' \subseteq Task /\ Unfinished \subseteq Task
    BY DEF Unfinished
<1>11. Unfinished' = Unfinished \cup {c}
    BY <1>4, <1>9, <1>10
<1>12. disturbed \subseteq disturbed'
    BY <1>2
<1>13. \/ /\ Unfinished = {} /\ maxValList' = <<>> /\ disturbed' = disturbed
       \/ Unfinished' \subseteq disturbed'
    BY <1>2, <1>3, <1>11
<1> QED
    BY <1>1, <1>3, <1>4, <1>5, <1>11, <1>12, <1>13

(* An undisturbed task is the only one.                                    *)
LEMMA NextAlone ==
    ASSUME TypeInv, TypeInv', Alone, Next
    PROVE  Alone' /\ disturbed \subseteq disturbed'
<1>1. CASE btnCalibrate
    <2>1. /\ Unfinished' = Unfinished \cup {clicks'} /\ disturbed \subseteq disturbed'
          /\ Unfinished = {} \/ Unfinished' \subseteq disturbed'
        BY <1>1, ClickMoves
    <2> QED
        BY <2>1 DEF Alone
<1>2. CASE ~btnCalibrate
    <2>1. Unfinished' \subseteq Unfinished /\ disturbed' = disturbed
        BY <1>2, NextUnfinished
    <2> QED
        BY <2>1 DEF Alone
<1> QED
    BY <1>1, <1>2

(* Of two tasks, both are disturbed.                                       *)
LEMMA OnlyOne ==
    ASSUME TypeOK, Alone, NEW t \in Unfinished, t \notin disturbed, NEW u \in Unfinished
    PROVE  u = t
    BY DEF Alone

(* The tasks in the queues, with the worker and with onPostExecute are not *)
(* finished.                                                               *)
LEMMA AreUnfinished ==
    ASSUME TypeOK
    PROVE  /\ task # 0 => task \in Unfinished
           /\ post.task # 0 => post.task \in Unfinished
           /\ \A i \in 1..Len(tasks) : tasks[i] \in Unfinished
           /\ \A i \in 1..Len(uiQueue) : IsPost(uiQueue[i]) => uiQueue[i].task \in Unfinished
<1>1. ASSUME NEW t \in Task,
             \/ t = task
             \/ t = post.task
             \/ \E i \in 1..Len(tasks) : tasks[i] = t
             \/ \E i \in 1..Len(uiQueue) : IsPost(uiQueue[i]) /\ uiQueue[i].task = t
      PROVE  t \in Unfinished
    BY <1>1, UnfinishedIs
<1>2. task # 0 => task \in Unfinished
    BY <1>1, QueueTypes
<1>3. post.task # 0 => post.task \in Unfinished
    BY <1>1, QueueTypes
<1>4. \A i \in 1..Len(tasks) : tasks[i] \in Unfinished
    BY <1>1, QueueTypes
<1>5. \A i \in 1..Len(uiQueue) : IsPost(uiQueue[i]) => uiQueue[i].task \in Unfinished
    BY <1>1, QueueTypes
<1> QED
    BY <1>2, <1>3, <1>4, <1>5

------------------------------------------------------------------------------
(* The brightest aperture.                                                 *)

(* The values of a measured list are numbers.                              *)
LEMMA MeasuredValues ==
    ASSUME NEW list \in Seq(Mean), Measured(list)
    PROVE  \A i \in 1..Len(list) : list[i] \in Mean /\ list[i].val \in Nat
<1>1. \A x \in Mean : x.val # Null => x.val \in Nat
    BY DEF Mean
<1> QED
    BY <1>1 DEF Measured, MapOf

(* getMaxIndex finds the aperture that compare has kept: both take the     *)
(* first of the largest values.                                            *)
LEMMA MaxIndexIsBest ==
    ASSUME NEW list \in Seq(Mean), Measured(list), NEW b, IsFirstMax(list, b)
    PROVE  getMaxIndex(list) = b
<1> DEFINE P == {i \in DOMAIN list : list[i].val # Null /\ list[i].val > 0}
           First(i) == \A j \in P :
                \/ list[j].val < list[i].val
                \/ list[j].val = list[i].val /\ i <= j
<1>1. DOMAIN list = 1..Len(list) /\ Len(list) \in Nat
    OBVIOUS
<1>2. \A i \in 1..Len(list) : list[i].val \in Nat /\ list[i].val # Null
    BY MeasuredValues DEF Measured
<1>3. /\ b \in 1..Len(list)
      /\ \A j \in 1..Len(list) :
            list[j].val < list[b].val \/ (list[j].val = list[b].val /\ b <= j)
    BY DEF IsFirstMax
<1>4. \A i : i \in P <=> i \in 1..Len(list) /\ list[i].val > 0
    BY <1>1, <1>2
<1>5. CASE P = {}
    <2>1. getMaxIndex(list) = 1
        BY <1>5 DEF getMaxIndex
    <2>2. 1 \in 1..Len(list) /\ ~(list[1].val > 0) /\ ~(list[b].val > 0)
        BY <1>1, <1>3, <1>4, <1>5
    <2>3. list[1].val = 0 /\ list[b].val = 0
        BY <1>2, <1>3, <2>2
    <2>4. b <= 1
        BY <1>3, <2>2, <2>3
    <2> QED
        BY <1>3, <2>1, <2>4
<1>6. CASE P # {}
    <2>1. getMaxIndex(list) = CHOOSE i \in P : First(i)
        BY <1>6 DEF getMaxIndex
    <2>2. b \in P /\ First(b)
        <3>1. PICK j \in P : TRUE
            BY <1>6
        <3>2. j \in 1..Len(list) /\ list[j].val > 0
            BY <1>4, <3>1
        <3>3. list[b].val > 0
            BY <1>2, <1>3, <3>2
        <3>4. b \in P
            BY <1>3, <1>4, <3>3
        <3>5. First(b)
            BY <1>3, <1>4
        <3> QED
            BY <3>4, <3>5
    <2> HIDE DEF P
    <2>3. PICK c : c = getMaxIndex(list)
        OBVIOUS
    <2>4. c \in P /\ First(c)
        BY <2>1, <2>2, <2>3
    <2>5. c \in 1..Len(list)
        BY <1>4, <2>4
    <2>6. list[b].val < list[c].val \/ (list[b].val = list[c].val /\ c <= b)
        BY <2>2, <2>4
    <2>7. list[c].val < list[b].val \/ (list[c].val = list[b].val /\ b <= c)
        BY <1>3, <2>5
    <2>8. c = b
        BY <1>2, <1>3, <2>5, <2>6, <2>7
    <2> QED
        BY <2>3, <2>8
<1> QED
    BY <1>5, <1>6

(* One more aperture is compared with the brightest so far.                *)
LEMMA BestAppended ==
    ASSUME NEW list \in Seq(Mean), Measured(list), NEW m \in Mean, m.val # Null,
           NEW b \in Int, NEW v \in Int,
           list = <<>> => v = -1,
           list # <<>> => IsFirstMax(list, b) /\ v = list[b].val
    PROVE  /\ Append(list, m) # <<>>
           /\ m.val > v => /\ IsFirstMax(Append(list, m), Len(list) + 1)
                           /\ Append(list, m)[Len(list) + 1].val = m.val
           /\ ~(m.val > v) => /\ IsFirstMax(Append(list, m), b)
                              /\ Append(list, m)[b].val = v
<1>1. PICK l : l = Append(list, m)
    OBVIOUS
<1>2. /\ Len(list) \in Nat /\ Len(l) = Len(list) + 1 /\ l # <<>>
      /\ \A i \in 1..Len(list) : l[i] = list[i]
      /\ l[Len(list) + 1] = m
    BY <1>1, AppendFacts
<1>3. m.val \in Nat /\ \A i \in 1..Len(list) : list[i].val \in Nat
    BY MeasuredValues DEF Mean
<1>4. \A i \in 1..Len(l) : i \in 1..Len(list) \/ i = Len(list) + 1
    BY <1>2
<1>5. CASE list = <<>>
    <2>1. v = -1 /\ Len(list) = 0 /\ m.val > v
        BY <1>3, <1>5
    <2>2. IsFirstMax(l, Len(list) + 1)
        BY <1>2, <1>3, <1>4, <2>1 DEF IsFirstMax
    <2> QED
        BY <1>1, <1>2, <2>1, <2>2
<1>6. CASE list # <<>>
    <2>1. /\ b \in 1..Len(list) /\ v = list[b].val
          /\ \A j \in 1..Len(list) :
                list[j].val < list[b].val \/ (list[j].val = list[b].val /\ b <= j)
        BY <1>6 DEF IsFirstMax
    <2>2. l[b] = list[b] /\ b \in 1..Len(l) /\ v \in Nat /\ Len(list) + 1 \in 1..Len(l)
        BY <1>2, <1>3, <2>1
    <2>3. ASSUME m.val > v PROVE IsFirstMax(l, Len(list) + 1)
        <3>1. \A j \in 1..Len(list) : l[j].val < m.val
            BY <1>2, <1>3, <2>1, <2>2, <2>3
        <3>2. \A j \in 1..Len(l) : l[j].val < m.val \/ j = Len(list) + 1
            BY <1>4, <3>1
        <3> QED
            BY <1>2, <2>2, <3>2 DEF IsFirstMax
    <2>4. ASSUME ~(m.val > v) PROVE IsFirstMax(l, b)
        <3>1. \A j \in 1..Len(list) : l[j].val < l[b].val \/ (l[j].val = l[b].val /\ b <= j)
            BY <1>2, <2>1, <2>2
        <3>2. m.val < l[b].val \/ (m.val = l[b].val /\ b <= Len(list) + 1)
            BY <1>2, <1>3, <2>1, <2>2, <2>4
        <3>3. \A j \in 1..Len(l) : l[j].val < l[b].val \/ (l[j].val = l[b].val /\ b <= j)
            BY <1>2, <1>4, <3>1, <3>2
        <3> QED
            BY <2>2, <3>3 DEF IsFirstMax
    <2> QED
        BY <1>1, <1>2, <2>1, <2>2, <2>3, <2>4
<1> QED
    BY <1>5, <1>6

(* A measured list grows by the picture of its next aperture.              *)
LEMMA MeasuredAppended ==
    ASSUME NEW list \in Seq(Mean), Measured(list), NEW m \in Mean, m.val # Null,
           m.lit = <<Len(list) + 1, 0>>
    PROVE  Measured(Append(list, m))
<1>1. PICK l : l = Append(list, m)
    OBVIOUS
<1>2. /\ Len(list) \in Nat /\ Len(l) = Len(list) + 1
      /\ \A i \in 1..Len(list) : l[i] = list[i]
      /\ l[Len(list) + 1] = m
    BY <1>1, AppendFacts
<1>3. \A i \in 1..Len(l) : i \in 1..Len(list) \/ i = Len(list) + 1
    BY <1>2
<1>4. \A i \in 1..Len(list) : l[i] \in Mean /\ l[i].lit = <<i, 0>> /\ l[i].val # Null
    BY <1>2 DEF Measured, MapOf
<1>5. \A i \in 1..Len(l) : l[i] \in Mean /\ l[i].lit = <<i, 0>> /\ l[i].val # Null
    BY <1>2, <1>3, <1>4
<1> QED
    BY <1>1, <1>5 DEF Measured, MapOf

------------------------------------------------------------------------------
(* The list and the ramp of an undisturbed task.                           *)

NoPost == \A i \in 1..Len(uiQueue) : ~IsPost(uiQueue[i])

(* Where an undisturbed task is, no other is.                              *)
LEMMA Exclusive ==
    ASSUME TypeInv, TasksInOrder, Alone
    PROVE  /\ task \notin disturbed \cup {0} => Len(tasks) = 0 /\ NoPost /\ post.task = 0
           /\ \A i \in 1..Len(tasks) : tasks[i] \notin disturbed =>
                task = 0 /\ NoPost /\ post.task = 0
           /\ \A i \in 1..Len(uiQueue) : IsPost(uiQueue[i]) /\ uiQueue[i].task \notin disturbed =>
                /\ task = 0 /\ Len(tasks) = 0 /\ post.task = 0
                /\ \A j \in 1..Len(uiQueue) : IsPost(uiQueue[j]) => j = i
           /\ post.task \notin disturbed \cup {0} => task = 0 /\ Len(tasks) = 0 /\ NoPost
<1>0. TypeOK /\ Len(tasks) \in Nat /\ clicks \in Nat /\ task \in Nat /\ post.task \in Nat
      /\ Task \subseteq Nat
      /\ (\A i \in 1..Len(tasks) : tasks[i] \in Task)
      /\ (\A i \in 1..Len(uiQueue) : uiQueue[i].task \in Task)
    BY QueueTypes DEF TypeInv
<1>1. /\ task # 0 => task \in Unfinished
      /\ post.task # 0 => post.task \in Unfinished
      /\ \A i \in 1..Len(tasks) : tasks[i] \in Unfinished
      /\ \A i \in 1..Len(uiQueue) : IsPost(uiQueue[i]) => uiQueue[i].task \in Unfinished
    BY <1>0, AreUnfinished
<1>2. \A t, u \in Unfinished : t # u => t \in disturbed /\ u \in disturbed
    BY DEF Alone
<1>3. \A i \in 1..Len(tasks) : task # tasks[i] /\ post.task # tasks[i]
    BY <1>0 DEF TasksInOrder, BeforeQueued, BeforeWorker, BeforePosted
<1>4. \A i \in 1..Len(uiQueue) : IsPost(uiQueue[i]) =>
        /\ task # 0 => task # uiQueue[i].task
        /\ post.task # uiQueue[i].task
        /\ \A j \in 1..Len(tasks) : uiQueue[i].task # tasks[j]
    <2> SUFFICES ASSUME NEW i \in 1..Len(uiQueue), IsPost(uiQueue[i])
                 PROVE  /\ task # 0 => task # uiQueue[i].task
                        /\ post.task # uiQueue[i].task
                        /\ \A j \in 1..Len(tasks) : uiQueue[i].task # tasks[j]
        OBVIOUS
    <2>1. PICK t \in Nat : t = uiQueue[i].task
        BY <1>0
    <2>2. BeforeWorker(t)
        BY <2>1 DEF TasksInOrder
    <2>3. post.task < t
        BY <2>1 DEF TasksInOrder, BeforePosted
    <2>4. (task # 0 => t < task) /\ \A j \in 1..Len(tasks) : t < tasks[j]
        BY <2>2 DEF BeforeWorker, BeforeQueued
    <2> QED
        BY <1>0, <2>1, <2>3, <2>4
<1>5. task # 0 => task # post.task
    BY <1>0 DEF TasksInOrder, BeforeWorker, BeforePosted
<1>6. \A i, j \in 1..Len(uiQueue) :
        IsPost(uiQueue[i]) /\ IsPost(uiQueue[j]) /\ i # j => uiQueue[i].task # uiQueue[j].task
    <2>1. \A j \in 1..Len(uiQueue) : IsPost(uiQueue[j]) =>
            \A i \in 1..(j - 1) : IsPost(uiQueue[i]) => uiQueue[i].task < uiQueue[j].task
        BY DEF TasksInOrder
    <2>2. \A i, j \in 1..Len(uiQueue) : i # j => i \in 1..(j - 1) \/ j \in 1..(i - 1)
        OBVIOUS
    <2>3. \A i \in 1..Len(uiQueue) : uiQueue[i].task \in Nat
        BY <1>0
    <2> SUFFICES ASSUME NEW i \in 1..Len(uiQueue), NEW j \in 1..Len(uiQueue),
                        IsPost(uiQueue[i]), IsPost(uiQueue[j]), i # j
                 PROVE  uiQueue[i].task # uiQueue[j].task
        OBVIOUS
    <2>4. uiQueue[i].task < uiQueue[j].task \/ uiQueue[j].task < uiQueue[i].task
        BY <2>1, <2>2
    <2> QED
        BY <2>3, <2>4
<1>7. (\A i \in 1..Len(tasks) : FALSE) => Len(tasks) = 0
    <2>1. Len(tasks) # 0 => 1 \in 1..Len(tasks)
        BY <1>0
    <2> QED
        BY <2>1
<1>8. task \notin disturbed \cup {0} => Len(tasks) = 0 /\ NoPost /\ post.task = 0
    BY <1>1, <1>2, <1>3, <1>4, <1>5, <1>7 DEF NoPost
<1>9. \A i \in 1..Len(tasks) : tasks[i] \notin disturbed => task = 0 /\ NoPost /\ post.task = 0
    BY <1>1, <1>2, <1>3, <1>4 DEF NoPost
<1>10. \A i \in 1..Len(uiQueue) : IsPost(uiQueue[i]) /\ uiQueue[i].task \notin disturbed =>
        /\ task = 0 /\ Len(tasks) = 0 /\ post.task = 0
        /\ \A j \in 1..Len(uiQueue) : IsPost(uiQueue[j]) => j = i
    BY <1>1, <1>2, <1>4, <1>6, <1>7
<1>11. post.task \notin disturbed \cup {0} => task = 0 /\ Len(tasks) = 0 /\ NoPost
    BY <1>1, <1>2, <1>3, <1>4, <1>5, <1>7 DEF NoPost
<1> QED
    BY <1>8, <1>9, <1>10, <1>11

(* Steps that move no task and touch neither the lists nor the worker's    *)
(* own variables.                                                          *)
LEMMA QuietLists ==
    ASSUME TypeInv, ListsInStep, QueuesKept, disturbed' = disturbed,
           UNCHANGED <<maxValList, maxIntensityIndex, n, best, lastmeanVal, slot, points>>,
           \/ UNCHANGED <<pc, meanVal>>
           \/ pc \notin {"add", "store"} /\ pc' \notin {"add", "store"}
    PROVE  ListsInStep'
<1>1. /\ UNCHANGED <<clicks, task, tasks>> /\ post'.task \in {0, post.task}
      /\ \A i \in 1..Len(uiQueue') : IsPost(uiQueue'[i]) =>
            \E j \in 1..Len(uiQueue) : uiQueue'[i] = uiQueue[j]
    BY DEF QueuesKept
<1>2. \A t \in Task :
        t > clicks' \/ (\E i \in 1..Len(tasks') : tasks'[i] = t) => points'[t] = <<>>
    BY <1>1 DEF ListsInStep
<1>3. \A i \in 1..Len(tasks') : tasks'[i] \notin disturbed' => maxValList' = <<>>
    BY <1>1 DEF ListsInStep, QueuedInStep
<1>4. task' \notin disturbed' \cup {0} => RunningInStep(task)'
    BY <1>1 DEF ListsInStep, RunningInStep, BestSoFar, Ramp
<1>5. \A t : PostedInStep(t) => PostedInStep(t)'
    BY DEF PostedInStep, Ramp
<1>6. \A i \in 1..Len(uiQueue') :
        IsPost(uiQueue'[i]) /\ uiQueue'[i].task \notin disturbed' => PostedInStep(uiQueue[i].task)'
    <2> SUFFICES ASSUME NEW i \in 1..Len(uiQueue'), IsPost(uiQueue'[i]),
                        uiQueue'[i].task \notin disturbed'
                 PROVE  PostedInStep(uiQueue[i].task)'
        OBVIOUS
    <2>1. PICK j \in 1..Len(uiQueue) : uiQueue'[i] = uiQueue[j]
        BY <1>1
    <2>2. PICK t : t = uiQueue[j].task
        OBVIOUS
    <2>3. PostedInStep(t)
        BY <2>1, <2>2 DEF ListsInStep
    <2>4. PostedInStep(t)'
        BY <1>5, <2>3
    <2> QED
        BY <2>1, <2>2, <2>4 DEF PostedInStep, Ramp
<1>7. post'.task \notin disturbed' \cup {0} => SavedInStep(post.task)'
    BY <1>1 DEF ListsInStep, SavedInStep, Ramp
<1> QED
    BY <1>2, <1>3, <1>4, <1>6, <1>7 DEF ListsInStep, QueuedInStep

(* Steps of the worker in the middle of its task: what is left to show is  *)
(* the stage of that task.                                                 *)
LEMMA WorkerLists ==
    ASSUME TypeInv, TasksInOrder, Alone, ListsInStep, task \in Task,
           QueuesKept, disturbed' = disturbed, UNCHANGED <<uiQueue, post>>,
           \A t \in Task : t # task => points'[t] = points[t],
           task \notin disturbed => RunningInStep(task)'
    PROVE  ListsInStep'
<1>0. task \in Nat /\ task # 0 /\ clicks \in Nat /\ Task \subseteq Nat
      /\ (\A i \in 1..Len(tasks) : tasks[i] \in Task) /\ (post.task # 0 => post.task \in Task)
    BY QueueTypes DEF TypeInv
<1>1. UNCHANGED <<clicks, task, tasks>>
    BY DEF QueuesKept
<1>2. \A i \in 1..Len(tasks) : tasks[i] \in disturbed
    BY <1>0, Exclusive
<1>3. \A i \in 1..Len(uiQueue) : IsPost(uiQueue[i]) => uiQueue[i].task \in disturbed
    BY <1>0, Exclusive
<1>4. post.task \in disturbed \cup {0}
    BY <1>0, Exclusive
<1>5. task <= clicks /\ \A i \in 1..Len(tasks) : task < tasks[i]
    BY DEF TasksInOrder, BeforeQueued
<1>6. \A t \in Task :
        t > clicks' \/ (\E i \in 1..Len(tasks') : tasks'[i] = t) => points'[t] = <<>>
    BY <1>0, <1>1, <1>5 DEF ListsInStep
<1>7. task' \notin disturbed' \cup {0} => RunningInStep(task)'
    BY <1>1
<1> QED
    BY <1>1, <1>2, <1>3, <1>4, <1>6, <1>7 DEF ListsInStep

(* The brightest aperture so far is kept by compare.                       *)
LEMMA CompareLists ==
    ASSUME TypeInv, TasksInOrder, Alone, ListsInStep, compare
    PROVE  ListsInStep'
<1>0. TypeOK /\ WorkerInStep
    BY DEF TypeInv
<1>1. /\ pc = "wait" /\ pc' = "add" /\ n < NPos
      /\ IF meanVal.val > lastmeanVal THEN best' = n + 1 /\ lastmeanVal' = meanVal.val
         ELSE UNCHANGED <<best, lastmeanVal>>
      /\ UNCHANGED <<task, n, slot, points, uiQueue, post, maxValList, meanVal>>
    BY DEF compare, WorkerOnly, listVars, camera
<1>2. task \in Task
    BY <1>0, <1>1 DEF WorkerInStep
<1>3. ASSUME task \notin disturbed PROVE RunningInStep(task)'
    <2>1. task # 0
        BY <1>0, <1>2, QueueTypes
    <2>2. RunningInStep(task)
        BY <1>3, <2>1 DEF ListsInStep
    <2>3. PICK l, m, b, v : l = maxValList /\ m = meanVal /\ b = best /\ v = lastmeanVal
        OBVIOUS
    <2>4. /\ Measured(l) /\ Len(l) = n
          /\ l = <<>> => v = -1
          /\ l # <<>> => IsFirstMax(l, b) /\ v = l[b].val
        BY <1>1, <2>2, <2>3 DEF RunningInStep, BestSoFar
    <2>5. l \in Seq(Mean) /\ m \in Mean /\ m.val # Null
        <3>1. maxValList \in Seq(Mean \cup {Null}) /\ meanVal \in Mean
            BY <1>0 DEF TypeOK, UiType, CameraType
        <3>2. \A i \in 1..Len(l) : l[i] \in Mean
            BY <2>4 DEF Measured, MapOf
        <3> QED
            BY <1>0, <2>3, <3>1, <3>2 DEF WorkerInStep
    <2>6. PICK a : a = Append(l, m)
        OBVIOUS
    <2>7. /\ a # <<>>
          /\ m.val > v => IsFirstMax(a, Len(l) + 1) /\ a[Len(l) + 1].val = m.val
          /\ ~(m.val > v) => IsFirstMax(a, b) /\ a[b].val = v
        <3>1. Measured(l) /\ (l = <<>> => v = -1) /\ (l # <<>> => IsFirstMax(l, b) /\ v = l[b].val)
            BY <2>4
        <3>2. /\ Append(l, m) # <<>>
              /\ m.val > v => /\ IsFirstMax(Append(l, m), Len(l) + 1)
                              /\ Append(l, m)[Len(l) + 1].val = m.val
              /\ ~(m.val > v) => IsFirstMax(Append(l, m), b) /\ Append(l, m)[b].val = v
            <4>1. b \in Int /\ v \in Int
                BY <1>0, <2>3 DEF TypeOK, WorkerType
            <4> QED
                BY <2>5, <3>1, <4>1, BestAppended
        <3> QED
            BY <2>6, <3>2
    <2>8. IsFirstMax(a, best') /\ lastmeanVal' = a[best'].val
        <3>1. CASE m.val > v
            <4>1. best' = Len(l) + 1 /\ lastmeanVal' = m.val
                BY <1>1, <2>3, <2>4, <3>1
            <4> QED
                BY <2>7, <3>1, <4>1
        <3>2. CASE ~(m.val > v)
            <4>1. best' = b /\ lastmeanVal' = v
                BY <1>1, <2>3, <3>2
            <4> QED
                BY <2>7, <3>2, <4>1
        <3> QED
            BY <3>1, <3>2
    <2>9. BestSoFar(IF pc \in {"add", "store"} THEN Append(maxValList, meanVal) ELSE maxValList)'
        BY <1>1, <2>3, <2>6, <2>7, <2>8 DEF BestSoFar
    <2>10. Len(points[task]) = 0
        BY <1>1, <2>2 DEF RunningInStep
    <2>11. Ramp(task, best)'
        BY <1>1, <2>10 DEF Ramp
    <2> QED
        BY <1>1, <2>2, <2>9, <2>11 DEF RunningInStep
<1>4. QueuesKept /\ disturbed' = disturbed
    BY QuietKeep
<1> QED
    BY <1>1, <1>2, <1>3, <1>4, WorkerLists

(* The size that add reads is the length of the list.                      *)
LEMMA ReadLists ==
    ASSUME TypeInv, TasksInOrder, Alone, ListsInStep, addReads
    PROVE  ListsInStep'
<1>0. TypeOK /\ WorkerInStep
    BY DEF TypeInv
<1>1. /\ pc = "add" /\ pc' = "store" /\ slot' = [at |-> Len(maxValList) + 1, mean |-> meanVal]
      /\ UNCHANGED <<task, n, best, lastmeanVal, points, uiQueue, post, maxValList, meanVal>>
    BY DEF addReads, WorkerOnly, listVars, camera
<1>2. task \in Task
    BY <1>0, <1>1 DEF WorkerInStep
<1>3. ASSUME task \notin disturbed PROVE RunningInStep(task)'
    <2>1. task # 0
        BY <1>0, <1>2, QueueTypes
    <2>2. RunningInStep(task)
        BY <1>3, <2>1 DEF ListsInStep
    <2> QED
        BY <1>1, <2>2 DEF RunningInStep, BestSoFar, Ramp
<1>4. QueuesKept /\ disturbed' = disturbed
    BY QuietKeep
<1> QED
    BY <1>1, <1>2, <1>3, <1>4, WorkerLists

(* What add writes is the picture of the next aperture, at the end.        *)
LEMMA WriteLists ==
    ASSUME TypeInv, CameraInStep, TasksInOrder, Alone, ListsInStep, addWrites
    PROVE  ListsInStep'
<1>0. TypeOK /\ WorkerInStep /\ NPos \in Nat \ {0} /\ n \in Nat
    BY CalibAssumption DEF TypeInv, TypeOK, WorkerType
<1>1. /\ pc = "store" /\ pc' = "draw" /\ n' = n + 1
      /\ maxValList' = [i \in 1..slot.at |->
                            IF i = slot.at THEN slot.mean
                            ELSE IF i <= Len(maxValList) THEN maxValList[i] ELSE Null]
      /\ UNCHANGED <<task, best, lastmeanVal, slot, points, uiQueue, post, meanVal>>
    BY DEF addWrites, WorkerOnly, camera
<1>2. task \in Task /\ n < NPos
    BY <1>0, <1>1 DEF WorkerInStep
<1>3. ASSUME task \notin disturbed PROVE RunningInStep(task)'
    <2>1. task # 0
        BY <1>0, <1>2, QueueTypes
    <2>2. RunningInStep(task)
        BY <1>3, <2>1 DEF ListsInStep
    <2>3. PICK l, m : l = maxValList /\ m = meanVal
        OBVIOUS
    <2>4. /\ Measured(l) /\ Len(l) = n /\ slot.at = Len(l) + 1 /\ slot.mean = m
          /\ BestSoFar(Append(l, m)) /\ Len(points[task]) = 0
        BY <1>1, <1>2, <2>2, <2>3 DEF RunningInStep
    <2>5. l \in Seq(Mean) /\ m \in Mean /\ m.val # Null
        <3>1. maxValList \in Seq(Mean \cup {Null}) /\ meanVal \in Mean
            BY <1>0 DEF TypeOK, UiType, CameraType
        <3>2. \A i \in 1..Len(l) : l[i] \in Mean
            BY <2>4 DEF Measured, MapOf
        <3> QED
            BY <1>0, <2>3, <3>1, <3>2 DEF WorkerInStep
    <2>6. PICK a : a = Append(l, m)
        OBVIOUS
    <2>7. maxValList' = a
        <3>1. maxValList' = [i \in 1..(Len(l) + 1) |-> IF i = Len(l) + 1 THEN m
                                ELSE IF i <= Len(l) THEN l[i] ELSE Null]
            BY <1>1, <2>3, <2>4
        <3>2. \A i \in 1..(Len(l) + 1) : i = Len(l) + 1 \/ i <= Len(l)
            BY <2>5
        <3>3. /\ a \in Seq(Mean) /\ Len(l) \in Nat /\ Len(a) = Len(l) + 1
              /\ \A i \in 1..Len(l) : a[i] = l[i]
              /\ a[Len(l) + 1] = m
            BY <2>5, <2>6, AppendFacts
        <3>4. a = [i \in 1..(Len(l) + 1) |-> a[i]]
            BY <3>3
        <3>5. \A i \in 1..(Len(l) + 1) :
                a[i] = IF i = Len(l) + 1 THEN m ELSE IF i <= Len(l) THEN l[i] ELSE Null
            BY <3>2, <3>3
        <3> QED
            BY <3>1, <3>4, <3>5
    <2>8. m.lit = <<Len(l) + 1, 0>>
        BY <1>1, <1>2, <2>3, <2>4 DEF CameraInStep, getCircle
    <2>9. Measured(a) /\ Len(a) = n + 1
        <3>1. Measured(a)
            BY <2>4, <2>5, <2>6, <2>8, MeasuredAppended
        <3>2. Len(a) = Len(l) + 1
            BY <2>5, <2>6, AppendFacts
        <3> QED
            BY <2>4, <3>1, <3>2
    <2>10. Measured(maxValList)' /\ Len(maxValList') = IF n' < NPos THEN n' ELSE NPos
        <3>1. Measured(maxValList)'
            BY <2>7, <2>9 DEF Measured, MapOf
        <3>2. Len(maxValList') = n + 1
            BY <2>7, <2>9
        <3>3. n' = n + 1 /\ n < NPos /\ n \in Nat /\ NPos \in Nat
            BY <1>0, <1>1, <1>2
        <3>4. Len(maxValList') = IF n' < NPos THEN n' ELSE NPos
            BY <3>2, <3>3
        <3> QED
            BY <3>1, <3>4
    <2>11. Len(points'[task']) = IF n' < NPos THEN 0 ELSE n' - NPos
        BY <1>0, <1>1, <1>2, <2>4
    <2>12. BestSoFar(IF pc \in {"add", "store"} THEN Append(maxValList, meanVal) ELSE maxValList)'
        BY <1>1, <2>4, <2>6, <2>7 DEF BestSoFar
    <2>13. Ramp(task, best)'
        BY <1>1, <2>4 DEF Ramp
    <2> QED
        BY <1>1, <2>10, <2>11, <2>12, <2>13 DEF RunningInStep
<1>4. QueuesKept /\ disturbed' = disturbed
    BY QuietKeep
<1> QED
    BY <1>1, <1>2, <1>3, <1>4, WorkerLists

(* A point of the ramp is the picture of its gray at the brightest         *)
(* aperture.                                                               *)
LEMMA PointLists ==
    ASSUME TypeInv, CameraInStep, TasksInOrder, Alone, ListsInStep, addPoint
    PROVE  ListsInStep'
<1>0. TypeOK /\ WorkerInStep /\ NPos \in Nat \ {0} /\ n \in Nat /\ meanVal.lit \in Pattern
    BY CalibAssumption DEF TypeInv, TypeOK, WorkerType, CameraType, Mean
<1>1. /\ pc = "wait" /\ cameraReady /\ pc' = "draw" /\ n >= NPos /\ n' = n + 1
      /\ points' = [points EXCEPT ![task] = Append(@, meanVal.lit)]
      /\ UNCHANGED <<task, best, lastmeanVal, slot, maxValList, uiQueue, post, meanVal>>
    BY DEF addPoint, WorkerOnly, listVars, camera
<1>2. task \in Task /\ points \in [Task -> Seq(Pattern)]
    BY <1>0, <1>1 DEF WorkerInStep, TypeOK, WorkerType
<1>3. ASSUME task \notin disturbed PROVE RunningInStep(task)'
    <2>1. task # 0
        BY <1>0, <1>2, QueueTypes
    <2>2. RunningInStep(task)
        BY <1>3, <2>1 DEF ListsInStep
    <2>3. PICK p, q, e : p = points[task] /\ q = points'[task] /\ e = meanVal.lit
        OBVIOUS
    <2>4. p \in Seq(Pattern) /\ e \in Pattern /\ q = Append(p, e)
        BY <1>0, <1>1, <1>2, <2>3
    <2>5. /\ Len(p) \in Nat /\ Len(q) = Len(p) + 1
          /\ \A i \in 1..Len(p) : q[i] = p[i]
          /\ q[Len(p) + 1] = e
        BY <2>4, AppendFacts
    <2>a. ~(n < NPos)
        BY <1>0, <1>1
    <2>b. Len(p) = n - NPos
        BY <2>2, <2>3, <2>a DEF RunningInStep
    <2>c. e = <<best, n - NPos + 1>>
        BY <1>1, <2>3, <2>a DEF CameraInStep, getCircle
    <2>6. Len(p) = n - NPos /\ e = <<best, n - NPos + 1>>
        BY <2>b, <2>c
    <2>7. \A i \in 1..Len(q) : i \in 1..Len(p) \/ i = Len(p) + 1
        BY <2>5
    <2>8. \A i \in 1..Len(p) : p[i] = <<best, i>>
        BY <2>2, <2>3 DEF RunningInStep, Ramp
    <2>9. \A i \in 1..Len(q) : q[i] = <<best, i>>
        BY <2>5, <2>6, <2>7, <2>8
    <2>10. Ramp(task, best)'
        BY <1>1, <2>3, <2>9 DEF Ramp
    <2>11. Len(points'[task']) = IF n' < NPos THEN 0 ELSE n' - NPos
        BY <1>0, <1>1, <2>3, <2>5, <2>6
    <2>12. Measured(maxValList)' /\ Len(maxValList') = IF n' < NPos THEN n' ELSE NPos
        BY <1>0, <1>1, <2>2 DEF RunningInStep, Measured, MapOf
    <2>13. BestSoFar(IF pc \in {"add", "store"} THEN Append(maxValList, meanVal) ELSE maxValList)'
        BY <1>1, <2>2 DEF RunningInStep, BestSoFar
    <2> QED
        BY <1>1, <2>10, <2>11, <2>12, <2>13 DEF RunningInStep
<1>4. QueuesKept /\ disturbed' = disturbed
    BY QuietKeep
<1>5. \A t \in Task : t # task => points'[t] = points[t]
    BY <1>1, <1>2
<1> QED
    BY <1>1, <1>2, <1>3, <1>4, <1>5, WorkerLists

(* A task starts with an empty list, unless it is disturbed.               *)
LEMMA StartLists ==
    ASSUME TypeInv, TasksInOrder, Alone, ListsInStep, start
    PROVE  ListsInStep'
<1>0. TypeOK /\ NPos \in Nat \ {0} /\ 0 \notin Task /\ Len(tasks) \in Nat
      /\ (post.task # 0 => post.task \in Task)
    BY CalibAssumption, QueueTypes DEF TypeInv
<1>1. /\ task = 0 /\ task' \in Task
      /\ 1 \in 1..Len(tasks) /\ task' = tasks[1]
      /\ \A i \in 1..Len(tasks') : i + 1 \in 1..Len(tasks) /\ tasks'[i] = tasks[i + 1]
      /\ \A i \in 1..Len(uiQueue') : IsPost(uiQueue'[i]) =>
            i \in 1..Len(uiQueue) /\ uiQueue'[i] = uiQueue[i]
      /\ UNCHANGED <<clicks, post, disturbed>>
    BY StartMoves
<1>2. /\ pc' = "draw" /\ n' = 0 /\ lastmeanVal' = -1 /\ UNCHANGED <<points, maxValList>>
    BY DEF start, listVars
<1>3. \A t \in Task :
        t > clicks' \/ (\E i \in 1..Len(tasks') : tasks'[i] = t) => points'[t] = <<>>
    BY <1>1, <1>2 DEF ListsInStep
<1>4. \A i \in 1..Len(tasks') : tasks'[i] \notin disturbed' => maxValList' = <<>>
    BY <1>1, <1>2 DEF ListsInStep, QueuedInStep
<1>5. ASSUME task' \notin disturbed' PROVE RunningInStep(task)'
    <2>1. maxValList = <<>>
        BY <1>1, <1>5 DEF ListsInStep, QueuedInStep
    <2>2. points[task'] = <<>>
        BY <1>1 DEF ListsInStep
    <2>3. maxValList' = <<>> /\ Len(maxValList') = 0 /\ Len(points'[task']) = 0
        BY <1>2, <2>1, <2>2
    <2>4. Measured(maxValList)'
        BY <2>3 DEF Measured, MapOf
    <2>5. Ramp(task, best)'
        BY <2>3 DEF Ramp
    <2>6. BestSoFar(IF pc \in {"add", "store"} THEN Append(maxValList, meanVal) ELSE maxValList)'
        BY <1>2, <2>3 DEF BestSoFar
    <2>7. n' < NPos
        BY <1>0, <1>2
    <2> QED
        BY <1>2, <2>3, <2>4, <2>5, <2>6, <2>7 DEF RunningInStep
<1>6. Len(tasks) # 0
    BY <1>0, <1>1
<1>7. \A i \in 1..Len(uiQueue') : IsPost(uiQueue'[i]) => uiQueue'[i].task \in disturbed'
    BY <1>1, <1>6, Exclusive
<1>8. post'.task \in disturbed' \cup {0}
    BY <1>1, <1>6, Exclusive
<1> QED
    BY <1>3, <1>4, <1>5, <1>7, <1>8 DEF ListsInStep, QueuedInStep

(* A task that ends hands over a list of all apertures and its ramp.       *)
LEMMA FinishLists ==
    ASSUME TypeInv, TasksInOrder, Alone, ListsInStep, finish
    PROVE  ListsInStep'
<1>0. TypeOK /\ NPos \in Nat \ {0} /\ NGamma \in Nat /\ 0 \notin Task
    BY CalibAssumption, QueueTypes DEF TypeInv
<1>1. /\ pc = "draw" /\ task \in Task /\ n = NPos + NGamma /\ task' = 0
      /\ \A i \in 1..Len(uiQueue') : IsPost(uiQueue'[i]) =>
            \/ uiQueue'[i].task = task
            \/ i \in 1..Len(uiQueue) /\ uiQueue'[i] = uiQueue[i]
      /\ UNCHANGED <<clicks, tasks, post, disturbed>>
    BY FinishMoves
<1>2. UNCHANGED <<points, maxValList, maxIntensityIndex, best>>
    BY DEF finish, listVars
<1>3. task # 0
    BY <1>0, <1>1
<1>4. \A t \in Task :
        t > clicks' \/ (\E i \in 1..Len(tasks') : tasks'[i] = t) => points'[t] = <<>>
    BY <1>1, <1>2 DEF ListsInStep
<1>5. \A i \in 1..Len(tasks') : tasks'[i] \notin disturbed' => maxValList' = <<>>
    BY <1>1, <1>2 DEF ListsInStep, QueuedInStep
<1>6. ASSUME task \notin disturbed PROVE PostedInStep(task)
    <2>1. RunningInStep(task)
        BY <1>3, <1>6 DEF ListsInStep
    <2>2. ~(n < NPos) /\ n - NPos = NGamma
        BY <1>0, <1>1
    <2>3. Measured(maxValList) /\ Len(maxValList) = NPos /\ Len(points[task]) = NGamma
          /\ Ramp(task, best)
        BY <2>1, <2>2 DEF RunningInStep
    <2>4. maxValList # <<>>
        BY <1>0, <2>3
    <2>5. IsFirstMax(maxValList, best)
        BY <1>1, <2>1, <2>4 DEF RunningInStep, BestSoFar
    <2> QED
        BY <2>3, <2>5 DEF PostedInStep
<1>7. ASSUME NEW i \in 1..Len(uiQueue'), IsPost(uiQueue'[i]), uiQueue'[i].task \notin disturbed'
      PROVE  PostedInStep(uiQueue[i].task)'
    <2>1. uiQueue'[i].task = task
        BY <1>1, <1>3, <1>7, Exclusive
    <2>2. PostedInStep(task)
        BY <1>1, <1>6, <1>7, <2>1
    <2> QED
        BY <1>2, <2>1, <2>2 DEF PostedInStep, Ramp
<1>8. post'.task \notin disturbed' \cup {0} => SavedInStep(post.task)'
    BY <1>1, <1>2 DEF ListsInStep, SavedInStep, Ramp
<1> QED
    BY <1>1, <1>4, <1>5, <1>7, <1>8 DEF ListsInStep, QueuedInStep

(* A click disturbs everything that is under way.                          *)
LEMMA ClickLists ==
    ASSUME TypeInv, TypeInv', TasksInOrder, SavingInOrder, Alone, ListsInStep, btnCalibrate
    PROVE  ListsInStep'
<1>0. TypeOK /\ TypeOK' /\ 0 \notin Task /\ clicks \in Nat /\ Task \subseteq Nat
    BY QueueTypes DEF TypeInv
<1>1. /\ post.at = "none"
      /\ clicks' = clicks + 1 /\ clicks' \in Task
      /\ Len(tasks) \in Nat /\ Len(tasks') = Len(tasks) + 1
      /\ \A i \in 1..Len(tasks) : tasks'[i] = tasks[i]
      /\ tasks'[Len(tasks) + 1] = clicks'
      /\ Unfinished' = Unfinished \cup {clicks'}
      /\ disturbed \subseteq disturbed'
      /\ \/ /\ Unfinished = {} /\ maxValList' = <<>> /\ disturbed' = disturbed
         \/ Unfinished' \subseteq disturbed'
      /\ UNCHANGED <<task, points, uiQueue, post>>
    BY ClickMoves
<1>2. /\ task # 0 => task \in Unfinished
      /\ \A i \in 1..Len(tasks) : tasks[i] \in Unfinished
      /\ \A i \in 1..Len(uiQueue) : IsPost(uiQueue[i]) => uiQueue[i].task \in Unfinished
    BY <1>0, AreUnfinished
<1>3. \A i \in 1..Len(tasks') : i \in 1..Len(tasks) \/ i = Len(tasks) + 1
    BY <1>1
<1>4. \A t \in Task :
        t > clicks' \/ (\E i \in 1..Len(tasks') : tasks'[i] = t) => points'[t] = <<>>
    <2> SUFFICES ASSUME NEW t \in Task, t > clicks' \/ (\E i \in 1..Len(tasks') : tasks'[i] = t)
                 PROVE  points[t] = <<>>
        BY <1>1
    <2>1. t > clicks \/ (\E i \in 1..Len(tasks) : tasks[i] = t)
        BY <1>0, <1>1, <1>3
    <2> QED
        BY <2>1 DEF ListsInStep
<1>5. \A i \in 1..Len(tasks') : tasks'[i] \notin disturbed' => maxValList' = <<>>
    BY <1>1, <1>2, <1>3
<1>6. task' \in disturbed' \cup {0}
    BY <1>1, <1>2
<1>7. \A i \in 1..Len(uiQueue') : IsPost(uiQueue'[i]) => uiQueue'[i].task \in disturbed'
    BY <1>1, <1>2
<1>8. post'.task = 0
    BY <1>1 DEF SavingInOrder
<1> QED
    BY <1>4, <1>5, <1>6, <1>7, <1>8 DEF ListsInStep, QueuedInStep

(* onPostExecute of an undisturbed task does not throw, finds the aperture *)
(* of the ramp and keeps the map.                                          *)
LEMMA PostLists ==
    ASSUME TypeInv, TasksInOrder, Alone, ListsInStep, onPostExecute
    PROVE  ListsInStep'
<1>0. TypeOK /\ 0 \notin Task /\ NPos \in Nat \ {0}
      /\ (\A i \in 1..Len(uiQueue) : uiQueue[i].task \in Task)
      /\ (\A i \in 1..Len(tasks) : tasks[i] \in Task) /\ (task # 0 => task \in Task)
    BY QueueTypes, CalibAssumption DEF TypeInv
<1>1. /\ 1 \in 1..Len(uiQueue) /\ IsPost(uiQueue[1])
      /\ \A i \in 1..Len(uiQueue') :
            i + 1 \in 1..Len(uiQueue) /\ uiQueue'[i] = uiQueue[i + 1]
      /\ \/ UNCHANGED <<post, listVars>>
         \/ /\ ~Thrown
            /\ maxIntensityIndex' = getMaxIndex(maxValList)
            /\ maxValList' = normalize(maxValList, maxIntensityIndex')
            /\ post'.task = uiQueue[1].task
      /\ UNCHANGED <<clicks, task, tasks, pc, n, best, lastmeanVal, slot, points, meanVal,
                     disturbed>>
    BY PostMoves
<1>2. PICK t : t = uiQueue[1].task
    OBVIOUS
<1>3. t \in Task /\ t # 0
    BY <1>0, <1>1, <1>2
<1>4. t \notin disturbed => PostedInStep(t)
    BY <1>1, <1>2 DEF ListsInStep
<1>5. ASSUME t \notin disturbed
      PROVE  /\ ~Thrown /\ maxValList \in Seq(Mean) /\ Measured(maxValList)
             /\ Len(maxValList) = NPos /\ IsFirstMax(maxValList, best)
             /\ Len(points[t]) = NGamma /\ Ramp(t, best)
    <2>1. /\ Measured(maxValList) /\ Len(maxValList) = NPos /\ IsFirstMax(maxValList, best)
          /\ Len(points[t]) = NGamma /\ Ramp(t, best)
        BY <1>4, <1>5 DEF PostedInStep
    <2>2. maxValList \in Seq(Mean \cup {Null})
        BY <1>0 DEF TypeOK, UiType
    <2>3. \A i \in 1..Len(maxValList) : maxValList[i] \in Mean
        BY <2>1 DEF Measured, MapOf
    <2>4. maxValList \in Seq(Mean) /\ DOMAIN maxValList = 1..Len(maxValList)
        BY <2>2, <2>3
    <2>5. ~Thrown
        BY <1>0, <2>1, <2>3, <2>4, NullAssumption DEF Thrown
    <2> QED
        BY <2>1, <2>4, <2>5
<1>7. \A u \in Task :
        u > clicks' \/ (\E i \in 1..Len(tasks') : tasks'[i] = u) => points'[u] = <<>>
    BY <1>1 DEF ListsInStep
<1>8. CASE UNCHANGED <<post, listVars>>
    <2>1. UNCHANGED <<post, maxValList, maxIntensityIndex>>
        BY <1>1, <1>8 DEF listVars
    <2>2. \A i \in 1..Len(uiQueue') : \E j \in 1..Len(uiQueue) : uiQueue'[i] = uiQueue[j]
        BY <1>1
    <2>3. QueuesKept
        BY <1>1, <2>1, <2>2 DEF QueuesKept
    <2> QED
        BY <1>1, <2>1, <2>3, QuietLists
<1>9. CASE /\ ~Thrown
           /\ maxIntensityIndex' = getMaxIndex(maxValList)
           /\ maxValList' = normalize(maxValList, maxIntensityIndex')
           /\ post'.task = uiQueue[1].task
    <2>1. /\ maxIntensityIndex' = getMaxIndex(maxValList)
          /\ maxValList' = normalize(maxValList, maxIntensityIndex')
          /\ post'.task = t
        BY <1>1, <1>2, <1>9
    <2>2. \A i \in 1..Len(tasks') : tasks'[i] \in disturbed'
        BY <1>1, Exclusive DEF NoPost
    <2>3. task' \in disturbed' \cup {0}
        BY <1>1, Exclusive DEF NoPost
    <2>4. \A i \in 1..Len(uiQueue') : IsPost(uiQueue'[i]) => uiQueue'[i].task \in disturbed'
        <3> SUFFICES ASSUME NEW i \in 1..Len(uiQueue'), IsPost(uiQueue'[i])
                     PROVE  uiQueue'[i].task \in disturbed
            BY <1>1
        <3>1. i + 1 \in 1..Len(uiQueue) /\ uiQueue'[i] = uiQueue[i + 1] /\ i + 1 # 1
            BY <1>1
        <3> QED
            BY <1>1, <3>1, Exclusive
    <2>5. ASSUME t \notin disturbed PROVE SavedInStep(post.task)'
        <3>1. /\ maxValList \in Seq(Mean) /\ Measured(maxValList)
              /\ Len(maxValList) = NPos /\ IsFirstMax(maxValList, best)
              /\ Len(points[t]) = NGamma /\ Ramp(t, best)
            BY <1>5, <2>5
        <3>2. PICK l, b : l = maxValList /\ b = best
            OBVIOUS
        <3>3. maxIntensityIndex' = b /\ b \in 1..Len(l)
            <4>1. l \in Seq(Mean) /\ Measured(l) /\ IsFirstMax(l, b)
                BY <3>1, <3>2
            <4>2. getMaxIndex(l) = b
                BY <4>1, MaxIndexIsBest
            <4> QED
                BY <2>1, <3>2, <4>1, <4>2 DEF IsFirstMax
        <3>4. /\ normalize(l, b) \in Seq(Mean) /\ Len(normalize(l, b)) = Len(l)
              /\ \A i \in 1..Len(l) : normalize(l, b)[i].lit = l[i].lit
            BY <3>1, <3>2, <3>3, NormalizeFacts
        <3>5. PICK k : k = normalize(l, b)
            OBVIOUS
        <3>6. k \in Seq(Mean) /\ Len(k) = NPos /\ \A i \in 1..Len(k) : k[i].lit = <<i, 0>>
            BY <3>1, <3>2, <3>4, <3>5 DEF Measured, MapOf
        <3>7. MapOf(k)
            BY <3>6 DEF MapOf
        <3>8. maxValList' = k
            BY <2>1, <3>2, <3>3, <3>5
        <3>9. MapOf(maxValList)' /\ Len(maxValList') = NPos
            BY <3>6, <3>7, <3>8 DEF MapOf
        <3>10. Len(points'[post'.task]) = NGamma /\ Ramp(post.task, maxIntensityIndex)'
            BY <1>1, <2>1, <3>1, <3>2, <3>3 DEF Ramp
        <3> QED
            BY <3>9, <3>10 DEF SavedInStep
    <2>6. post'.task \notin disturbed' \cup {0} => SavedInStep(post.task)'
        BY <1>1, <2>1, <2>5
    <2> QED
        BY <1>7, <1>9, <2>2, <2>3, <2>4, <2>6 DEF ListsInStep
<1> QED
    BY <1>1, <1>8, <1>9

(* Every step keeps the stages of the undisturbed tasks.                   *)
LEMMA NextLists ==
    ASSUME StoredInv, TypeInv', Alone, ListsInStep, Next
    PROVE  ListsInStep'
<1>0. TypeInv /\ TypeOK /\ CameraInStep /\ TasksInOrder /\ SavingInOrder
    BY DEF StoredInv, TypeInv
<1>1. CASE draw \/ takePicture \/ takePictureLock
    <2>1. /\ UNCHANGED <<maxValList, maxIntensityIndex, n, best, lastmeanVal, slot, points>>
          /\ pc \notin {"add", "store"} /\ pc' \notin {"add", "store"}
        BY <1>1 DEF draw, takePicture, takePictureLock, listVars
    <2>2. QueuesKept /\ disturbed' = disturbed
        BY <1>0, <1>1, QuietKeep
    <2> QED
        BY <1>0, <2>1, <2>2, QuietLists
<1>2. CASE Looper
    <2>1. UNCHANGED <<maxValList, maxIntensityIndex, n, best, lastmeanVal, slot, points, pc>>
        BY <1>2 DEF Looper, previewResult, resultAdvances, resultIgnored, unlockFocus,
            imageReady, onImageAvailable, LooperOnly, workerVars, listVars
    <2>2. UNCHANGED meanVal \/ pc = "wait"
        <3>1. CASE onImageAvailable
            BY <1>0, <3>1, ImageThere DEF CameraInStep
        <3>2. CASE ~onImageAvailable
            BY <1>2, <3>2 DEF Looper, previewResult, resultAdvances, resultIgnored, unlockFocus,
                imageReady, ResultLeavesAlone, LooperOnly
        <3> QED
            BY <3>1, <3>2
    <2>3. QueuesKept /\ disturbed' = disturbed
        BY <1>0, <1>2, QuietKeep
    <2>4. UNCHANGED <<pc, meanVal>> \/ (pc \notin {"add", "store"} /\ pc' \notin {"add", "store"})
        BY <2>1, <2>2
    <2> QED
        BY <1>0, <2>1, <2>3, <2>4, QuietLists
<1>3. CASE kill \/ save \/ onProgressUpdate
    <2>1. UNCHANGED <<maxValList, maxIntensityIndex, n, best, lastmeanVal, slot, points, pc, meanVal>>
        BY <1>3 DEF kill, save, onProgressUpdate, UiOnly, workerVars, listVars, camera
    <2>2. QueuesKept /\ disturbed' = disturbed
        BY <1>0, <1>3, QuietKeep
    <2> QED
        BY <1>0, <2>1, <2>2, QuietLists
<1>4. CASE restart
    <2>1. /\ tasks' = <<>> /\ task' = 0 /\ uiQueue' = <<>> /\ post'.task = 0
          /\ UNCHANGED <<clicks, points>>
        BY <1>4 DEF restart
    <2>2. 1..Len(tasks') = {} /\ 1..Len(uiQueue') = {}
        BY <2>1
    <2> QED
        BY <2>1, <2>2 DEF ListsInStep
<1>5. CASE btnCalibrate
    BY <1>0, <1>5, ClickLists
<1>6. CASE start
    BY <1>0, <1>6, StartLists
<1>7. CASE finish
    BY <1>0, <1>7, FinishLists
<1>8. CASE compare \/ addReads
    BY <1>0, <1>8, CompareLists, ReadLists
<1>9. CASE addWrites \/ addPoint
    BY <1>0, <1>9, WriteLists, PointLists
<1>10. CASE onPostExecute
    BY <1>0, <1>10, PostLists
<1> QED
    BY <1>1, <1>2, <1>3, <1>4, <1>5, <1>6, <1>7, <1>8, <1>9, <1>10 DEF Next, Worker, Ui

------------------------------------------------------------------------------
(* What is stored.                                                         *)

(* What a save stores under each key.                                      *)
LEMMA SaveStores ==
    ASSUME TypeOK, save
    PROVE  /\ post.at = "Maxint" \/ prefs'.Maxint = prefs.Maxint
           /\ post.at = "Maxint" => prefs'.Maxint = [task |-> post.task, list |-> maxValList]
           /\ post.at = "Centerposition" \/ prefs'.Centerposition = prefs.Centerposition
           /\ post.at = "Centerposition" =>
                prefs'.Centerposition = [task |-> post.task, index |-> maxIntensityIndex]
           /\ UNCHANGED <<points, disturbed, maxValList, maxIntensityIndex, life>>
<1>1. PICK k, t : k = post.at /\ t = post.task
    OBVIOUS
<1>2. /\ k # "none" /\ prefs' = [prefs EXCEPT ![k] = ToSave(k, t)]
      /\ UNCHANGED <<points, disturbed, maxValList, maxIntensityIndex, life>>
    BY <1>1 DEF save, UiOnly, workerVars, ghosts, listVars
<1>3. prefs \in Stored
    BY DEF TypeOK, StoredType
<1>4. k = "Maxint" \/ prefs'.Maxint = prefs.Maxint
    BY <1>2, <1>3 DEF Stored
<1>5. k = "Maxint" => prefs'.Maxint = [task |-> t, list |-> maxValList]
    BY <1>2, <1>3 DEF Stored, ToSave
<1>6. k = "Centerposition" \/ prefs'.Centerposition = prefs.Centerposition
    BY <1>2, <1>3 DEF Stored
<1>7. k = "Centerposition" =>
        prefs'.Centerposition = [task |-> t, index |-> maxIntensityIndex]
    BY <1>2, <1>3 DEF Stored, ToSave
<1> QED
    BY <1>1, <1>2, <1>4, <1>5, <1>6, <1>7

(* The stored map stays one of its own apertures.                          *)
LEMMA NextMap ==
    ASSUME StoredInv, TypeInv', Alone, ListsInStep, MapOfOwnApertures, Next
    PROVE  MapOfOwnApertures'
<1>0. TypeInv /\ TypeOK
    BY DEF StoredInv, TypeInv
<1>1. disturbed \subseteq disturbed'
    BY <1>0, NextAlone
<1>2. CASE prefs'.Maxint = prefs.Maxint
    BY <1>1, <1>2 DEF MapOfOwnApertures
<1>3. CASE save /\ post.at = "Maxint"
    <2>1. prefs'.Maxint = [task |-> post.task, list |-> maxValList]
        BY <1>0, <1>3, SaveStores
    <2>2. prefs'.Maxint.task = post.task /\ prefs'.Maxint.list = maxValList
        BY <2>1
    <2>3. ASSUME post.task \notin disturbed' \cup {0}
          PROVE  Len(maxValList) = NPos /\ \A xi \in Pos : maxValList[xi].lit = <<xi, 0>>
        <3>1. SavedInStep(post.task)
            BY <1>1, <2>3 DEF ListsInStep
        <3> QED
            BY <3>1 DEF SavedInStep, MapOf, Pos
    <2> QED
        BY <2>2, <2>3 DEF MapOfOwnApertures
<1>4. save \/ prefs' = prefs
    <2>1. restart => prefs' = prefs
        BY DEF restart
    <2> QED
        BY <2>1, PostStep
<1>5. (save /\ post.at = "Maxint") \/ prefs'.Maxint = prefs.Maxint
    BY <1>0, <1>4, SaveStores
<1> QED
    BY <1>2, <1>3, <1>5

(* The stored centre stays the one of the task's ramp: the ramps of later  *)
(* tasks are other lists.                                                  *)
LEMMA NextRamp ==
    ASSUME StoredInv, TypeInv', Alone, ListsInStep, RampAtTheCentre, Next
    PROVE  RampAtTheCentre'
<1>0. TypeInv /\ TypeOK /\ WorkerInStep /\ points \in [Task -> Seq(Pattern)]
      /\ (post.task # 0 => post.task \in Task) /\ 0 \notin Task /\ Task \subseteq Nat
    <2>1. TypeInv /\ TypeOK /\ WorkerInStep
        BY DEF StoredInv, TypeInv
    <2>2. points \in [Task -> Seq(Pattern)]
        BY <2>1 DEF TypeOK, WorkerType
    <2> QED
        BY <2>1, <2>2, QueueTypes
<1>1. disturbed \subseteq disturbed'
    BY <1>0, NextAlone
<1>2. PICK c : c = prefs.Centerposition.task
    OBVIOUS
<1>3. c \in 0..MaxClicks /\ c = Commit[5] /\ (c # 0 => c \in Task)
    BY <1>0, <1>2, CommitTypes, CalibAssumption, SMTT(30) DEF Task
<1>4. c # 0 => points'[c] = points[c]
    <2>1. CASE addPoint
        <3>1. task \in Task /\ points' = [points EXCEPT ![task] = Append(@, meanVal.lit)]
            BY <1>0, <2>1 DEF addPoint, WorkerInStep
        <3>2. task # 0
            BY <1>0, <3>1
        <3>3. c < task
            BY <1>3, <3>2 DEF StoredInv, TasksInOrder, BeforePosted, BeforeWorker
        <3>4. c # task
            BY <1>0, <1>3, <3>1, <3>3
        <3> QED
            BY <1>0, <1>3, <3>1, <3>4
    <2>2. CASE ~addPoint
        <3>1. UNCHANGED points
            BY <2>2 DEF Next, btnCalibrate, Worker, start, draw, takePicture, takePictureLock,
                compare, addReads, addWrites, finish, Looper, previewResult, resultAdvances,
                resultIgnored, unlockFocus, imageReady, onImageAvailable, LooperOnly, Ui, UiOnly,
                onProgressUpdate, onPostExecute, save, kill, restart, workerVars
        <3> QED
            BY <3>1
    <2> QED
        BY <2>1, <2>2
<1>5. CASE prefs'.Centerposition = prefs.Centerposition
    BY <1>1, <1>2, <1>4, <1>5 DEF RampAtTheCentre
<1>6. CASE save /\ post.at = "Centerposition"
    <2>1. /\ prefs'.Centerposition = [task |-> post.task, index |-> maxIntensityIndex]
          /\ UNCHANGED points
        BY <1>0, <1>6, SaveStores
    <2>2. prefs'.Centerposition.task = post.task
          /\ prefs'.Centerposition.index = maxIntensityIndex
        BY <2>1
    <2>3. ASSUME post.task \notin disturbed' \cup {0}
          PROVE  points[post.task] = [ii \in 1..NGamma |-> <<maxIntensityIndex, ii>>]
        <3>1. SavedInStep(post.task)
            BY <1>1, <2>3 DEF ListsInStep
        <3>2. PICK p : p = points[post.task]
            OBVIOUS
        <3>3. /\ p \in Seq(Pattern) /\ Len(p) = NGamma
              /\ \A ii \in 1..NGamma : p[ii] = <<maxIntensityIndex, ii>>
            BY <1>0, <2>3, <3>1, <3>2 DEF SavedInStep, Ramp
        <3>4. p = [ii \in 1..NGamma |-> p[ii]]
            BY <3>3
        <3> QED
            BY <3>2, <3>3, <3>4
    <2> QED
        BY <2>1, <2>2, <2>3 DEF RampAtTheCentre
<1>7. save \/ prefs' = prefs
    <2>1. restart => prefs' = prefs
        BY DEF restart
    <2> QED
        BY <2>1, PostStep
<1>8. (save /\ post.at = "Centerposition") \/ prefs'.Centerposition = prefs.Centerposition
    BY <1>0, <1>7, SaveStores
<1> QED
    BY <1>5, <1>6, <1>8

------------------------------------------------------------------------------
(* The theorems.                                                           *)

(* The initial state.                                                      *)
LEMMA InitCalib == Init => CalibInv
<1> SUFFICES ASSUME Init PROVE CalibInv
    OBVIOUS
<1>1. StoredInv
    BY InitStored
<1>2. TypeOK /\ 0 \notin Task
    BY <1>1, QueueTypes DEF StoredInv, TypeInv
<1>3. task = 0 /\ post.task = 0 /\ Len(tasks) = 0 /\ Len(uiQueue) = 0
      /\ points = [t \in Task |-> <<>>] /\ life = "alive"
      /\ prefs.Maxint.task = 0 /\ prefs.Centerposition.task = 0
    BY DEF Init
<1>4. 1..Len(tasks) = {} /\ 1..Len(uiQueue) = {}
    BY <1>3
<1>5. Unfinished = {}
    <2>1. ASSUME NEW t \in Unfinished PROVE FALSE
        <3>1. t \in Task
            BY DEF Unfinished
        <3>2. \/ t = task
              \/ t = post.task
              \/ \E i \in 1..Len(tasks) : tasks[i] = t
              \/ \E i \in 1..Len(uiQueue) : IsPost(uiQueue[i]) /\ uiQueue[i].task = t
            BY <1>2, <3>1, UnfinishedIs
        <3> QED
            BY <1>2, <1>3, <1>4, <3>1, <3>2
    <2> QED
        BY <2>1
<1>6. Alone
    BY <1>5 DEF Alone
<1>7. ListsInStep
    BY <1>3, <1>4 DEF ListsInStep
<1>8. MapOfOwnApertures /\ RampAtTheCentre
    BY <1>3 DEF MapOfOwnApertures, RampAtTheCentre
<1> QED
    BY <1>1, <1>6, <1>7, <1>8 DEF CalibInv

(* CalibInv is inductive.                                                  *)
LEMMA NextCalib ==
    ASSUME SleepSuffices, ReportsAf
    PROVE  CalibInv /\ [Next]_vars => CalibInv'
<1> SUFFICES ASSUME CalibInv, [Next]_vars PROVE CalibInv'
    OBVIOUS
<1>0. StoredInv /\ Alone /\ ListsInStep /\ MapOfOwnApertures /\ RampAtTheCentre
      /\ TypeInv
    BY DEF CalibInv, StoredInv
<1>1. StoredInv' /\ TypeInv'
    BY <1>0, NextStored DEF StoredInv
<1>2. CASE Next
    BY <1>0, <1>1, <1>2, NextAlone, NextLists, NextMap, NextRamp DEF CalibInv
<1>3. CASE UNCHANGED vars
    <2>1. UNCHANGED <<clicks, tasks, task, pc, n, best, lastmeanVal, slot, points, uiQueue, post,
                      maxValList, maxIntensityIndex, meanVal, prefs, life, disturbed>>
        BY <1>3 DEF vars, workerVars, uiVars, listVars, camera, ghosts
    <2>2. Alone'
        <3>1. Unfinished' = Unfinished
            BY <2>1 DEF Unfinished
        <3> QED
            BY <1>0, <2>1, <3>1 DEF Alone
    <2>3. ListsInStep'
        BY <1>0, <2>1, QuietLists DEF QueuesKept
    <2>4. MapOfOwnApertures' /\ RampAtTheCentre'
        BY <1>0, <2>1 DEF MapOfOwnApertures, RampAtTheCentre
    <2> QED
        BY <1>1, <2>2, <2>3, <2>4 DEF CalibInv
<1> QED
    BY <1>2, <1>3

(* Under sleeps that are long enough and on a device that reports its AF   *)
(* state, a task whose lists nobody else used stores a map of all the      *)
(* apertures, each value measured under its own aperture (doInBackground,  *)
(* onImageAvailable, onPostExecute).                                       *)
THEOREM OwnApertures == ASSUME SleepSuffices, ReportsAf PROVE Spec => []MapOfOwnApertures
<1>1. CalibInv => MapOfOwnApertures
    BY DEF CalibInv
<1>2. CalibInv /\ [Next]_vars => CalibInv'
    BY NextCalib
<1> QED
    BY <1>1, <1>2, InitCalib, PTL DEF Spec

(* Under the same assumptions the centre that getMaxIndex finds in the     *)
(* list is the aperture at which doInBackground measured the gray ramp,    *)
(* and the ramp is complete.                                               *)
THEOREM RampCentred == ASSUME SleepSuffices, ReportsAf PROVE Spec => []RampAtTheCentre
<1>1. CalibInv => RampAtTheCentre
    BY DEF CalibInv
<1>2. CalibInv /\ [Next]_vars => CalibInv'
    BY NextCalib
<1> QED
    BY <1>1, <1>2, InitCalib, PTL DEF Spec

=============================================================================
