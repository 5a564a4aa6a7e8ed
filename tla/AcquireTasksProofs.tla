------------------------- MODULE AcquireTasksProofs -------------------------
(***************************************************************************)
(* What holds of AcquireTasks for every choice of modes, counts and user   *)
(* actions: its types, that runProcess writes its results beside its       *)
(* inputs, and that background and object pictures are kept apart; with    *)
(* SleepSuffices, that runProcess finds its inputs; and with Careful too,  *)
(* that light, file names and saved sources agree and DPC sets are whole.  *)
(***************************************************************************)
EXTENDS AcquireTasks, TLAPS

USE DEF vars, settings, work, light, camera, storage, UiFree, Free

(* What Tail leaves of a sequence.                                         *)
LEMMA TailFacts ==
    ASSUME NEW S, NEW s \in Seq(S), s # <<>>
    PROVE  /\ Head(s) \in S
           /\ Head(s) = s[1]
           /\ Len(s) \in Nat \ {0}
           /\ Tail(s) \in Seq(S)
           /\ Len(Tail(s)) = Len(s) - 1
           /\ \A i \in 1..Len(Tail(s)) : i + 1 \in 1..Len(s) /\ Tail(s)[i] = s[i + 1]
    OBVIOUS

(* What Append adds to a sequence.                                         *)
LEMMA AppendFacts ==
    ASSUME NEW S, NEW s \in Seq(S), NEW e \in S
    PROVE  /\ Append(s, e) \in Seq(S)
           /\ Len(s) \in Nat
           /\ Len(Append(s, e)) = Len(s) + 1
           /\ \A i \in 1..Len(s) : Append(s, e)[i] = s[i]
           /\ Append(s, e)[Len(s) + 1] = e
    OBVIOUS

(* The task at the head of the executor's queue.                           *)
LEMMA HeadTask ==
    ASSUME TypeOK, queue # <<>>
    PROVE  /\ Head(queue) \in Task
           /\ Head(queue).id \in Event /\ Head(queue).kind \in Kind
           /\ Head(queue).dir \in Dir /\ Head(queue).bg \in BOOLEAN
           /\ Tail(queue) \in Seq(Task)
<1>1. queue \in Seq(Task)
    BY DEF TypeOK, ThreadType
<1>2. Head(queue) \in Task /\ Tail(queue) \in Seq(Task)
    BY <1>1, TailFacts
<1> QED
    BY <1>2 DEF Task

(* The message at the head of the UI thread's queue.                       *)
LEMMA HeadMessage ==
    ASSUME TypeOK, uiQueue # <<>>
    PROVE  /\ Head(uiQueue) \in Message
           /\ Head(uiQueue).task \in Task
           /\ Tail(uiQueue) \in Seq(Message)
<1>1. uiQueue \in Seq(Message)
    BY DEF TypeOK, ThreadType
<1>2. Head(uiQueue) \in Message /\ Tail(uiQueue) \in Seq(Message)
    BY <1>1, TailFacts
<1> QED
    BY <1>2 DEF Message

(* The constants and patterns the actions use are well typed.              *)
LEMMA PatternTypes ==
    /\ Default \in Pattern
    /\ \A n \in Event : UserPattern(n) \in Pattern
    /\ \A t \in Task, f \in Counter : FramePattern(t, f) \in Pattern
    /\ \A t \in Task : Optimum(t) \in Pattern
    /\ NoTask \in Task
    /\ \A t \in Task, d \in Dir, f \in Counter : Named(t, d, f) \in [file : File, by : Task]
    /\ <<0, 0>> \in Counter
<1>0. 0 \in Event
    BY TasksAssumption DEF Event
<1>1. <<0, 0>> \in Counter
    BY DEF Counter
<1>2. Default \in Pattern /\ \A n \in Event : UserPattern(n) \in Pattern
    BY <1>0, <1>1 DEF Default, UserPattern, Pattern
<1>3. \A t \in Task, f \in Counter : FramePattern(t, f) \in Pattern
    BY <1>1 DEF FramePattern, Pattern, Task
<1>4. \A t \in Task : Optimum(t) \in Pattern
    BY <1>1 DEF Optimum, Pattern, Task
<1>5. NoTask \in Task
    BY <1>0 DEF NoTask, Task, Kind, Folder, Dir, DirOf
<1>6. \A t \in Task, d \in Dir, f \in Counter : Named(t, d, f) \in [file : File, by : Task]
    BY DEF Named, File, Task
<1> QED
    BY <1>1, <1>2, <1>3, <1>4, <1>5, <1>6

(* A touch gives a new timestamp and directories of that time.             *)
LEMMA TouchTypes ==
    ASSUME TypeOK, NEW c, Touch(c)
    PROVE  /\ clock + 1 \in Event /\ clock' = clock + 1 /\ ui = "idle"
           /\ \A m \in Folder, b \in BOOLEAN : DirOf(m, b, clock + 1) \in Dir
           /\ \A m \in Modes, b \in BOOLEAN : m \in Folder /\ MyDir(m, b) \in Dir
           /\ \A k \in Kind, d \in Dir, b \in BOOLEAN :
                [id |-> clock + 1, kind |-> k, dir |-> d, bg |-> b] \in Task
<1>1. clock + 1 \in Event /\ clock' = clock + 1 /\ ui = "idle"
    BY TasksAssumption DEF Touch, TypeOK, SettingsType, Event
<1>2. \A m \in Folder, b \in BOOLEAN : DirOf(m, b, clock + 1) \in Dir
    BY <1>1 DEF DirOf, Dir
<1>3. \A m \in Modes : m \in Folder
    BY TasksAssumption DEF Folder
<1>4. \A m \in Modes, b \in BOOLEAN : MyDir(m, b) \in Dir
    BY <1>2, <1>3 DEF MyDir, TypeOK, SettingsType
<1>5. \A k \in Kind, d \in Dir, b \in BOOLEAN :
        [id |-> clock + 1, kind |-> k, dir |-> d, bg |-> b] \in Task
    BY <1>1 DEF Task
<1> QED
    BY <1>1, <1>2, <1>3, <1>4, <1>5

(* onPreExecute keeps the paths well typed.                                *)
LEMMA PreExecuteTypes ==
    ASSUME TypeOK, NEW c, Touch(c), NEW m \in Modes, NEW bg \in BOOLEAN, onPreExecute(m, bg)
    PROVE  /\ g_path' \in [Folder -> Dir] /\ g_path_BG' \in [Modes -> Dir]
           /\ acquireBackground' = FALSE
<1>1. MyDir(m, bg) \in Dir /\ m \in Folder /\ DirOf("MM", FALSE, clock + 1) \in Dir
    BY TouchTypes DEF Folder
<1> QED
    BY <1>1 DEF onPreExecute, TypeOK, SettingsType

(* One of the loopers captures a still.                                    *)
Captured == \E l \in Looper : captureStillPicture(l)

(* Every action of the user keeps the types.                               *)
LEMMA UserTyped == TypeOK /\ User => TypeOK'
<1> SUFFICES ASSUME TypeOK, User PROVE TypeOK'
    OBVIOUS
<1> USE DEF TypeOK, SettingsType, ThreadType, CameraType, StorageType
<1>0. {"DPC", "Capture", "Process"} \subseteq Kind /\ {"DPC", "Capture"} \subseteq Folder
      /\ Modes \subseteq Kind
    BY TasksAssumption DEF Kind, Folder
<1>1. CASE btnAcquire
    <2>1. MyDir(acquireType, acquireBackground) \in Dir
        BY <1>1, TouchTypes DEF btnAcquire
    <2> DEFINE t == [id |-> clock + 1, kind |-> acquireType,
                     dir |-> MyDir(acquireType, acquireBackground), bg |-> FALSE]
    <2>t. t \in Task
        BY <1>0, <1>1, <2>1, TouchTypes DEF btnAcquire
    <2>2. queue' \in Seq(Task)
        <3>1. queue' = Append(queue, t)
            BY <1>1 DEF btnAcquire, Start
        <3> QED
            BY <2>t, <3>1, AppendFacts
    <2>3. clock' \in Event /\ g_path' \in [Folder -> Dir] /\ g_path_BG' \in [Modes -> Dir]
          /\ acquireBackground' \in BOOLEAN
        BY <1>1, TouchTypes, PreExecuteTypes DEF btnAcquire
    <2> QED
        <3>1. SettingsType' /\ ThreadType'
            BY <1>1, <2>2, <2>3 DEF btnAcquire, Touch
        <3>2. CameraType' /\ StorageType'
            BY <1>1 DEF btnAcquire
        <3> QED
            BY <3>1, <3>2
<1>2. CASE btnAcquireBG
    <2>1. MyDir(acquireType, TRUE) \in Dir
        BY <1>2, TouchTypes DEF btnAcquireBG
    <2> DEFINE t == [id |-> clock + 1, kind |-> acquireType,
                     dir |-> MyDir(acquireType, TRUE), bg |-> TRUE]
    <2>t. t \in Task
        BY <1>0, <1>2, <2>1, TouchTypes DEF btnAcquireBG
    <2>2. queue' \in Seq(Task)
        <3>1. queue' = Append(queue, t)
            BY <1>2 DEF btnAcquireBG, Start
        <3> QED
            BY <2>t, <3>1, AppendFacts
    <2>3. clock' \in Event /\ g_path' \in [Folder -> Dir] /\ g_path_BG' \in [Modes -> Dir]
          /\ acquireBackground' \in BOOLEAN
        BY <1>2, TouchTypes, PreExecuteTypes DEF btnAcquireBG
    <2> QED
        <3>1. SettingsType' /\ ThreadType'
            BY <1>2, <2>2, <2>3 DEF btnAcquireBG, Touch
        <3>2. CameraType' /\ StorageType'
            BY <1>2 DEF btnAcquireBG
        <3> QED
            BY <3>1, <3>2
<1>3. CASE btnCapture
    <2>1. DirOf("Capture", FALSE, clock + 1) \in Dir
        BY <1>0, <1>3, TouchTypes DEF btnCapture
    <2>2. queue' \in Seq(Task)
        BY <1>0, <1>3, <2>1, TouchTypes, AppendFacts DEF btnCapture, Start
    <2>3. clock' \in Event /\ g_path' \in [Folder -> Dir]
        BY <1>3, <2>1, TouchTypes DEF btnCapture
    <2> QED
        <3>1. SettingsType' /\ ThreadType'
            BY <1>3, <2>2, <2>3 DEF btnCapture, Touch
        <3>2. CameraType' /\ StorageType'
            BY <1>3 DEF btnCapture
        <3> QED
            BY <3>1, <3>2
<1>4. CASE btnProcess
    <2>1. queue' \in Seq(Task)
        BY <1>0, <1>4, TouchTypes, AppendFacts DEF btnProcess, Start
    <2>2. clock' \in Event
        BY <1>4, TouchTypes DEF btnProcess
    <2>3. SettingsType'
        BY <1>4, <2>2 DEF btnProcess, settings
    <2>4. ThreadType'
        BY <1>4, <2>1 DEF btnProcess
    <2>5. CameraType' /\ StorageType'
        BY <1>4 DEF btnProcess, light, camera, storage
    <2> QED
        BY <2>3, <2>4, <2>5
<1>5. CASE slideTo
    <2>1. clock' \in Event /\ UserPattern(clock + 1) \in Pattern
        BY <1>5, TouchTypes, PatternTypes DEF slideTo
    <2> QED
        BY <1>5, <2>1 DEF slideTo
<1>6. CASE setAcqMethod
    <2>1. clock' \in Event /\ UserPattern(clock + 1) \in Pattern
        BY <1>6, TouchTypes, PatternTypes DEF setAcqMethod
    <2> QED
        BY <1>6, <2>1 DEF setAcqMethod
<1>7. CASE setMmCount
    <2>1. clock' \in Event
        BY <1>7, TouchTypes DEF setMmCount
    <2> QED
        BY <1>7, <2>1 DEF setMmCount
<1>8. CASE slideToExposuretime
    <2>1. clock' \in Event
        BY <1>8, TouchTypes DEF slideToExposuretime
    <2> QED
        BY <1>8, <2>1 DEF slideToExposuretime, Looper
<1> QED
    BY <1>1, <1>2, <1>3, <1>4, <1>5, <1>6, <1>7, <1>8 DEF User

(* The names of the light source files are well typed.                     *)
LEMMA SourceFilesTyped ==
    ASSUME TypeOK, queue # <<>>
    PROVE  SourceFiles(Head(queue), frame) \subseteq File
<1>1. g_path["DF"] \in Dir /\ g_path["MM"] \in Dir /\ frame \in Counter
    BY DEF TypeOK, SettingsType, ThreadType, Folder
<1>2. \A d \in Dir, k \in Folder, f \in Counter : [dir |-> d, kind |-> k, frame |-> f] \in File
    BY DEF File, Kind
<1>3. {"DF", "BF", "MM", "Capture"} \subseteq Folder
    BY DEF Folder
<1>4. CASE Head(queue).kind = "DF"
    <2>1. SourceFiles(Head(queue), frame) =
            {[dir |-> g_path["DF"], kind |-> "DF", frame |-> <<0, 0>>]}
        BY <1>4 DEF SourceFiles
    <2>2. <<0, 0>> \in Counter
        BY PatternTypes
    <2>3. [dir |-> g_path["DF"], kind |-> "DF", frame |-> <<0, 0>>] \in File
        BY <1>1, <1>2, <1>3, <2>2
    <2> QED
        BY <2>1, <2>3
<1>5. CASE Head(queue).kind \in {"BF", "MM"}
    <2>1. SourceFiles(Head(queue), frame) =
            {[dir |-> g_path["MM"], kind |-> Head(queue).kind, frame |-> frame]}
        BY <1>5 DEF SourceFiles
    <2> QED
        BY <1>1, <1>2, <1>3, <1>5, <2>1
<1>6. CASE Head(queue).kind = "Capture"
    <2>1. SourceFiles(Head(queue), frame) =
            {[dir |-> Head(queue).dir, kind |-> "Capture", frame |-> frame]}
        BY <1>6 DEF SourceFiles
    <2> QED
        BY <1>1, <1>2, <1>3, <2>1, HeadTask
<1>7. CASE Head(queue).kind \notin {"DF", "BF", "MM", "Capture"}
    BY <1>7 DEF SourceFiles
<1> QED
    BY <1>4, <1>5, <1>6, <1>7

(* Every step of the worker keeps the types.                               *)
LEMMA WorkerTyped == TypeOK /\ Worker => TypeOK'
<1> SUFFICES ASSUME TypeOK, Worker PROVE TypeOK'
    OBVIOUS
<1>q. queue # <<>> /\ ~dead
    BY DEF Worker, Running, doInBackground, drawFrame, nameFrame, takePicture, frameReady,
           saveSource, taskDone, readInputs, optimise
<1>t. /\ Head(queue) \in Task
      /\ Head(queue).dir \in Dir
      /\ Tail(queue) \in Seq(Task)
    BY <1>q, HeadTask
<1>p. ASSUME NEW m \in {"progress", "post"}, Publish(m)
      PROVE  uiQueue' \in Seq(Message) /\ uiQueue' # <<>>
    <2>1. [msg |-> m, task |-> Head(queue)] \in Message
        BY <1>t DEF Message
    <2>2. uiQueue \in Seq(Message) /\ uiQueue' = Append(uiQueue, [msg |-> m, task |-> Head(queue)])
        BY <1>p DEF Publish, TypeOK, ThreadType
    <2> QED
        BY <2>1, <2>2, AppendFacts
<1>f. <<0, 0>> \in Counter /\ NextFrame(Head(queue).kind) \in Counter
    BY DEF NextFrame, Counter, TypeOK, ThreadType
<1> USE DEF TypeOK, SettingsType, ThreadType, CameraType, StorageType
<1>1. CASE doInBackground
    BY <1>1, <1>p, <1>f DEF doInBackground
<1>2. CASE drawFrame
    <2>1. FramePattern(Head(queue), frame) \in Pattern
        BY <1>t, PatternTypes
    <2> QED
        BY <1>2, <1>p, <2>1 DEF drawFrame
<1>3. CASE nameFrame
    <2>1. Named(Head(queue), Head(queue).dir, frame) \in [file : File, by : Task]
        BY <1>t, PatternTypes
    <2> QED
        BY <1>3, <2>1 DEF nameFrame
<1>4. CASE takePicture
    BY <1>4 DEF takePicture
<1>5. CASE frameReady
    BY <1>5 DEF frameReady
<1>6. CASE saveSource
    <2> DEFINE ss == SourceFiles(Head(queue), frame)
    <2>1. ss \subseteq File
        BY <1>q, SourceFilesTyped
    <2>2. [by |-> Head(queue), light |-> mBitmap] \in [by : Task, light : Pattern]
        BY <1>t
    <2>3. /\ DOMAIN sources' = DOMAIN sources \cup ss
          /\ \A s \in DOMAIN sources' :
                sources'[s] = IF s \in ss THEN [by |-> Head(queue), light |-> mBitmap]
                              ELSE sources[s]
        BY <1>6 DEF saveSource, WithSources
    <2>4. /\ DOMAIN sources' \subseteq File
          /\ \A s \in DOMAIN sources' : sources'[s] \in [by : Task, light : Pattern]
        BY <2>1, <2>2, <2>3
    <2> QED
        BY <1>6, <1>f, <2>4 DEF saveSource
<1>7. CASE taskDone
    BY <1>7, <1>p, <1>t DEF taskDone
<1>8. CASE readInputs
    <2>1. results' \subseteq [from : Dir, to : Dir]
        BY <1>8, <1>t DEF readInputs, Folder
    <2>2. worker' \in {"start", "draw", "name", "lock", "wait", "save", "optimise"}
          /\ dead' \in BOOLEAN
        BY <1>8 DEF readInputs
    <2> QED
        BY <1>8, <2>1, <2>2 DEF readInputs
<1>9. CASE optimise
    <2>1. results' \subseteq [from : Dir, to : Dir]
        BY <1>9, <1>t DEF optimise, Folder
    <2>2. Optimum(Head(queue)) \in Pattern
        BY <1>t, PatternTypes
    <2> QED
        BY <1>9, <1>p, <1>t, <2>1, <2>2 DEF optimise
<1> QED
    BY <1>1, <1>2, <1>3, <1>4, <1>5, <1>6, <1>7, <1>8, <1>9 DEF Worker

(* Every step of the UI thread keeps the types.                            *)
LEMMA UiTyped == TypeOK /\ UiThread => TypeOK'
<1> SUFFICES ASSUME TypeOK, UiThread PROVE TypeOK'
    OBVIOUS
<1> USE DEF TypeOK, SettingsType, ThreadType, CameraType, StorageType
<1>1. CASE onProgressUpdate
    BY <1>1, HeadMessage DEF onProgressUpdate, Receive
<1>2. CASE onPostExecute
    <2>1. uiQueue' \in Seq(Message) /\ ui = "idle"
        BY <1>2, HeadMessage DEF onPostExecute, Receive
    <2>2. mBitmap' \in Pattern
        BY <1>2, PatternTypes DEF onPostExecute
    <2>3. screen' \in Pattern
        BY <1>2, <2>2 DEF onPostExecute
    <2> QED
        BY <1>2, <2>1, <2>2, <2>3 DEF onPostExecute, Receive, Looper
<1>3. CASE onPostExecuteProcess
    BY <1>3 DEF onPostExecuteProcess
<1>4. CASE nameOptimal
    <2>1. Head(uiQueue).task \in Task /\ g_path["DPC"] \in Dir
        BY <1>4, HeadMessage DEF nameOptimal, Folder
    <2>2. Named(Head(uiQueue).task, g_path["DPC"], <<0, 0>>) \in [file : File, by : Task]
        BY <2>1, PatternTypes
    <2> QED
        BY <1>4, <2>2 DEF nameOptimal
<1>5. CASE takeOptimal
    BY <1>5 DEF takeOptimal
<1>6. CASE optimalReady
    BY <1>6, HeadMessage DEF optimalReady, Looper
<1> QED
    BY <1>1, <1>2, <1>3, <1>4, <1>5, <1>6 DEF UiThread

(* Every step of the camera keeps the types.                               *)
LEMMA CameraTyped ==
    TypeOK /\ (CameraCallback \/ onImageAvailable) => TypeOK'
<1> SUFFICES ASSUME TypeOK, CameraCallback \/ onImageAvailable
             PROVE  TypeOK'
    OBVIOUS
<1> USE DEF TypeOK, SettingsType, ThreadType, CameraType, StorageType
<1>1. ASSUME NEW l \in Looper, process(l) PROVE TypeOK'
    BY <1>1 DEF process
<1>2. ASSUME NEW l \in Looper, captureStillPicture(l) PROVE TypeOK'
    <2>1. exposed' \in Seq(Pattern)
        BY <1>2, AppendFacts DEF captureStillPicture
    <2>2. due' \in [Looper -> Nat] /\ preview' = "off"
        BY <1>2 DEF captureStillPicture
    <2>3. \A k \in Looper : busy'[k] = "unlocked" => due'[k] > 0
        BY <1>2 DEF captureStillPicture
    <2> QED
        BY <1>2, <2>1, <2>2, <2>3 DEF captureStillPicture
<1>3. ASSUME NEW l \in Looper, unlockFocus(l) PROVE TypeOK'
    BY <1>3 DEF unlockFocus, Looper
<1>5. ASSUME NEW l \in Looper, setReady(l) PROVE TypeOK'
    <2>1. due[l] \in Nat /\ due[l] > 0 /\ due' = [due EXCEPT ![l] = due[l] - 1]
        BY <1>5 DEF setReady
    <2>2. due' \in [Looper -> Nat]
        BY <2>1
    <2>3. \A k \in Looper : busy'[k] = "unlocked" => due'[k] > 0
        BY <1>5, <2>1 DEF setReady
    <2> QED
        BY <1>5, <2>2, <2>3 DEF setReady
<1>4. CASE onImageAvailable
    <2>1. Head(exposed) \in Pattern /\ Tail(exposed) \in Seq(Pattern)
        BY <1>4, TailFacts DEF onImageAvailable
    <2> DEFINE k == full_image_file.file
               v == [by |-> full_image_file.by, light |-> Head(exposed)]
    <2>2. k \in File /\ v \in [by : Task, light : Pattern]
        BY <2>1
    <2>3. /\ DOMAIN pictures' = DOMAIN pictures \cup {k}
          /\ \A p \in DOMAIN pictures' : pictures'[p] = IF p = k THEN v ELSE pictures[p]
        BY <1>4 DEF onImageAvailable, Put
    <2>4. /\ DOMAIN pictures' \subseteq File
          /\ \A p \in DOMAIN pictures' : pictures'[p] \in [by : Task, light : Pattern]
        BY <2>2, <2>3
    <2> QED
        BY <1>4, <2>1, <2>4 DEF onImageAvailable
<1> QED
    BY <1>1, <1>2, <1>3, <1>4, <1>5 DEF CameraCallback, Callback, Completion

(* The initial state is well typed.                                        *)
LEMMA InitTyped == Init => TypeOK
<1> SUFFICES ASSUME Init PROVE TypeOK
    OBVIOUS
<1>0. 0 \in Event
    BY TasksAssumption DEF Event
<1>1. SettingsType
    BY <1>0, TasksAssumption DEF Init, SettingsType, DirOf, Dir, Folder
<1>2. ThreadType
    BY PatternTypes DEF Init, ThreadType
<1>5. CameraType
    <2>1. <<>> \in Seq(Pattern)
        OBVIOUS
    <2>2. mBitmap \in Pattern /\ screen \in Pattern
        BY PatternTypes DEF Init
    <2> QED
        BY <2>1, <2>2 DEF Init, CameraType, Looper
<1>3. full_image_file \in [file : File, by : Task]
    BY PatternTypes DEF Init, Task
<1>4. StorageType
    <2>1. DOMAIN pictures = {} /\ DOMAIN sources = {}
        BY DEF Init
    <2> QED
        BY <1>3, <2>1 DEF Init, StorageType
<1> QED
    BY <1>1, <1>2, <1>4, <1>5 DEF TypeOK

(* The state of the acquisitions is well typed in every behaviour.         *)
THEOREM TasksTypeCorrect == Spec => []TypeOK
<1>1. TypeOK /\ [Next]_vars => TypeOK'
    <2>1. CASE UNCHANGED vars
        BY <2>1 DEF TypeOK, SettingsType, ThreadType, CameraType, StorageType
    <2> QED
        BY <2>1, UserTyped, WorkerTyped, UiTyped, CameraTyped DEF Next
<1> QED
    BY <1>1, InitTyped, PTL DEF Spec

------------------------------------------------------------------------------
(* One runProcess at a time, and its results beside its inputs.            *)

(* A task submitted by a button is the last of the executor's queue.       *)
LEMMA Started ==
    ASSUME TypeOK, NEW c, Touch(c), NEW k \in Kind, NEW d \in Dir, NEW b \in BOOLEAN,
           Start(k, d, b)
    PROVE  /\ Len(queue) \in Nat /\ Len(queue') = Len(queue) + 1
           /\ \A i \in 1..Len(queue) : queue'[i] = queue[i]
           /\ queue'[Len(queue) + 1].kind = k
           /\ queue'[Len(queue) + 1].dir = d
           /\ queue'[Len(queue) + 1].bg = b
<1> DEFINE t == [id |-> clock + 1, kind |-> k, dir |-> d, bg |-> b]
<1>1. t \in Task
    BY TouchTypes
<1>2. queue \in Seq(Task) /\ queue' = Append(queue, t)
    BY DEF Start, TypeOK, ThreadType
<1>3. t.kind = k /\ t.dir = d /\ t.bg = b
    OBVIOUS
<1> HIDE DEF t
<1> QED
    BY <1>1, <1>2, <1>3, AppendFacts

(* A message published by the worker is the last of the UI thread's queue. *)
LEMMA Published ==
    ASSUME TypeOK, queue # <<>>, NEW m \in {"progress", "post"}, Publish(m)
    PROVE  /\ Len(uiQueue) \in Nat /\ Len(uiQueue') = Len(uiQueue) + 1
           /\ \A i \in 1..Len(uiQueue) : uiQueue'[i] = uiQueue[i]
           /\ uiQueue'[Len(uiQueue) + 1].task = Head(queue)
           /\ uiQueue'[Len(uiQueue) + 1].msg = m
<1> DEFINE e == [msg |-> m, task |-> Head(queue)]
<1>1. e \in Message
    BY HeadTask DEF Message
<1>2. uiQueue \in Seq(Message) /\ uiQueue' = Append(uiQueue, e)
    BY DEF Publish, TypeOK, ThreadType
<1>3. e.task = Head(queue) /\ e.msg = m
    OBVIOUS
<1> HIDE DEF e
<1> QED
    BY <1>1, <1>2, <1>3, AppendFacts

(* The first task leaves the executor's queue.                             *)
LEMMA Finished ==
    ASSUME TypeOK, queue # <<>>, queue' = Tail(queue)
    PROVE  /\ Len(queue) \in Nat \ {0} /\ Len(queue') = Len(queue) - 1
           /\ Head(queue) = queue[1]
           /\ \A i \in 1..Len(queue') : i + 1 \in 1..Len(queue) /\ queue'[i] = queue[i + 1]
    BY TailFacts DEF TypeOK, ThreadType

(* The first message leaves the UI thread's queue.                         *)
LEMMA Received ==
    ASSUME TypeOK, uiQueue # <<>>, uiQueue' = Tail(uiQueue)
    PROVE  /\ Len(uiQueue) \in Nat \ {0} /\ Len(uiQueue') = Len(uiQueue) - 1
           /\ Head(uiQueue) = uiQueue[1]
           /\ \A i \in 1..Len(uiQueue') :
                i + 1 \in 1..Len(uiQueue) /\ uiQueue'[i] = uiQueue[i + 1]
    BY TailFacts DEF TypeOK, ThreadType

(* The user's actions start a second runProcess only when there is none,   *)
(* and move g_DPC_path only then.                                          *)
LEMMA UserOneProcess == TypeOK /\ OneProcess /\ User => OneProcess'
<1> SUFFICES ASSUME TypeOK, OneProcess, User PROVE OneProcess'
    OBVIOUS
<1>0. "Process" \notin Folder /\ Modes \subseteq Folder /\ Folder \subseteq Kind
      /\ "Process" \in Kind /\ "DPC" \in Folder /\ "Capture" \in Folder
    BY TasksAssumption DEF Folder, Kind
<1>t. acquireType \in Modes /\ acquireBackground \in BOOLEAN /\ g_path \in [Folder -> Dir]
    BY DEF TypeOK, SettingsType
<1>1. CASE btnAcquire
    <2> DEFINE d == MyDir(acquireType, acquireBackground)
    <2>1. d \in Dir /\ enabled /\ enabled' = enabled /\ ui = "idle" /\ ui' = ui
          /\ uiQueue' = uiQueue
        BY <1>1, <1>t, TouchTypes DEF btnAcquire
    <2>2. Start(acquireType, d, FALSE)
        BY <1>1 DEF btnAcquire
    <2>3. /\ Len(queue) \in Nat /\ Len(queue') = Len(queue) + 1
          /\ \A i \in 1..Len(queue) : queue'[i] = queue[i]
          /\ queue'[Len(queue) + 1].kind = acquireType
        BY <1>0, <1>1, <1>t, <2>1, <2>2, Started DEF btnAcquire
    <2> QED
        BY <1>0, <1>t, <2>1, <2>3 DEF OneProcess, IsProcess
<1>2. CASE btnAcquireBG
    <2> DEFINE d == MyDir(acquireType, TRUE)
    <2>1. d \in Dir /\ enabled' = enabled /\ ui = "idle" /\ ui' = ui /\ uiQueue' = uiQueue
        BY <1>2, <1>t, TouchTypes DEF btnAcquireBG
    <2>2. Start(acquireType, d, TRUE) /\ g_path' = g_path
        BY <1>2 DEF btnAcquireBG, onPreExecute
    <2>3. /\ Len(queue) \in Nat /\ Len(queue') = Len(queue) + 1
          /\ \A i \in 1..Len(queue) : queue'[i] = queue[i]
          /\ queue'[Len(queue) + 1].kind = acquireType
        BY <1>0, <1>2, <1>t, <2>1, <2>2, Started DEF btnAcquireBG
    <2> QED
        BY <1>0, <1>t, <2>1, <2>2, <2>3 DEF OneProcess, IsProcess
<1>3. CASE btnCapture
    <2> DEFINE d == DirOf("Capture", FALSE, clock + 1)
    <2>1. d \in Dir /\ enabled' = enabled /\ ui = "idle" /\ ui' = ui /\ uiQueue' = uiQueue
        BY <1>0, <1>3, TouchTypes DEF btnCapture
    <2>2. Start("Capture", d, FALSE) /\ g_path'["DPC"] = g_path["DPC"]
        BY <1>0, <1>3, <1>t DEF btnCapture
    <2>3. /\ Len(queue) \in Nat /\ Len(queue') = Len(queue) + 1
          /\ \A i \in 1..Len(queue) : queue'[i] = queue[i]
          /\ queue'[Len(queue) + 1].kind = "Capture"
        BY <1>0, <1>3, <2>1, <2>2, Started DEF btnCapture
    <2>4. \A i \in 1..Len(queue') : IsProcess(queue'[i]) => i \in 1..Len(queue) /\ IsProcess(queue[i])
        BY <2>3 DEF IsProcess
    <2> QED
        BY <2>1, <2>2, <2>3, <2>4 DEF OneProcess, IsProcess
<1>4. CASE btnProcess
    <2>1. enabled /\ enabled' = FALSE /\ ui = "idle" /\ ui' = ui /\ uiQueue' = uiQueue
          /\ g_path' = g_path /\ g_path["DPC"] \in Dir
        BY <1>0, <1>4, <1>t, TouchTypes DEF btnProcess
    <2>2. /\ Len(queue) \in Nat /\ Len(queue') = Len(queue) + 1
          /\ \A i \in 1..Len(queue) : queue'[i] = queue[i]
          /\ queue'[Len(queue) + 1].dir = g_path["DPC"]
        BY <1>0, <1>4, <2>1, Started DEF btnProcess
    <2>3. /\ \A i \in 1..Len(queue) : ~IsProcess(queue[i])
          /\ \A i \in 1..Len(uiQueue) : ~IsProcess(uiQueue[i].task)
        BY <2>1 DEF OneProcess
    <2> QED
        BY <2>1, <2>2, <2>3 DEF OneProcess, IsProcess
<1>5. CASE slideTo \/ setAcqMethod \/ setMmCount \/ slideToExposuretime
    <2>1. UNCHANGED <<queue, uiQueue, ui, enabled, g_path>>
        BY <1>5 DEF slideTo, setAcqMethod, setMmCount, slideToExposuretime
    <2> QED
        BY <2>1 DEF OneProcess
<1> QED
    BY <1>1, <1>2, <1>3, <1>4, <1>5 DEF User

(* The worker hands its runProcess over to the UI thread.                  *)
LEMMA WorkerOneProcess == TypeOK /\ OneProcess /\ Worker => OneProcess'
<1> SUFFICES ASSUME TypeOK, OneProcess, Worker PROVE OneProcess'
    OBVIOUS
<1>0. "Process" \notin Folder
    BY DEF Folder
<1>1. UNCHANGED <<ui, enabled, g_path>>
    BY DEF Worker, doInBackground, drawFrame, nameFrame, takePicture, frameReady,
           saveSource, taskDone, readInputs, optimise
<1>2. CASE UNCHANGED <<queue, uiQueue>>
    BY <1>1, <1>2 DEF OneProcess
<1>3. ASSUME queue' = queue, queue # <<>>, Head(queue).kind \in Folder, Publish("progress")
      PROVE  OneProcess'
    <2>1. /\ Len(uiQueue) \in Nat /\ Len(uiQueue') = Len(uiQueue) + 1
          /\ \A i \in 1..Len(uiQueue) : uiQueue'[i] = uiQueue[i]
          /\ ~IsProcess(uiQueue'[Len(uiQueue) + 1].task)
        BY <1>0, <1>3, Published DEF IsProcess
    <2>2. \A j \in 1..Len(uiQueue') :
            IsProcess(uiQueue'[j].task) => j \in 1..Len(uiQueue) /\ IsProcess(uiQueue[j].task)
        BY <2>1
    <2>3. ASSUME NEW i \in 1..Len(queue'), IsProcess(queue'[i])
          PROVE  /\ ~enabled' /\ ui' = "idle" /\ queue'[i].dir = g_path'["DPC"]
                 /\ \A j \in 1..Len(queue') : IsProcess(queue'[j]) => i = j
                 /\ \A j \in 1..Len(uiQueue') : ~IsProcess(uiQueue'[j].task)
        BY <1>1, <1>3, <2>2, <2>3 DEF OneProcess
    <2>4. ASSUME NEW i \in 1..Len(uiQueue'), IsProcess(uiQueue'[i].task)
          PROVE  /\ ui' = "idle" => ~enabled'
                 /\ ui' # "idle" => i = 1
                 /\ \A j \in 1..Len(uiQueue') : IsProcess(uiQueue'[j].task) => i = j
        BY <1>1, <2>2, <2>4 DEF OneProcess
    <2> QED
        BY <2>3, <2>4 DEF OneProcess
<1>4. ASSUME queue # <<>>, queue' = Tail(queue), Publish("post") PROVE OneProcess'
    <2>1. /\ Len(uiQueue) \in Nat /\ Len(uiQueue') = Len(uiQueue) + 1
          /\ \A i \in 1..Len(uiQueue) : uiQueue'[i] = uiQueue[i]
          /\ uiQueue'[Len(uiQueue) + 1].task = queue[1]
        BY <1>4, Published, Finished
    <2>2. /\ Len(queue) \in Nat \ {0} /\ Len(queue') = Len(queue) - 1
          /\ \A i \in 1..Len(queue') : i + 1 \in 1..Len(queue) /\ queue'[i] = queue[i + 1]
        BY <1>4, Finished
    <2>3. ASSUME NEW i \in 1..Len(queue'), IsProcess(queue'[i])
          PROVE  /\ ~enabled' /\ ui' = "idle" /\ queue'[i].dir = g_path'["DPC"]
                 /\ \A j \in 1..Len(queue') : IsProcess(queue'[j]) => i = j
                 /\ \A j \in 1..Len(uiQueue') : ~IsProcess(uiQueue'[j].task)
        <3>1. i + 1 \in 1..Len(queue) /\ IsProcess(queue[i + 1])
            BY <2>2, <2>3
        <3>2. ~IsProcess(queue[1])
            BY <2>2, <3>1 DEF OneProcess
        <3>3. /\ ~enabled /\ ui = "idle" /\ queue[i + 1].dir = g_path["DPC"]
              /\ \A j \in 1..Len(queue) : IsProcess(queue[j]) => i + 1 = j
              /\ \A j \in 1..Len(uiQueue) : ~IsProcess(uiQueue[j].task)
            BY <3>1 DEF OneProcess
        <3>4. ~enabled' /\ ui' = "idle" /\ queue'[i].dir = g_path'["DPC"]
            BY <1>1, <2>2, <3>3
        <3>5. ASSUME NEW j \in 1..Len(queue'), IsProcess(queue'[j]) PROVE i = j
            <4>1. j + 1 \in 1..Len(queue) /\ IsProcess(queue[j + 1])
                BY <2>2, <3>5
            <4>2. i + 1 = j + 1
                BY <3>3, <4>1
            <4>3. i \in Int /\ j \in Int
                BY <2>2
            <4> QED
                BY <4>2, <4>3
        <3>6. ASSUME NEW j \in 1..Len(uiQueue') PROVE ~IsProcess(uiQueue'[j].task)
            BY <2>1, <3>2, <3>3
        <3> QED
            BY <3>4, <3>5, <3>6
    <2>4. ASSUME NEW i \in 1..Len(uiQueue'), IsProcess(uiQueue'[i].task)
          PROVE  /\ ui' = "idle" => ~enabled'
                 /\ ui' # "idle" => i = 1
                 /\ \A j \in 1..Len(uiQueue') : IsProcess(uiQueue'[j].task) => i = j
        <3>1. CASE IsProcess(queue[1])
            <4>1. 1 \in 1..Len(queue)
                BY <2>2
            <4>2. ~enabled /\ ui = "idle" /\ \A j \in 1..Len(uiQueue) : ~IsProcess(uiQueue[j].task)
                BY <3>1, <4>1 DEF OneProcess
            <4> QED
                BY <1>1, <2>1, <2>4, <4>2
        <3>2. CASE ~IsProcess(queue[1])
            BY <1>1, <2>1, <2>4, <3>2 DEF OneProcess
        <3> QED
            BY <3>1, <3>2
    <2> QED
        BY <2>3, <2>4 DEF OneProcess
<1> QED
    BY <1>2, <1>3, <1>4 DEF Worker, doInBackground, drawFrame, nameFrame, takePicture,
        frameReady, saveSource, taskDone, readInputs, optimise, Running

(* onPostExecute of runProcess enables the buttons when no other is left.  *)
LEMMA UiOneProcess == TypeOK /\ OneProcess /\ UiThread => OneProcess'
<1> SUFFICES ASSUME TypeOK, OneProcess, UiThread PROVE OneProcess'
    OBVIOUS
<1>0. "Process" \notin Folder
    BY DEF Folder
<1>1. CASE onProgressUpdate \/ onPostExecute
    <2>1. uiQueue # <<>> /\ uiQueue' = Tail(uiQueue) /\ UNCHANGED <<queue, ui, enabled, g_path>>
          /\ ui = "idle"
        BY <1>1 DEF onProgressUpdate, onPostExecute, Receive
    <2>2. /\ Len(uiQueue) \in Nat \ {0} /\ Len(uiQueue') = Len(uiQueue) - 1
          /\ \A i \in 1..Len(uiQueue') : i + 1 \in 1..Len(uiQueue) /\ uiQueue'[i] = uiQueue[i + 1]
        BY <2>1, Received
    <2> QED
        BY <2>1, <2>2 DEF OneProcess
<1>2. CASE onPostExecuteProcess
    <2>1. /\ UNCHANGED <<queue, uiQueue, g_path>> /\ ui' = "name"
          /\ 1 \in 1..Len(uiQueue) /\ IsProcess(uiQueue[1].task)
        BY <1>2, TailFacts DEF onPostExecuteProcess, IsProcess, TypeOK, ThreadType
    <2>2. \A i \in 1..Len(queue) : ~IsProcess(queue[i])
        BY <2>1 DEF OneProcess
    <2> QED
        BY <2>1, <2>2 DEF OneProcess
<1>3. CASE nameOptimal \/ takeOptimal
    <2>1. UNCHANGED <<queue, uiQueue, enabled, g_path>> /\ ui # "idle" /\ ui' # "idle"
        BY <1>3 DEF nameOptimal, takeOptimal
    <2> QED
        BY <2>1 DEF OneProcess
<1>4. CASE optimalReady
    <2>1. /\ UNCHANGED <<queue, enabled, g_path>> /\ ui # "idle"
          /\ uiQueue # <<>> /\ uiQueue' = Tail(uiQueue)
        BY <1>4 DEF optimalReady, TypeOK, ThreadType
    <2>2. /\ Len(uiQueue) \in Nat \ {0} /\ Len(uiQueue') = Len(uiQueue) - 1
          /\ \A i \in 1..Len(uiQueue') : i + 1 \in 1..Len(uiQueue) /\ uiQueue'[i] = uiQueue[i + 1]
        BY <2>1, Received
    <2>3. \A i \in 1..Len(queue) : ~IsProcess(queue[i])
        BY <2>1 DEF OneProcess
    <2>4. \A i \in 1..Len(uiQueue') : ~IsProcess(uiQueue'[i].task)
        BY <2>1, <2>2 DEF OneProcess
    <2> QED
        BY <2>1, <2>3, <2>4 DEF OneProcess
<1> QED
    BY <1>1, <1>2, <1>3, <1>4 DEF UiThread

(* There is one runProcess at a time, for which g_DPC_path stays put.      *)
LEMMA NextOneProcess == TypeOK /\ OneProcess /\ [Next]_vars => OneProcess'
<1> SUFFICES ASSUME TypeOK, OneProcess, [Next]_vars PROVE OneProcess'
    OBVIOUS
<1>1. CASE CameraCallback \/ onImageAvailable \/ UNCHANGED vars
    <2>1. UNCHANGED <<queue, uiQueue, ui, enabled, g_path>>
        BY <1>1 DEF CameraCallback, Callback, process, captureStillPicture, Completion,
            unlockFocus, setReady, onImageAvailable
    <2> QED
        BY <2>1 DEF OneProcess
<1> QED
    BY <1>1, UserOneProcess, WorkerOneProcess, UiOneProcess DEF Next

(* runProcess writes every result into the directory its inputs came from, *)
(* whatever the user does meanwhile: the disabled buttons are enough.      *)
THEOREM ResultsBesideInputs == Spec => []ResultBesideInputs
<1>1. Init => OneProcess /\ ResultBesideInputs
    BY DEF Init, OneProcess, ResultBesideInputs
<1>2. TypeOK /\ OneProcess /\ ResultBesideInputs /\ [Next]_vars => ResultBesideInputs'
    <2> SUFFICES ASSUME TypeOK, OneProcess, ResultBesideInputs, [Next]_vars
                 PROVE  ResultBesideInputs'
        OBVIOUS
    <2>1. CASE readInputs \/ optimise
        <3>1. /\ queue # <<>> /\ Head(queue).kind = "Process"
              /\ results' = results \cup {[from |-> Head(queue).dir, to |-> g_path["DPC"]]}
            BY <2>1 DEF readInputs, optimise, Running
        <3>2. 1 \in 1..Len(queue) /\ Head(queue) = queue[1]
            BY <3>1, TailFacts DEF TypeOK, ThreadType
        <3>3. Head(queue).dir = g_path["DPC"]
            BY <3>1, <3>2 DEF OneProcess, IsProcess
        <3> QED
            BY <3>1, <3>3 DEF ResultBesideInputs
    <2>2. CASE ~(readInputs \/ optimise)
        <3>1. results' = results
            BY <2>2 DEF Next, User, btnAcquire, btnAcquireBG, btnCapture, btnProcess, slideTo,
                setAcqMethod, setMmCount, slideToExposuretime, Worker, doInBackground,
                drawFrame, nameFrame,
                takePicture, frameReady, saveSource, taskDone, UiThread, onProgressUpdate,
                onPostExecute, onPostExecuteProcess, nameOptimal, takeOptimal, optimalReady,
                CameraCallback, Callback, process, captureStillPicture, Completion,
                unlockFocus, setReady, onImageAvailable
        <3> QED
            BY <3>1 DEF ResultBesideInputs
    <2> QED
        BY <2>1, <2>2
<1> QED
    BY <1>1, <1>2, TasksTypeCorrect, NextOneProcess, PTL DEF Spec

------------------------------------------------------------------------------
(* Background and object pictures.                                         *)

(* The user's actions give every task a directory of its kind.             *)
LEMMA UserBackground == TypeOK /\ BackgroundInv /\ User => BackgroundInv'
<1> SUFFICES ASSUME TypeOK, BackgroundInv, User PROVE BackgroundInv'
    OBVIOUS
<1>0. Modes \subseteq Folder /\ Folder \subseteq Kind /\ "Process" \in Kind
      /\ "DPC" \in Folder /\ "Capture" \in Folder /\ "BF" \in Folder
    BY TasksAssumption DEF Folder, Kind
<1>t. acquireType \in Modes /\ acquireBackground = FALSE /\ g_path \in [Folder -> Dir]
      /\ g_path_BG \in [Modes -> Dir]
    BY DEF TypeOK, SettingsType, BackgroundInv
<1>d. \A m \in Modes, b \in BOOLEAN : MyDir(m, b).bg = b
    <2> SUFFICES ASSUME NEW m \in Modes, NEW b \in BOOLEAN PROVE MyDir(m, b).bg = b
        OBVIOUS
    <2>1. DirOf(m, b, clock + 1).bg = b
        BY DEF DirOf
    <2>2. ~g_path[m].bg /\ g_path[m].bg \in BOOLEAN
        BY <1>0, <1>t DEF BackgroundInv, Dir
    <2>3. g_path_BG[m].bg /\ g_path_BG[m].bg \in BOOLEAN
        BY <1>t DEF BackgroundInv, Dir
    <2>4. CASE b = TRUE
        BY <2>1, <2>3, <2>4 DEF MyDir
    <2>5. CASE b = FALSE
        BY <2>1, <2>2, <2>5 DEF MyDir
    <2> QED
        BY <2>4, <2>5
<1>f. full_image_file' = full_image_file /\ pictures' = pictures /\ uiQueue' = uiQueue
      /\ ui' = ui
    BY DEF User, btnAcquire, btnAcquireBG, btnCapture, btnProcess, slideTo, setAcqMethod,
           setMmCount, slideToExposuretime
<1>g. ASSUME NEW c, Touch(c), NEW k \in Kind, NEW d \in Dir, NEW b \in BOOLEAN,
             Start(k, d, b), d.bg = b
      PROVE  \A i \in 1..Len(queue') : queue'[i].dir.bg = queue'[i].bg
    BY <1>g, Started DEF BackgroundInv
<1>1. CASE btnAcquire
    <2>1. MyDir(acquireType, FALSE) \in Dir /\ MyDir(acquireType, FALSE).bg = FALSE
        BY <1>1, <1>t, <1>d, TouchTypes DEF btnAcquire
    <2>2. \A i \in 1..Len(queue') : queue'[i].dir.bg = queue'[i].bg
        BY <1>0, <1>1, <1>g, <1>t, <2>1 DEF btnAcquire
    <2>3. /\ acquireBackground' = FALSE /\ g_path_BG' = g_path_BG
          /\ \A f \in Folder : ~g_path'[f].bg
        BY <1>0, <1>1, <1>t, <2>1 DEF btnAcquire, onPreExecute, DirOf, BackgroundInv
    <2> QED
        BY <1>f, <2>2, <2>3 DEF BackgroundInv, BackgroundKeptApart
<1>2. CASE btnAcquireBG
    <2>1. MyDir(acquireType, TRUE) \in Dir /\ MyDir(acquireType, TRUE).bg = TRUE
        BY <1>2, <1>t, <1>d, TouchTypes DEF btnAcquireBG
    <2>2. \A i \in 1..Len(queue') : queue'[i].dir.bg = queue'[i].bg
        BY <1>0, <1>2, <1>g, <1>t, <2>1 DEF btnAcquireBG
    <2>3. /\ acquireBackground' = FALSE /\ g_path' = g_path
          /\ \A m \in Modes : g_path_BG'[m].bg
        BY <1>0, <1>2, <1>t, <2>1 DEF btnAcquireBG, onPreExecute, BackgroundInv
    <2> QED
        BY <1>f, <2>2, <2>3 DEF BackgroundInv, BackgroundKeptApart
<1>3. CASE btnCapture
    <2>1. /\ DirOf("Capture", FALSE, clock + 1) \in Dir
          /\ DirOf("Capture", FALSE, clock + 1).bg = FALSE
        BY <1>0, <1>3, TouchTypes DEF btnCapture, DirOf
    <2>2. \A i \in 1..Len(queue') : queue'[i].dir.bg = queue'[i].bg
        BY <1>0, <1>3, <1>g, <2>1 DEF btnCapture
    <2>3. /\ UNCHANGED <<acquireBackground, g_path_BG>>
          /\ \A f \in Folder : ~g_path'[f].bg
        BY <1>0, <1>3, <1>t, <2>1 DEF btnCapture, BackgroundInv
    <2> QED
        BY <1>f, <2>2, <2>3 DEF BackgroundInv, BackgroundKeptApart
<1>4. CASE btnProcess
    <2>1. g_path["DPC"] \in Dir /\ g_path["DPC"].bg = FALSE
        BY <1>0, <1>t DEF BackgroundInv, Dir
    <2>2. \A i \in 1..Len(queue') : queue'[i].dir.bg = queue'[i].bg
        BY <1>0, <1>4, <1>g, <2>1 DEF btnProcess
    <2> QED
        BY <1>4, <1>f, <2>2 DEF btnProcess, BackgroundInv, BackgroundKeptApart
<1>5. CASE slideTo \/ setAcqMethod \/ setMmCount \/ slideToExposuretime
    <2>1. UNCHANGED <<queue, acquireBackground, g_path, g_path_BG>>
        BY <1>5 DEF slideTo, setAcqMethod, setMmCount, slideToExposuretime
    <2> QED
        BY <1>f, <2>1 DEF BackgroundInv, BackgroundKeptApart
<1> QED
    BY <1>1, <1>2, <1>3, <1>4, <1>5 DEF User

(* The worker names files in its task's directory.                         *)
LEMMA WorkerBackground ==
    TypeOK /\ OneProcess /\ BackgroundInv /\ Worker => BackgroundInv'
<1> SUFFICES ASSUME TypeOK, OneProcess, BackgroundInv, Worker PROVE BackgroundInv'
    OBVIOUS
<1>q. queue # <<>>
    BY DEF Worker, Running, doInBackground, drawFrame, nameFrame, takePicture, frameReady,
           saveSource, taskDone, readInputs, optimise
<1>s. UNCHANGED <<acquireBackground, g_path, g_path_BG, pictures>>
    BY DEF Worker, doInBackground, drawFrame, nameFrame, takePicture, frameReady,
           saveSource, taskDone, readInputs, optimise
<1>h. /\ 1 \in 1..Len(queue) /\ Head(queue) = queue[1]
      /\ Head(queue).dir.bg = Head(queue).bg
      /\ Head(queue).dir \in Dir /\ Head(queue).bg \in BOOLEAN
    BY <1>q, HeadTask, TailFacts DEF BackgroundInv, TypeOK, ThreadType
<1>p. IsProcess(Head(queue)) => ~Head(queue).bg
    <2>1. IsProcess(Head(queue)) => Head(queue).dir = g_path["DPC"]
        BY <1>h DEF OneProcess
    <2>2. ~g_path["DPC"].bg
        BY DEF BackgroundInv, Folder
    <2> QED
        BY <1>h, <2>1, <2>2
<1>1. full_image_file'.file.dir.bg = full_image_file'.by.bg
    <2>1. CASE nameFrame
        BY <1>h, <2>1 DEF nameFrame, Named
    <2>2. CASE ~nameFrame
        BY <2>2 DEF Worker, doInBackground, drawFrame, takePicture, frameReady, saveSource,
            taskDone, readInputs, optimise, BackgroundInv
    <2> QED
        BY <2>1, <2>2
<1>2. \A i \in 1..Len(queue') : queue'[i].dir.bg = queue'[i].bg
    <2>1. CASE queue' = queue
        BY <2>1 DEF BackgroundInv
    <2>2. CASE queue' = Tail(queue)
        BY <1>q, <2>2, Finished DEF BackgroundInv
    <2> QED
        BY <2>1, <2>2 DEF Worker, doInBackground, drawFrame, nameFrame, takePicture,
            frameReady, saveSource, taskDone, readInputs, optimise
<1>3. \A i \in 1..Len(uiQueue') : IsProcess(uiQueue'[i].task) => ~uiQueue'[i].task.bg
    <2>1. CASE uiQueue' = uiQueue
        BY <2>1 DEF BackgroundInv
    <2>2. ASSUME NEW m \in {"progress", "post"}, Publish(m)
          PROVE  \A i \in 1..Len(uiQueue') : IsProcess(uiQueue'[i].task) => ~uiQueue'[i].task.bg
        BY <1>q, <1>p, <2>2, Published DEF BackgroundInv
    <2> QED
        BY <2>1, <2>2 DEF Worker, doInBackground, drawFrame, nameFrame, takePicture,
            frameReady, saveSource, taskDone, readInputs, optimise
<1>4. ui' # "idle" => ~uiQueue'[1].task.bg
    <2>1. ui' = ui /\ (ui # "idle" => uiQueue # <<>> /\ ~uiQueue[1].task.bg)
        BY DEF Worker, doInBackground, drawFrame, nameFrame, takePicture, frameReady,
            saveSource, taskDone, readInputs, optimise, TypeOK, ThreadType, BackgroundInv
    <2>2. ASSUME NEW m \in {"progress", "post"}, Publish(m), uiQueue # <<>>
          PROVE  uiQueue'[1] = uiQueue[1]
        <3>1. 1 \in 1..Len(uiQueue)
            BY <2>2, TailFacts DEF TypeOK, ThreadType
        <3> QED
            BY <1>q, <2>2, <3>1, Published
    <2> QED
        BY <2>1, <2>2 DEF Worker, doInBackground, drawFrame, nameFrame, takePicture,
            frameReady, saveSource, taskDone, readInputs, optimise
<1> QED
    BY <1>s, <1>1, <1>2, <1>3, <1>4 DEF BackgroundInv, BackgroundKeptApart

(* runProcess names its picture in g_DPC_path, an object's directory.      *)
LEMMA UiBackground == TypeOK /\ OneProcess /\ BackgroundInv /\ UiThread => BackgroundInv'
<1> SUFFICES ASSUME TypeOK, OneProcess, BackgroundInv, UiThread PROVE BackgroundInv'
    OBVIOUS
<1>s. UNCHANGED <<acquireBackground, g_path, g_path_BG, pictures, queue>>
    BY DEF UiThread, onProgressUpdate, onPostExecute, onPostExecuteProcess, nameOptimal,
           takeOptimal, optimalReady
<1>1. \A i \in 1..Len(uiQueue') : IsProcess(uiQueue'[i].task) => ~uiQueue'[i].task.bg
    <2>1. CASE uiQueue' = uiQueue
        BY <2>1 DEF BackgroundInv
    <2>2. CASE uiQueue # <<>> /\ uiQueue' = Tail(uiQueue)
        BY <2>2, Received DEF BackgroundInv
    <2> QED
        BY <2>1, <2>2 DEF UiThread, onProgressUpdate, onPostExecute, onPostExecuteProcess,
            nameOptimal, takeOptimal, optimalReady, Receive, TypeOK, ThreadType
<1>2. full_image_file'.file.dir.bg = full_image_file'.by.bg
    <2>1. CASE nameOptimal
        <3>1. uiQueue # <<>> /\ ui # "idle"
              /\ full_image_file' = Named(Head(uiQueue).task, g_path["DPC"], <<0, 0>>)
            BY <2>1 DEF nameOptimal, TypeOK, ThreadType
        <3>2. 1 \in 1..Len(uiQueue) /\ Head(uiQueue) = uiQueue[1]
            BY <3>1, TailFacts DEF TypeOK, ThreadType
        <3>3. Head(uiQueue).task.bg \in BOOLEAN /\ g_path["DPC"].bg \in BOOLEAN
            BY <3>1, HeadMessage DEF Task, Dir, TypeOK, SettingsType, Folder
        <3>4. ~g_path["DPC"].bg
            BY DEF BackgroundInv, Folder
        <3>5. ~Head(uiQueue).task.bg
            BY <3>1, <3>2 DEF BackgroundInv
        <3> QED
            BY <3>1, <3>3, <3>4, <3>5 DEF Named
    <2>2. CASE ~nameOptimal
        BY <2>2 DEF UiThread, onProgressUpdate, onPostExecute, onPostExecuteProcess,
            takeOptimal, optimalReady, BackgroundInv
    <2> QED
        BY <2>1, <2>2
<1>3. ui' # "idle" => ~uiQueue'[1].task.bg
    <2>1. CASE onPostExecuteProcess
        <3>1. 1 \in 1..Len(uiQueue) /\ uiQueue' = uiQueue /\ IsProcess(uiQueue[1].task)
            BY <2>1, TailFacts DEF onPostExecuteProcess, IsProcess, TypeOK, ThreadType
        <3> QED
            BY <3>1 DEF BackgroundInv
    <2>2. CASE ~onPostExecuteProcess
        BY <2>2 DEF UiThread, onProgressUpdate, onPostExecute, nameOptimal, takeOptimal,
            optimalReady, Receive, BackgroundInv
    <2> QED
        BY <2>1, <2>2
<1> QED
    BY <1>s, <1>1, <1>2, <1>3 DEF BackgroundInv, BackgroundKeptApart

(* The images that arrive are saved under a name whose directory fits.     *)
LEMMA NextBackground == TypeOK /\ OneProcess /\ BackgroundInv /\ [Next]_vars => BackgroundInv'
<1> SUFFICES ASSUME TypeOK, OneProcess, BackgroundInv, [Next]_vars PROVE BackgroundInv'
    OBVIOUS
<1>1. CASE CameraCallback \/ UNCHANGED vars
    <2>1. UNCHANGED <<acquireBackground, g_path, g_path_BG, queue, uiQueue, ui,
                      full_image_file, pictures>>
        BY <1>1 DEF CameraCallback, Callback, process, captureStillPicture, Completion,
            unlockFocus, setReady
    <2> QED
        BY <2>1 DEF BackgroundInv, BackgroundKeptApart
<1>2. CASE onImageAvailable
    <2>1. UNCHANGED <<acquireBackground, g_path, g_path_BG, queue, uiQueue, ui,
                      full_image_file>>
        BY <1>2 DEF onImageAvailable
    <2>2. full_image_file.file.dir.bg = full_image_file.by.bg /\ BackgroundKeptApart
        BY DEF BackgroundInv
    <2>3. PICK e : pictures' = Put(pictures, full_image_file.file,
                                   [by |-> full_image_file.by, light |-> e])
        BY <1>2 DEF onImageAvailable
    <2>4. ASSUME NEW p \in DOMAIN pictures' PROVE p.dir.bg = pictures'[p].by.bg
        <3>1. CASE p = full_image_file.file
            BY <2>2, <2>3, <3>1 DEF Put
        <3>2. CASE p # full_image_file.file
            BY <2>2, <2>3, <3>2 DEF Put, BackgroundKeptApart
        <3> QED
            BY <3>1, <3>2
    <2>5. BackgroundKeptApart'
        BY <2>4 DEF BackgroundKeptApart
    <2> QED
        BY <2>1, <2>5 DEF BackgroundInv
<1> QED
    BY <1>1, <1>2, UserBackground, WorkerBackground, UiBackground DEF Next

(* A new activity has no task and no background directory in use.          *)
LEMMA InitTasks == Init => OneProcess /\ ResultBesideInputs /\ BackgroundInv
<1> SUFFICES ASSUME Init PROVE OneProcess /\ ResultBesideInputs /\ BackgroundInv
    OBVIOUS
<1>1. /\ ~acquireBackground /\ queue = <<>> /\ uiQueue = <<>> /\ ui = "idle"
      /\ \A f \in Folder : ~g_path[f].bg
      /\ \A m \in Modes : g_path_BG[m].bg
    BY DEF Init, DirOf
<1>2. full_image_file.file.dir.bg = full_image_file.by.bg
    BY DEF Init, Named, NoTask, DirOf
<1>3. BackgroundKeptApart
    BY DEF Init, BackgroundKeptApart
<1>4. OneProcess /\ ResultBesideInputs
    BY DEF Init, OneProcess, ResultBesideInputs
<1> QED
    BY <1>1, <1>2, <1>3, <1>4 DEF BackgroundInv

(* The pictures of a background acquisition, and no others, are in a       *)
(* background directory, in every behaviour: the flag acquireBackground    *)
(* never reaches another task.                                             *)
THEOREM BackgroundApart == Spec => []BackgroundKeptApart
<1>1. BackgroundInv => BackgroundKeptApart
    BY DEF BackgroundInv
<1> QED
    BY <1>1, InitTasks, TasksTypeCorrect, NextOneProcess, NextBackground, PTL DEF Spec

(* The three results together.                                             *)
LEMMA TasksInvariant == Spec => []TasksInv
<1>1. TypeOK /\ OneProcess /\ ResultBesideInputs /\ BackgroundInv => TasksInv
    BY DEF TasksInv
<1> QED
    BY <1>1, InitTasks, TasksTypeCorrect, ResultsBesideInputs, NextOneProcess,
       NextBackground, PTL DEF Spec

------------------------------------------------------------------------------
(* runProcess finds its inputs.                                            *)

(* Nothing happens in a dead process.                                      *)
LEMMA DeadStops == Next => ~dead
    BY DEF Next, User, btnAcquire, btnAcquireBG, btnCapture, btnProcess, slideTo,
        setAcqMethod, setMmCount, slideToExposuretime, Touch, Worker, Running,
        doInBackground, drawFrame, nameFrame,
        takePicture, frameReady, saveSource, taskDone, readInputs, optimise, UiThread,
        onProgressUpdate, onPostExecute, Receive, onPostExecuteProcess, nameOptimal,
        takeOptimal, optimalReady, CameraCallback, Callback, process, captureStillPicture,
        Completion, unlockFocus, setReady,
        onImageAvailable

(* The first task stays the first when another is submitted.               *)
LEMMA HeadStays ==
    ASSUME TypeOK, NEW c, Touch(c), NEW k \in Kind, NEW d \in Dir, NEW b \in BOOLEAN,
           Start(k, d, b)
    PROVE  queue # <<>> => queue' # <<>> /\ Head(queue') = Head(queue)
<1> DEFINE t == [id |-> clock + 1, kind |-> k, dir |-> d, bg |-> b]
<1>1. t \in Task
    BY TouchTypes
<1>2. queue \in Seq(Task) /\ queue' = Append(queue, t)
    BY DEF Start, TypeOK, ThreadType
<1> HIDE DEF t
<1> QED
    BY <1>1, <1>2

(* What the user's actions do to the executor's queue and to g_DPC_path.   *)
LEMMA UserStep ==
    ASSUME TypeOK, OneProcess, BackgroundInv, User
    PROVE  /\ UNCHANGED <<worker, frame, uiQueue, ui, cameraReady, mState, due, busy,
                          exposed, storage, dead>>
           /\ ui = "idle"
           /\ queue # <<>> => queue' # <<>> /\ Head(queue') = Head(queue)
           /\ \/ UNCHANGED <<queue, g_path>>
              \/ /\ Len(queue) \in Nat /\ Len(queue') = Len(queue) + 1
                 /\ \A i \in 1..Len(queue) : queue'[i] = queue[i]
                 /\ LET t == queue'[Len(queue) + 1] IN
                    \/ ~IsObject(t) /\ g_path'["DPC"] = g_path["DPC"]
                    \/ IsObject(t) /\ enabled /\ t.dir = g_path'["DPC"]
<1>0. Modes \subseteq Folder /\ Folder \subseteq Kind /\ "Process" \in Kind
      /\ "DPC" \in Folder /\ "Capture" \in Folder /\ "BF" \in Folder /\ "Capture" \in Kind
    BY TasksAssumption DEF Folder, Kind
<1>t. acquireType \in Modes /\ acquireBackground = FALSE /\ g_path \in [Folder -> Dir]
    BY DEF TypeOK, SettingsType, BackgroundInv
<1>1. UNCHANGED <<worker, frame, uiQueue, ui, cameraReady, mState, due, busy, exposed, storage,
                  dead>> /\ ui = "idle"
    BY DEF User, Touch, btnAcquire, btnAcquireBG, btnCapture, btnProcess, slideTo,
           setAcqMethod, setMmCount, slideToExposuretime
<1>2. CASE btnAcquire
    <2> DEFINE d == MyDir(acquireType, FALSE)
    <2>1. d \in Dir
        BY <1>2, <1>t, TouchTypes DEF btnAcquire
    <2>2. Start(acquireType, d, FALSE) /\ Touch("acquire") /\ enabled
        BY <1>2, <1>t DEF btnAcquire
    <2>3. /\ queue # <<>> => queue' # <<>> /\ Head(queue') = Head(queue)
          /\ Len(queue) \in Nat /\ Len(queue') = Len(queue) + 1
          /\ \A i \in 1..Len(queue) : queue'[i] = queue[i]
          /\ queue'[Len(queue) + 1].kind = acquireType
          /\ queue'[Len(queue) + 1].dir = d
          /\ queue'[Len(queue) + 1].bg = FALSE
        BY <1>0, <1>t, <2>1, <2>2, HeadStays, Started
    <2>4. g_path'["DPC"] = IF acquireType = "DPC" THEN d ELSE g_path["DPC"]
        BY <1>0, <1>2, <1>t DEF btnAcquire, onPreExecute
    <2> QED
        BY <1>1, <2>2, <2>3, <2>4 DEF IsObject
<1>3. CASE btnAcquireBG
    <2> DEFINE d == MyDir(acquireType, TRUE)
    <2>1. d \in Dir
        BY <1>3, <1>t, TouchTypes DEF btnAcquireBG
    <2>2. Start(acquireType, d, TRUE) /\ Touch("background") /\ g_path' = g_path
        BY <1>3, <1>t DEF btnAcquireBG, onPreExecute
    <2>3. /\ queue # <<>> => queue' # <<>> /\ Head(queue') = Head(queue)
          /\ Len(queue) \in Nat /\ Len(queue') = Len(queue) + 1
          /\ \A i \in 1..Len(queue) : queue'[i] = queue[i]
          /\ queue'[Len(queue) + 1].bg = TRUE
        BY <1>0, <1>t, <2>1, <2>2, HeadStays, Started
    <2> QED
        BY <1>1, <2>2, <2>3 DEF IsObject
<1>4. CASE btnCapture
    <2> DEFINE d == DirOf("Capture", FALSE, clock + 1)
    <2>1. d \in Dir
        BY <1>0, <1>4, TouchTypes DEF btnCapture
    <2>2. Start("Capture", d, FALSE) /\ Touch("capture") /\ g_path'["DPC"] = g_path["DPC"]
        BY <1>0, <1>4, <1>t DEF btnCapture
    <2>3. /\ queue # <<>> => queue' # <<>> /\ Head(queue') = Head(queue)
          /\ Len(queue) \in Nat /\ Len(queue') = Len(queue) + 1
          /\ \A i \in 1..Len(queue) : queue'[i] = queue[i]
          /\ queue'[Len(queue) + 1].kind = "Capture"
        BY <1>0, <2>1, <2>2, HeadStays, Started
    <2> QED
        BY <1>1, <2>2, <2>3 DEF IsObject
<1>5. CASE btnProcess
    <2>1. Start("Process", g_path["DPC"], FALSE) /\ Touch("process") /\ g_path' = g_path
        BY <1>5 DEF btnProcess
    <2>2. g_path["DPC"] \in Dir
        BY <1>0, <1>t
    <2>3. /\ queue # <<>> => queue' # <<>> /\ Head(queue') = Head(queue)
          /\ Len(queue) \in Nat /\ Len(queue') = Len(queue) + 1
          /\ \A i \in 1..Len(queue) : queue'[i] = queue[i]
          /\ queue'[Len(queue) + 1].kind = "Process"
        BY <1>0, <2>1, <2>2, HeadStays, Started
    <2> QED
        BY <1>1, <2>1, <2>3 DEF IsObject
<1>6. CASE slideTo \/ setAcqMethod \/ setMmCount \/ slideToExposuretime
    BY <1>1, <1>6 DEF slideTo, setAcqMethod, setMmCount, slideToExposuretime
<1> QED
    BY <1>2, <1>3, <1>4, <1>5, <1>6 DEF User

(* What the steps of the others do to what is stored: a picture that is    *)
(* there stays, and one that is coming stays so until the next is named.   *)
LEMMA StoreStep ==
    ASSUME TypeOK, Next
    PROVE  /\ DOMAIN pictures \subseteq DOMAIN pictures'
           /\ ~nameFrame /\ ~nameOptimal =>
                /\ full_image_file' = full_image_file
                /\ \A f : Coming(f) => Coming(f)'
<1>1. CASE onImageAvailable
    <2>1. /\ DOMAIN pictures' = DOMAIN pictures \cup {full_image_file.file}
          /\ full_image_file' = full_image_file
        BY <1>1 DEF onImageAvailable, Put
    <2> QED
        BY <2>1 DEF Coming
<1>2. CASE Captured
    <2>1. /\ exposed' = Append(exposed, screen) /\ exposed \in Seq(Pattern) /\ screen \in Pattern
          /\ UNCHANGED <<full_image_file, pictures>>
        BY <1>2 DEF Captured, captureStillPicture, TypeOK, CameraType
    <2>2. exposed' # <<>>
        BY <2>1, AppendFacts
    <2> QED
        BY <2>1, <2>2 DEF Coming
<1>3. CASE ~onImageAvailable /\ ~Captured
    <2>1. UNCHANGED <<exposed, pictures>>
        BY <1>3 DEF Next, User, btnAcquire, btnAcquireBG, btnCapture, btnProcess, slideTo,
            setAcqMethod, setMmCount, slideToExposuretime, Worker, doInBackground, drawFrame,
            nameFrame,
            takePicture, frameReady, saveSource, taskDone, readInputs, optimise, UiThread,
            onProgressUpdate, onPostExecute, onPostExecuteProcess, nameOptimal, takeOptimal,
            optimalReady, CameraCallback, Callback, Captured, process, Completion,
            unlockFocus, setReady
    <2>2. ~nameFrame /\ ~nameOptimal => full_image_file' = full_image_file
        BY <1>3 DEF Next, User, btnAcquire, btnAcquireBG, btnCapture, btnProcess, slideTo,
            setAcqMethod, setMmCount, slideToExposuretime, Worker, doInBackground, drawFrame,
            takePicture, frameReady, saveSource, taskDone, readInputs, optimise, UiThread,
            onProgressUpdate, onPostExecute, onPostExecuteProcess, takeOptimal,
            optimalReady, CameraCallback, Callback, Captured, process, Completion,
            unlockFocus, setReady
    <2> QED
        BY <2>1, <2>2 DEF Coming
<1> QED
    BY <1>1, <1>2, <1>3

(* The worker's position fits the first task after every step.             *)
LEMMA NextAtHead == TasksInv /\ AtHead /\ Next => AtHead'
<1> SUFFICES ASSUME TasksInv, AtHead, Next PROVE AtHead'
    OBVIOUS
<1>0. TypeOK /\ OneProcess /\ BackgroundInv /\ "Process" \notin Folder
    BY DEF TasksInv, Folder
<1>1. CASE User
    BY <1>0, <1>1, UserStep DEF AtHead
<1>2. CASE Worker
    BY <1>0, <1>2 DEF AtHead, IsProcess, Worker, Running, At, doInBackground, drawFrame,
        nameFrame, takePicture, frameReady, saveSource, taskDone, readInputs, optimise
<1>3. CASE UiThread \/ CameraCallback \/ onImageAvailable
    <2>1. UNCHANGED <<queue, worker>>
        BY <1>3 DEF UiThread, onProgressUpdate, onPostExecute, onPostExecuteProcess,
            nameOptimal, takeOptimal, optimalReady, CameraCallback, Callback,
            process, captureStillPicture, Completion, unlockFocus, setReady, onImageAvailable
    <2> QED
        BY <2>1 DEF AtHead
<1> QED
    BY <1>1, <1>2, <1>3 DEF Next

(* A step of the worker hands its first task over or keeps its queue.      *)
LEMMA WorkerStep ==
    ASSUME TypeOK, Worker
    PROVE  /\ queue # <<>> /\ UNCHANGED <<ui, g_path>>
           /\ \/ UNCHANGED <<queue, uiQueue>>
              \/ queue' = queue /\ Publish("progress") /\ ~IsProcess(Head(queue))
              \/ queue' = Tail(queue) /\ Publish("post") /\ worker' = "start"
<1>1. "Process" \notin Folder
    BY DEF Folder
<1> QED
    BY <1>1 DEF IsProcess, Worker, Running, doInBackground, drawFrame, nameFrame, takePicture,
        frameReady, saveSource, taskDone, readInputs, optimise

(* An acquisition of the object is started only when no runProcess is      *)
(* pending, so none is ever ahead of it.                                   *)
LEMMA NextObjectFirst == TasksInv /\ ObjectFirst /\ Next => ObjectFirst'
<1> SUFFICES ASSUME TasksInv, ObjectFirst, Next PROVE ObjectFirst'
    OBVIOUS
<1>0. TypeOK /\ OneProcess /\ BackgroundInv
    BY DEF TasksInv
<1>1. CASE User
    <2>1. CASE UNCHANGED <<queue, g_path>>
        BY <1>0, <1>1, <2>1, UserStep DEF ObjectFirst
    <2>2. ASSUME Len(queue) \in Nat, Len(queue') = Len(queue) + 1,
                 \A i \in 1..Len(queue) : queue'[i] = queue[i],
                 IsObject(queue'[Len(queue) + 1]) => enabled
          PROVE  ObjectFirst'
        <3> SUFFICES ASSUME NEW j \in 1..Len(queue'), IsObject(queue'[j])
                     PROVE  /\ ui' = "idle"
                            /\ \A i \in 1..j : ~IsProcess(queue'[i])
                            /\ \A i \in 1..Len(uiQueue') : ~IsProcess(uiQueue'[i].task)
            BY DEF ObjectFirst
        <3>1. ui' = "idle" /\ ui = "idle" /\ uiQueue' = uiQueue
            BY <1>0, <1>1, UserStep
        <3>2. CASE j \in 1..Len(queue)
            BY <2>2, <3>1, <3>2 DEF ObjectFirst
        <3>3. CASE j = Len(queue) + 1
            <4>1. enabled
                BY <2>2, <3>3
            <4>2. \A i \in 1..Len(queue) : ~IsProcess(queue[i])
                BY <1>0, <4>1 DEF OneProcess
            <4>3. \A i \in 1..Len(uiQueue) : ~IsProcess(uiQueue[i].task)
                BY <1>0, <3>1, <4>1 DEF OneProcess
            <4>4. ~IsProcess(queue'[j])
                BY DEF IsObject, IsProcess
            <4>5. ASSUME NEW i \in 1..j PROVE ~IsProcess(queue'[i])
                BY <2>2, <3>3, <4>2, <4>4
            <4> QED
                BY <3>1, <4>3, <4>5
        <3> QED
            BY <2>2, <3>2, <3>3
    <2> QED
        BY <1>0, <1>1, <2>1, <2>2, UserStep
<1>2. CASE Worker
    <2>0. queue # <<>> /\ UNCHANGED <<ui, g_path>>
        BY <1>0, <1>2, WorkerStep
    <2>1. CASE UNCHANGED <<queue, uiQueue>>
        BY <2>0, <2>1 DEF ObjectFirst
    <2>2. CASE queue' = queue /\ Publish("progress") /\ ~IsProcess(Head(queue))
        <3>1. /\ Len(uiQueue) \in Nat /\ Len(uiQueue') = Len(uiQueue) + 1
              /\ \A i \in 1..Len(uiQueue) : uiQueue'[i] = uiQueue[i]
              /\ ~IsProcess(uiQueue'[Len(uiQueue) + 1].task)
            BY <1>0, <2>0, <2>2, Published
        <3> QED
            BY <2>0, <2>2, <3>1 DEF ObjectFirst
    <2>3. CASE queue' = Tail(queue) /\ Publish("post")
        <3>1. /\ Len(uiQueue) \in Nat /\ Len(uiQueue') = Len(uiQueue) + 1
              /\ \A i \in 1..Len(uiQueue) : uiQueue'[i] = uiQueue[i]
              /\ uiQueue'[Len(uiQueue) + 1].task = queue[1]
            BY <1>0, <2>0, <2>3, Published, Finished
        <3>2. /\ Len(queue) \in Nat \ {0} /\ Len(queue') = Len(queue) - 1
              /\ \A i \in 1..Len(queue') : i + 1 \in 1..Len(queue) /\ queue'[i] = queue[i + 1]
            BY <1>0, <2>0, <2>3, Finished
        <3> SUFFICES ASSUME NEW j \in 1..Len(queue'), IsObject(queue'[j])
                     PROVE  /\ ui' = "idle"
                            /\ \A i \in 1..j : ~IsProcess(queue'[i])
                            /\ \A i \in 1..Len(uiQueue') : ~IsProcess(uiQueue'[i].task)
            BY DEF ObjectFirst
        <3>3. /\ ui = "idle"
              /\ \A i \in 1..(j + 1) : ~IsProcess(queue[i])
              /\ \A i \in 1..Len(uiQueue) : ~IsProcess(uiQueue[i].task)
            BY <3>2 DEF ObjectFirst
        <3>4. ~IsProcess(queue[1]) /\ \A i \in 1..j : ~IsProcess(queue'[i])
            BY <3>2, <3>3
        <3>5. \A i \in 1..Len(uiQueue') : ~IsProcess(uiQueue'[i].task)
            BY <3>1, <3>3, <3>4
        <3> QED
            BY <2>0, <3>3, <3>4, <3>5
    <2> QED
        BY <1>0, <1>2, <2>1, <2>2, <2>3, WorkerStep
<1>3. CASE UiThread
    <2>1. CASE onPostExecuteProcess
        <3>1. /\ queue' = queue /\ 1 \in 1..Len(uiQueue) /\ IsProcess(uiQueue[1].task)
            BY <1>0, <2>1, TailFacts DEF onPostExecuteProcess, IsProcess, TypeOK, ThreadType
        <3> QED
            BY <3>1 DEF ObjectFirst
    <2>2. CASE nameOptimal \/ takeOptimal \/ optimalReady
        <3>1. queue' = queue /\ ui # "idle"
            BY <2>2 DEF nameOptimal, takeOptimal, optimalReady
        <3> QED
            BY <3>1 DEF ObjectFirst
    <2>3. CASE onProgressUpdate \/ onPostExecute
        <3>1. uiQueue # <<>> /\ uiQueue' = Tail(uiQueue) /\ UNCHANGED <<queue, ui>>
            BY <2>3 DEF onProgressUpdate, onPostExecute, Receive
        <3>2. \A i \in 1..Len(uiQueue') : i + 1 \in 1..Len(uiQueue) /\ uiQueue'[i] = uiQueue[i + 1]
            BY <1>0, <3>1, Received
        <3> QED
            BY <3>1, <3>2 DEF ObjectFirst
    <2> QED
        BY <1>3, <2>1, <2>2, <2>3 DEF UiThread
<1>4. CASE CameraCallback \/ onImageAvailable
    <2>1. UNCHANGED <<queue, uiQueue, ui>>
        BY <1>4 DEF CameraCallback, Callback, process, captureStillPicture, Completion,
            unlockFocus, setReady, onImageAvailable
    <2> QED
        BY <2>1 DEF ObjectFirst
<1> QED
    BY <1>1, <1>2, <1>3, <1>4 DEF Next

(* The frames that are filed, or coming, stay so.                          *)
LEMMA FilesKept ==
    ASSUME TypeOK, Next, ~nameFrame, ~nameOptimal, NEW d, NEW n
    PROVE  /\ EarlierFiled(d, n) => EarlierFiled(d, n)'
           /\ /\ FrameNamed(d, n)
              /\ \/ worker' = worker \/ worker' = "wait" \/ (worker' = "save" /\ cameraReady)
              /\ \/ UNCHANGED <<cameraReady, due>>
                 \/ Captured
                 \/ ~NoneDue
              => FrameNamed(d, n)'
<1>1. /\ DOMAIN pictures \subseteq DOMAIN pictures' /\ full_image_file' = full_image_file
      /\ \A f : Coming(f) => Coming(f)'
    BY StoreStep
<1>2. EarlierFiled(d, n) => EarlierFiled(d, n)'
    BY <1>1 DEF EarlierFiled
<1>3. ASSUME Captured, FrameNamed(d, n) PROVE Coming(DpcFile(d, n))'
    <2>1. exposed' = Append(exposed, screen) /\ exposed \in Seq(Pattern) /\ screen \in Pattern
        BY <1>3 DEF Captured, captureStillPicture, TypeOK, CameraType
    <2>2. exposed' # <<>>
        BY <2>1, AppendFacts
    <2> QED
        BY <1>1, <1>3, <2>2 DEF Coming, FrameNamed
<1>4. ASSUME FrameNamed(d, n),
             worker' = worker \/ worker' = "wait" \/ (worker' = "save" /\ cameraReady),
             UNCHANGED <<cameraReady, due>> \/ Captured \/ ~NoneDue
      PROVE  FrameNamed(d, n)'
    <2>1. n > 0 => DpcFile(d, n - 1) \in DOMAIN pictures'
        BY <1>1, <1>4 DEF FrameNamed
    <2>2. full_image_file'.file = DpcFile(d, n)
        BY <1>1, <1>4 DEF FrameNamed
    <2>3. worker' = "save" \/ cameraReady' \/ ~NoneDue' => Coming(DpcFile(d, n))'
        BY <1>1, <1>3, <1>4 DEF FrameNamed, NoneDue
    <2> QED
        BY <2>1, <2>2, <2>3 DEF FrameNamed
<1> QED
    BY <1>2, <1>4

(* The running acquisition of the object files its frames one by one: with *)
(* the sleep before it, a frame is named when the one before is filed, and *)
(* cameraReady comes back only with an image of its own.                   *)
LEMMA NextFramesFiled ==
    ASSUME SleepSuffices
    PROVE  TasksInv /\ AtHead /\ ObjectFirst /\ FramesFiled /\ Next => FramesFiled'
<1> SUFFICES ASSUME TasksInv, AtHead, ObjectFirst, FramesFiled, Next,
                    queue' # <<>>, IsObject(Head(queue')), worker' # "start"
             PROVE  FramesFiled'
    BY DEF FramesFiled
<1>0. TypeOK /\ OneProcess /\ BackgroundInv
    BY DEF TasksInv
<1>1. queue # <<>> /\ Head(queue') = Head(queue)
    <2>1. CASE User
        BY <1>0, <2>1, UserStep DEF AtHead
    <2>2. CASE Worker
        BY <1>0, <2>2, WorkerStep
    <2>3. CASE UiThread \/ CameraCallback \/ onImageAvailable
        BY <2>3 DEF UiThread, onProgressUpdate, onPostExecute, onPostExecuteProcess,
            nameOptimal, takeOptimal, optimalReady, CameraCallback, Callback,
            process, captureStillPicture, Completion, unlockFocus, setReady, onImageAvailable
    <2> QED
        BY <2>1, <2>2, <2>3 DEF Next
<1>2. /\ 1 \in 1..Len(queue) /\ Head(queue) = queue[1] /\ IsObject(Head(queue))
      /\ Head(queue).kind = "DPC" /\ ~IsProcess(Head(queue)) /\ ui = "idle"
    <2>1. 1 \in 1..Len(queue) /\ Head(queue) = queue[1]
        BY <1>0, <1>1, TailFacts DEF TypeOK, ThreadType
    <2> QED
        BY <1>1, <2>1 DEF ObjectFirst, IsObject, IsProcess
<1>3. PICK d, n : d = Head(queue).dir /\ n = frame[1]
    OBVIOUS
<1>4. n \in Nat /\ frame = <<n, frame[2]>> /\ Head(queue').dir = d
    BY <1>0, <1>1, <1>3 DEF TypeOK, ThreadType, Counter
<1>5. worker # "start" =>
        /\ frame[2] = 0
        /\ EarlierFiled(d, n)
        /\ worker \in {"lock", "wait", "save"} => FrameNamed(d, n)
    BY <1>1, <1>2, <1>3 DEF FramesFiled
<1>s. ASSUME NEW k, frame'[1] = k, frame'[2] = 0, EarlierFiled(d, k)',
             worker' \in {"lock", "wait", "save"} => FrameNamed(d, k)'
      PROVE  FramesFiled'
    <2>1. EarlierFiled(Head(queue).dir, frame[1])'
        BY <1>4, <1>s DEF EarlierFiled, Coming
    <2>2. worker' \in {"lock", "wait", "save"} => FrameNamed(Head(queue).dir, frame[1])'
        BY <1>4, <1>s DEF FrameNamed, Coming
    <2> QED
        BY <1>s, <2>1, <2>2 DEF FramesFiled
<1>6. ASSUME ~nameFrame, ~nameOptimal, worker # "start", frame' = frame,
             worker' \in {"lock", "wait", "save"} =>
                /\ worker \in {"lock", "wait", "save"}
                /\ worker' = worker \/ worker' = "wait" \/ (worker' = "save" /\ cameraReady),
             UNCHANGED <<cameraReady, due>> \/ Captured \/ ~NoneDue
      PROVE  FramesFiled'
    <2>1. frame'[2] = 0 /\ frame'[1] = n
        BY <1>3, <1>5, <1>6
    <2>2. EarlierFiled(d, n)'
        BY <1>0, <1>5, <1>6, FilesKept
    <2>3. worker' \in {"lock", "wait", "save"} => FrameNamed(d, n)'
        BY <1>0, <1>5, <1>6, FilesKept
    <2> QED
        BY <1>s, <2>1, <2>2, <2>3
<1>7. CASE User
    <2>1. UNCHANGED <<worker, frame, cameraReady, due>>
        BY <1>0, <1>7, UserStep
    <2>2. ~nameFrame /\ ~nameOptimal
        BY <1>2, <1>7, <2>1 DEF nameFrame, nameOptimal, At
    <2> QED
        BY <1>6, <2>1, <2>2
<1>8. CASE doInBackground
    <2>1. frame'[1] = 0 /\ frame'[2] = 0 /\ worker' \in {"name", "draw"}
        BY <1>8 DEF doInBackground
    <2>2. EarlierFiled(d, 0)'
        BY DEF EarlierFiled
    <2> QED
        BY <1>s, <2>1, <2>2
<1>9. CASE nameFrame
    <2>1. /\ worker = "name" /\ uiQueue = <<>> /\ exposed = <<>> /\ NoneDue'
          /\ full_image_file' = Named(Head(queue), d, frame)
          /\ UNCHANGED <<frame, pictures, exposed>> /\ ~cameraReady' /\ worker' = "lock"
        BY <1>0, <1>2, <1>3, <1>9 DEF nameFrame, At, Outstanding, NoneDue
    <2>2. frame'[2] = 0 /\ frame'[1] = n /\ frame = <<n, 0>> /\ EarlierFiled(d, n)
        BY <1>3, <1>4, <1>5, <2>1
    <2>3. n > 0 => DpcFile(d, n - 1) \in DOMAIN pictures
        BY <2>1, <2>2 DEF EarlierFiled, Coming
    <2>4. full_image_file'.file = DpcFile(d, n)
        BY <1>2, <2>1, <2>2 DEF Named, DpcFile
    <2>5. FrameNamed(d, n)'
        BY <2>1, <2>3, <2>4 DEF FrameNamed
    <2>6. EarlierFiled(d, n)'
        BY <2>1, <2>2, <2>3 DEF EarlierFiled, Coming
    <2> QED
        BY <1>s, <2>2, <2>5, <2>6
<1>10. CASE saveSource
    <2>1. /\ worker = "save" /\ frame' = NextFrame(Head(queue).kind) /\ worker' = "draw"
          /\ UNCHANGED <<full_image_file, pictures, exposed>>
        BY <1>10 DEF saveSource, At
    <2>2. frame'[1] = n + 1 /\ frame'[2] = 0
        BY <1>2, <1>3, <2>1 DEF NextFrame
    <2>3. EarlierFiled(d, n) /\ FrameNamed(d, n)
        BY <1>5, <2>1
    <2>4. Coming(DpcFile(d, n)) /\ \A i \in 0..(n - 1) : DpcFile(d, i) \in DOMAIN pictures
        BY <1>4, <2>1, <2>3 DEF FrameNamed, EarlierFiled
    <2>5. EarlierFiled(d, n + 1)'
        BY <1>4, <2>1, <2>4 DEF EarlierFiled, Coming
    <2> QED
        BY <1>s, <2>1, <2>2, <2>5
<1>11. CASE drawFrame \/ takePicture \/ frameReady
    <2>1. /\ UNCHANGED <<frame, cameraReady, due>>
          /\ \/ worker = "draw" /\ worker' = "name"
             \/ worker = "lock" /\ worker' = "wait"
             \/ worker = "wait" /\ worker' = "save" /\ cameraReady
        BY <1>11 DEF drawFrame, takePicture, frameReady, At
    <2>2. ~nameFrame /\ ~nameOptimal
        BY <1>2, <2>1 DEF nameFrame, nameOptimal, At
    <2> QED
        BY <1>6, <2>1, <2>2
<1>12. CASE taskDone \/ optimise \/ readInputs
    BY <1>2, <1>12 DEF taskDone, optimise, readInputs, Running
<1>13. CASE UiThread
    <2>1. UNCHANGED <<worker, frame, cameraReady, due>>
        BY <1>2, <1>13 DEF UiThread, onProgressUpdate, onPostExecute, onPostExecuteProcess,
            nameOptimal, takeOptimal, optimalReady
    <2>2. ~nameFrame /\ ~nameOptimal
        BY <1>2, <2>1 DEF nameFrame, nameOptimal, At
    <2> QED
        BY <1>6, <2>1, <2>2
<1>14. CASE CameraCallback \/ onImageAvailable
    <2>1. /\ UNCHANGED <<worker, frame>>
          /\ UNCHANGED <<cameraReady, due>> \/ Captured \/ ~NoneDue
        BY <1>0, <1>14 DEF CameraCallback, Callback, process, captureStillPicture,
            Completion, unlockFocus, setReady,
            onImageAvailable, Captured, NoneDue, TypeOK, CameraType
    <2>2. ~nameFrame /\ ~nameOptimal
        BY <1>2, <2>1 DEF nameFrame, nameOptimal, At
    <2> QED
        BY <1>6, <2>1, <2>2
<1> QED
    BY <1>7, <1>8, <1>9, <1>10, <1>11, <1>12, <1>13, <1>14 DEF Next, Worker

(* The acquisition into g_DPC_path that leaves the queue has filed the     *)
(* inputs of runProcess, and all its frames are filed or coming.           *)
LEMMA AcquisitionDone ==
    ASSUME TasksInv, AtHead, FramesFiled, Next, Acquiring, g_path'["DPC"] = g_path["DPC"],
           ~Acquiring'
    PROVE  /\ ~nameFrame /\ ~nameOptimal
           /\ \A i \in 0..Rotations : Coming(DpcFile(g_path["DPC"], i))
           /\ Inputs(g_path["DPC"]) \subseteq DOMAIN pictures
<1>0. TypeOK /\ OneProcess /\ BackgroundInv
    BY DEF TasksInv
<1>1. PICK j \in 1..Len(queue) : IsObject(queue[j]) /\ queue[j].dir = g_path["DPC"]
    BY DEF Acquiring
<1>2. ~UNCHANGED queue
    BY <1>1 DEF Acquiring
<1>3. ~User
    BY <1>0, <1>1, <1>2, UserStep DEF Acquiring
<1>4. Worker
    BY <1>2, <1>3 DEF Next, UiThread, onProgressUpdate, onPostExecute, onPostExecuteProcess,
        nameOptimal, takeOptimal, optimalReady, CameraCallback, Callback, process,
        captureStillPicture, Completion, unlockFocus,
        setReady, onImageAvailable
<1>5. taskDone \/ optimise
    BY <1>2, <1>4 DEF Worker, doInBackground, drawFrame, nameFrame, takePicture, frameReady,
        saveSource, readInputs
<1>6. queue' = Tail(queue) /\ queue # <<>>
    BY <1>5 DEF taskDone, optimise, Running
<1>7. /\ Len(queue) \in Nat \ {0} /\ Len(queue') = Len(queue) - 1 /\ Head(queue) = queue[1]
      /\ \A i \in 1..Len(queue') : i + 1 \in 1..Len(queue) /\ queue'[i] = queue[i + 1]
    BY <1>0, <1>6, Finished
<1>8. j = 1
    <2> SUFFICES ASSUME j # 1 PROVE FALSE
        OBVIOUS
    <2>1. j - 1 \in 1..Len(queue') /\ (j - 1) + 1 = j
        BY <1>7
    <2>2. queue'[j - 1] = queue[j]
        BY <1>7, <2>1
    <2> QED
        BY <1>1, <2>1, <2>2 DEF Acquiring
<1>9. Head(queue).kind = "DPC" /\ Head(queue).dir = g_path["DPC"] /\ IsObject(Head(queue))
    BY <1>1, <1>7, <1>8 DEF IsObject
<1>10. taskDone /\ worker = "draw" /\ ~InLoop("DPC")
    BY <1>5, <1>9 DEF taskDone, optimise, Running, At
<1>11. PICK d, n : d = g_path["DPC"] /\ n = frame[1]
    OBVIOUS
<1>12. n \in Nat /\ n >= Rotations + 1 /\ Rotations \in Nat \ {0}
    BY <1>0, <1>10, <1>11, TasksAssumption DEF InLoop, TypeOK, ThreadType, Counter
<1>13. EarlierFiled(d, n)
    BY <1>6, <1>9, <1>10, <1>11 DEF FramesFiled
<1>14. \A i \in 0..(Rotations - 1) : DpcFile(d, i) \in DOMAIN pictures
    BY <1>12, <1>13 DEF EarlierFiled
<1>15. Coming(DpcFile(d, Rotations))
    <2>1. CASE n = Rotations + 1
        BY <1>12, <1>13, <2>1 DEF EarlierFiled
    <2>2. CASE n > Rotations + 1
        BY <1>12, <1>13, <2>2 DEF EarlierFiled, Coming
    <2> QED
        BY <1>12, <2>1, <2>2
<1>16. \A i \in 0..Rotations : Coming(DpcFile(d, i))
    BY <1>12, <1>14, <1>15 DEF Coming
<1>17. Inputs(d) \subseteq DOMAIN pictures
    BY <1>14 DEF Inputs, DpcFile
<1>18. ~nameFrame /\ ~nameOptimal
    BY <1>2 DEF nameFrame, nameOptimal
<1> QED
    BY <1>11, <1>16, <1>17, <1>18

(* g_DPC_path moves only with an acquisition into it.                      *)
LEMMA PathStep ==
    ASSUME TasksInv, Next PROVE g_path'["DPC"] = g_path["DPC"] \/ Acquiring'
<1>0. TypeOK /\ OneProcess /\ BackgroundInv
    BY DEF TasksInv
<1>1. CASE User
    BY <1>0, <1>1, UserStep DEF Acquiring
<1>2. CASE ~User
    BY <1>2 DEF Next, Worker, doInBackground, drawFrame, nameFrame, takePicture, frameReady,
        saveSource, taskDone, readInputs, optimise, UiThread, onProgressUpdate, onPostExecute,
        onPostExecuteProcess, nameOptimal, takeOptimal, optimalReady, CameraCallback,
        Callback, process, captureStillPicture, Completion, unlockFocus, setReady,
        onImageAvailable
<1> QED
    BY <1>1, <1>2

(* InputsInv is inductive.                                                 *)
LEMMA NextInputs ==
    ASSUME SleepSuffices
    PROVE  InputsInv /\ TasksInv' /\ [Next]_vars => InputsInv'
<1> SUFFICES ASSUME InputsInv, TasksInv', [Next]_vars PROVE InputsInv'
    OBVIOUS
<1>0. /\ TasksInv /\ AtHead /\ ObjectFirst /\ FramesFiled /\ InputsFiled
      /\ ProcessFindsItsInputs /\ TypeOK /\ OneProcess
    BY DEF InputsInv, TasksInv
<1>1. CASE UNCHANGED vars
    BY <1>0, <1>1 DEF InputsInv, AtHead, ObjectFirst, FramesFiled, EarlierFiled, FrameNamed,
        NoneDue, Coming, InputsFiled, Acquiring, ProcessFindsItsInputs
<1>2. CASE Next
    <2>1. AtHead' /\ ObjectFirst' /\ FramesFiled'
        BY <1>0, <1>2, NextAtHead, NextObjectFirst, NextFramesFiled
    <2>2. InputsFiled'
        <3> SUFFICES ASSUME g_path'["DPC"].stamp > 0, ~Acquiring'
                     PROVE  Inputs(g_path'["DPC"]) \subseteq DOMAIN pictures'
            BY DEF InputsFiled, Inputs
        <3>1. g_path'["DPC"] = g_path["DPC"]
            BY <1>0, <1>2, PathStep
        <3>2. Inputs(g_path["DPC"]) \subseteq DOMAIN pictures
            BY <1>0, <1>2, <3>1, AcquisitionDone DEF InputsFiled
        <3> QED
            BY <1>0, <1>2, <3>1, <3>2, StoreStep
    <2>3. ProcessFindsItsInputs'
        <3>1. CASE readInputs
            <4>1. queue # <<>> /\ Head(queue).kind = "Process" /\ queue' = queue
                  /\ (Inputs(Head(queue).dir) \subseteq DOMAIN pictures => dead' = dead)
                BY <3>1 DEF readInputs, Running
            <4>2. 1 \in 1..Len(queue) /\ Head(queue) = queue[1]
                BY <1>0, <4>1, TailFacts DEF TypeOK, ThreadType
            <4>3. Head(queue).dir = g_path["DPC"]
                BY <1>0, <4>1, <4>2 DEF OneProcess, IsProcess
            <4>4. ~Acquiring
                <5> SUFFICES ASSUME NEW j \in 1..Len(queue), IsObject(queue[j]) PROVE FALSE
                    BY DEF Acquiring
                <5>1. 1 \in 1..j
                    OBVIOUS
                <5> QED
                    BY <1>0, <4>1, <4>2, <5>1 DEF ObjectFirst, IsProcess
            <4>5. g_path["DPC"].stamp \in Nat
                BY <1>0, TasksAssumption DEF TypeOK, SettingsType, Dir, Event, Folder
            <4>6. g_path["DPC"].stamp > 0 => dead' = dead
                BY <1>0, <4>1, <4>3, <4>4 DEF InputsFiled
            <4>7. ~dead
                BY <1>2, DeadStops
            <4>8. ASSUME dead' PROVE g_path["DPC"].stamp = 0
                <5>1. ~(g_path["DPC"].stamp > 0)
                    BY <4>6, <4>7, <4>8
                <5> QED
                    BY <4>5, <5>1
            <4>9. Head(queue').dir = g_path["DPC"]
                BY <4>1, <4>3
            <4> QED
                BY <4>8, <4>9 DEF ProcessFindsItsInputs
        <3>2. CASE ~readInputs
            <4>1. dead' = dead
                BY <1>2, <3>2 DEF Next, User, btnAcquire, btnAcquireBG, btnCapture, btnProcess,
                    slideTo, setAcqMethod, setMmCount, slideToExposuretime, Worker,
                    doInBackground, drawFrame,
                    nameFrame, takePicture, frameReady, saveSource, taskDone, optimise,
                    UiThread, onProgressUpdate, onPostExecute, onPostExecuteProcess,
                    nameOptimal, takeOptimal, optimalReady, CameraCallback, Callback,
                    process, captureStillPicture, Completion, unlockFocus, setReady,
                    onImageAvailable
            <4> QED
                BY <1>2, <4>1, DeadStops DEF ProcessFindsItsInputs
        <3> QED
            BY <3>1, <3>2
    <2> QED
        BY <2>1, <2>2, <2>3 DEF InputsInv
<1> QED
    BY <1>1, <1>2

(* InputsInv holds initially.                                              *)
LEMMA InitInputs == Init => InputsInv
<1> SUFFICES ASSUME Init PROVE InputsInv
    OBVIOUS
<1>1. queue = <<>> /\ worker = "start" /\ ~dead
    BY DEF Init
<1>2. g_path["DPC"].stamp = 0
    BY DEF Init, DirOf, Folder
<1>3. TasksInv
    BY InitTyped, InitTasks DEF TasksInv
<1> QED
    BY <1>1, <1>2, <1>3 DEF InputsInv, AtHead, ObjectFirst, FramesFiled, InputsFiled,
        ProcessFindsItsInputs

(* If the sleep before a picture lets messages and images arrive, then     *)
(* runProcess finds the images of the last DPC acquisition, whatever the   *)
(* user touches: queued behind it, it starts when all are saved.           *)
THEOREM ProcessHasItsInputs == ASSUME SleepSuffices PROVE Spec => []ProcessFindsItsInputs
<1>1. InputsInv => ProcessFindsItsInputs
    BY DEF InputsInv
<1> QED
    BY <1>1, InitInputs, NextInputs, TasksInvariant, PTL DEF Spec

------------------------------------------------------------------------------
(* A user who waits until everything is quiet: the light is in step with   *)
(* the file names.                                                         *)

(* What Fits asks of a picture, for each kind of task.                     *)
LEMMA FitsMeans ==
    ASSUME NEW x
    PROVE  /\ Fits(x) <=>
                /\ full_image_file.by.kind \in Modes =>
                     x = FramePattern(full_image_file.by, full_image_file.file.frame)
                /\ full_image_file.by.kind = "Process" => x = Optimum(full_image_file.by)
           /\ "Process" \notin Modes /\ "Capture" \notin Modes
<1>1. "Process" \notin Modes /\ "Capture" \notin Modes
    BY TasksAssumption
<1> QED
    BY <1>1 DEF Fits

(* While nobody waits for a picture the camera is in its preview.          *)
LEMMA CameraAtRest ==
    ASSUME CameraInStep, ~Waiting \/ cameraReady PROVE mState = "preview" /\ AtRest
    BY DEF CameraInStep

(* The patient user starts one task, from a quiet state.                   *)
LEMMA UserCareful ==
    ASSUME Careful, CarefulInv, User
    PROVE  OneTask' /\ LampInStep' /\ CameraInStep'
<1>0. TypeOK /\ OneProcess /\ BackgroundInv /\ AtHead
    BY DEF CarefulInv, InputsInv, TasksInv
<1>1. Quiet
    BY DEF User, btnAcquire, btnAcquireBG, btnCapture, btnProcess, slideTo, setAcqMethod,
        setMmCount, slideToExposuretime, Touch
<1>2. UNCHANGED <<worker, frame, uiQueue, ui, cameraReady, mState, due, busy, exposed, storage,
                  dead>>
    BY <1>0, UserStep
<1>3. /\ queue = <<>> /\ uiQueue' = <<>> /\ ui' = "idle" /\ exposed' = <<>> /\ AtRest'
      /\ mState' = "preview" /\ worker' = "start"
    BY <1>0, <1>1, <1>2 DEF Quiet, Outstanding, AtHead, AtRest, NoneDue, NoCallback
<1>4. Len(queue') <= 1
    <2>1. Len(queue) = 0
        BY <1>3
    <2>2. queue' = queue \/ Len(queue') = Len(queue) + 1
        BY <1>0, UserStep
    <2>3. CASE queue' = queue
        <3>1. Len(queue') = 0
            BY <2>1, <2>3
        <3> QED
            BY <3>1
    <2>4. CASE Len(queue') = Len(queue) + 1
        BY <2>1, <2>4
    <2> QED
        BY <2>2, <2>3, <2>4
<1>5. OneTask'
    BY <1>3, <1>4 DEF OneTask
<1>6. LampInStep'
    BY <1>3 DEF LampInStep
<1>7. CameraInStep'
    BY <1>3 DEF CameraInStep, Asking, Waiting
<1> QED
    BY <1>5, <1>6, <1>7

(* The only task leaves an empty queue.                                    *)
LEMMA Emptied ==
    ASSUME TypeOK, queue # <<>>, Len(queue) <= 1, queue' = Tail(queue)
    PROVE  queue' = <<>>
<1>1. queue' \in Seq(Task) /\ Len(queue') = 0
    <2>1. Len(queue) \in Nat \ {0} /\ Len(queue') = Len(queue) - 1
        BY Finished
    <2>2. queue' \in Seq(Task)
        BY HeadTask
    <2> QED
        BY <2>1, <2>2
<1> QED
    BY <1>1

(* A worker's step that keeps the task, the light and the file name, and   *)
(* posts at most a progress update, leaves the messages in order.          *)
LEMMA MessagesKept ==
    ASSUME TypeOK, OneTask, queue # <<>>, ~IsProcess(Head(queue)),
           uiQueue' = uiQueue \/ Publish("progress")
    PROVE  \A i \in 1..Len(uiQueue') :
              uiQueue'[i].msg = "progress" /\ ~IsProcess(uiQueue'[i].task)
<1>1. \A i \in 1..Len(uiQueue) : uiQueue[i].msg = "progress" /\ ~IsProcess(uiQueue[i].task)
    BY DEF OneTask
<1>2. CASE Publish("progress")
    <2>1. /\ Len(uiQueue) \in Nat /\ Len(uiQueue') = Len(uiQueue) + 1
          /\ \A i \in 1..Len(uiQueue) : uiQueue'[i] = uiQueue[i]
          /\ uiQueue'[Len(uiQueue) + 1].task = Head(queue)
          /\ uiQueue'[Len(uiQueue) + 1].msg = "progress"
        BY <1>2, Published
    <2>2. \A i \in 1..Len(uiQueue') : i \in 1..Len(uiQueue) \/ i = Len(uiQueue) + 1
        BY <2>1
    <2> QED
        BY <1>1, <2>1, <2>2
<1> QED
    BY <1>1, <1>2

(* The worker goes through its frames in step with the lamp and the        *)
(* camera.                                                                 *)
LEMMA WorkerCareful ==
    ASSUME SleepSuffices, CarefulInv, Worker
    PROVE  OneTask' /\ LampInStep' /\ CameraInStep'
<1>0. TypeOK /\ AtHead /\ OneTask /\ LampInStep /\ CameraInStep
    BY DEF CarefulInv, InputsInv, TasksInv
<1>1. queue # <<>> /\ ui = "idle" /\ ui' = "idle" /\ Len(queue) <= 1
    BY <1>0, WorkerStep DEF OneTask
<1>2. \A i \in 1..Len(uiQueue) : ~IsProcess(uiQueue[i].task)
    BY <1>0, <1>1 DEF OneTask
<1>3. "Process" \notin Modes /\ "Capture" \notin Modes /\ "Process" \notin Folder
    BY TasksAssumption DEF Folder
<1>4. ASSUME worker \notin {"lock", "wait"}, worker' \notin {"lock", "wait"},
             UNCHANGED <<mState, due, busy>>
      PROVE  CameraInStep'
    <2>1. ~Waiting /\ ~Asking' /\ ~Waiting'
        BY <1>1, <1>4 DEF Waiting, Asking
    <2>2. mState' = "preview" /\ AtRest'
        BY <1>0, <1>4, <2>1, CameraAtRest DEF AtRest, NoneDue, NoCallback
    <2> QED
        BY <2>1, <2>2 DEF CameraInStep
<1>5. ASSUME UNCHANGED <<exposed, full_image_file>>
      PROVE  \A i \in 1..Len(exposed') : Fits(exposed[i])'
    BY <1>0, <1>5 DEF LampInStep, Fits
<1>6. CASE doInBackground
    <2>1. /\ worker = "start" /\ Head(queue).kind \in Folder
          /\ worker' = IF Head(queue).kind = "Capture" THEN "name" ELSE "draw"
          /\ uiQueue' = uiQueue \/ Publish("progress")
          /\ Head(queue).kind = "Capture" => uiQueue' = uiQueue
          /\ UNCHANGED <<queue, mState, due, busy, exposed, full_image_file>>
        BY <1>6 DEF doInBackground, Running, At
    <2>2. uiQueue = <<>> /\ exposed' = <<>>
        BY <1>0, <1>1, <2>1 DEF OneTask
    <2>3. \A i \in 1..Len(uiQueue') :
            uiQueue'[i].msg = "progress" /\ ~IsProcess(uiQueue'[i].task)
        BY <1>0, <1>1, <1>3, <2>1, MessagesKept DEF IsProcess
    <2>4. OneTask'
        BY <1>1, <2>1, <2>2, <2>3 DEF OneTask
    <2>5. LampInStep'
        BY <1>1, <1>3, <2>1, <2>2, <2>3 DEF LampInStep
    <2>6. CameraInStep'
        BY <1>4, <2>1
    <2> QED
        BY <2>4, <2>5, <2>6
<1>7. CASE drawFrame
    <2>1. /\ worker = "draw" /\ Head(queue).kind \in Folder /\ InLoop(Head(queue).kind)
          /\ mBitmap' = FramePattern(Head(queue), frame)
          /\ Publish("progress") /\ worker' = "name"
          /\ UNCHANGED <<queue, frame, mState, due, busy, exposed, full_image_file>>
        BY <1>7 DEF drawFrame, Running, At
    <2>2. Head(queue).kind # "Capture"
        <3>1. InLoop("Capture") => frame[1] < 1
            BY DEF InLoop
        <3>2. frame[1] \in Nat
            BY <1>0 DEF TypeOK, ThreadType, Counter
        <3> QED
            BY <1>0, <1>1, <2>1, <3>1, <3>2 DEF OneTask
    <2>3. \A i \in 1..Len(uiQueue') :
            uiQueue'[i].msg = "progress" /\ ~IsProcess(uiQueue'[i].task)
        BY <1>0, <1>1, <1>3, <2>1, MessagesKept DEF IsProcess
    <2>4. uiQueue' # <<>>
        BY <1>0, <1>1, <2>1, Published
    <2>5. OneTask'
        BY <1>1, <2>1, <2>2, <2>3 DEF OneTask
    <2>6. LampInStep'
        BY <1>1, <1>5, <2>1, <2>3, <2>4 DEF LampInStep, FramePattern
    <2>7. CameraInStep'
        BY <1>4, <2>1
    <2> QED
        BY <2>5, <2>6, <2>7
<1>8. CASE nameFrame
    <2>1. /\ worker = "name" /\ worker' = "lock" /\ ~cameraReady'
          /\ full_image_file' = Named(Head(queue), Head(queue).dir, frame)
          /\ UNCHANGED <<queue, frame, uiQueue, light, mState, due, busy, exposed>>
        BY <1>8 DEF nameFrame, At
    <2>2. uiQueue = <<>> /\ exposed = <<>>
        BY <1>0, <1>1, <1>8, <2>1 DEF nameFrame, Outstanding, OneTask
    <2>3. OneTask'
        BY <1>1, <2>1, <2>2 DEF OneTask
    <2>4. LampInStep'
        BY <1>0, <1>1, <2>1, <2>2 DEF LampInStep, FramePattern, Named
    <2>5. CameraInStep'
        <3>1. ~Waiting /\ ~Waiting'
            BY <1>1, <2>1 DEF Waiting
        <3> QED
            BY <1>0, <2>1, <3>1, CameraAtRest DEF CameraInStep, AtRest, NoneDue, NoCallback
    <2> QED
        BY <2>3, <2>4, <2>5
<1>9. CASE takePicture \/ frameReady
    <2>1. /\ \/ worker = "lock" /\ worker' = "wait" /\ mState' = "lock"
             \/ worker = "wait" /\ worker' = "save" /\ cameraReady /\ mState' = mState
          /\ UNCHANGED <<queue, frame, uiQueue, light, due, busy, exposed, full_image_file, cameraReady>>
        BY <1>9 DEF takePicture, frameReady, At
    <2>2. uiQueue = <<>>
        BY <1>0, <1>1, <2>1 DEF OneTask
    <2>3. OneTask'
        BY <1>1, <2>1, <2>2 DEF OneTask
    <2>4. LampInStep'
        BY <1>0, <1>1, <1>5, <2>1, <2>2 DEF LampInStep, FramePattern, Named
    <2>5. CASE worker = "lock"
        <3>1. ~Waiting /\ Asking /\ Waiting' /\ ~Asking' /\ mState' = "lock"
            BY <1>1, <2>1, <2>5 DEF Waiting, Asking
        <3>2. ~cameraReady' /\ AtRest'
            BY <1>0, <2>1, <3>1, CameraAtRest DEF CameraInStep, AtRest, NoneDue, NoCallback
        <3> QED
            BY <2>3, <2>4, <3>1, <3>2 DEF CameraInStep
    <2>6. CASE worker = "wait"
        <3>1. ~Waiting' /\ ~Asking'
            BY <1>1, <2>1, <2>6 DEF Waiting, Asking
        <3>2. mState' = "preview" /\ AtRest'
            BY <1>0, <2>1, <2>6, CameraAtRest DEF AtRest, NoneDue, NoCallback
        <3> QED
            BY <2>3, <2>4, <3>1, <3>2 DEF CameraInStep
    <2> QED
        BY <2>1, <2>5, <2>6
<1>10. CASE saveSource
    <2>1. /\ worker = "save" /\ worker' = "draw" /\ frame' = NextFrame(Head(queue).kind)
          /\ UNCHANGED <<queue, uiQueue, mState, due, busy, exposed, full_image_file>>
        BY <1>10 DEF saveSource, At
    <2>2. uiQueue = <<>>
        BY <1>0, <1>1, <2>1 DEF OneTask
    <2>3. Head(queue).kind = "Capture" => frame'[1] > 0
        BY <1>0, <2>1 DEF NextFrame, TypeOK, ThreadType, Counter
    <2>4. OneTask'
        BY <1>1, <2>1, <2>2, <2>3 DEF OneTask
    <2>5. LampInStep'
        BY <1>1, <1>5, <2>1, <2>2 DEF LampInStep
    <2>6. CameraInStep'
        BY <1>4, <2>1
    <2> QED
        BY <2>4, <2>5, <2>6
<1>11. CASE taskDone
    <2>1. /\ worker = "draw" /\ worker' = "start" /\ Head(queue).kind \in Folder
          /\ queue' = Tail(queue) /\ Publish("post")
          /\ UNCHANGED <<mState, due, busy, exposed, full_image_file>>
        BY <1>11 DEF taskDone, At, Running
    <2>2. queue' = <<>>
        BY <1>0, <1>1, <2>1, Emptied
    <2>3. \A i \in 1..Len(uiQueue') : ~IsProcess(uiQueue'[i].task)
        <3>1. /\ Len(uiQueue) \in Nat /\ Len(uiQueue') = Len(uiQueue) + 1
              /\ \A i \in 1..Len(uiQueue) : uiQueue'[i] = uiQueue[i]
              /\ uiQueue'[Len(uiQueue) + 1].task = Head(queue)
            BY <1>0, <1>1, <2>1, Published
        <3>2. \A i \in 1..Len(uiQueue') : i \in 1..Len(uiQueue) \/ i = Len(uiQueue) + 1
            BY <3>1
        <3> QED
            BY <1>2, <1>3, <2>1, <3>1, <3>2 DEF IsProcess
    <2>4. OneTask'
        BY <1>1, <2>2, <2>3 DEF OneTask
    <2>5. LampInStep'
        BY <1>1, <1>5, <2>1, <2>2, <2>3 DEF LampInStep
    <2>6. CameraInStep'
        BY <1>4, <2>1
    <2> QED
        BY <2>4, <2>5, <2>6
<1>12. CASE readInputs
    <2>1. /\ worker = "start" /\ worker' \in {"start", "optimise"} /\ Head(queue).kind = "Process"
          /\ UNCHANGED <<queue, uiQueue, mState, due, busy, exposed, full_image_file>>
        BY <1>12 DEF readInputs, At, Running
    <2>2. uiQueue' = <<>> /\ exposed' = <<>>
        BY <1>0, <1>1, <2>1 DEF OneTask
    <2>3. OneTask'
        BY <1>1, <2>1, <2>2 DEF OneTask
    <2>4. LampInStep'
        BY <1>1, <2>1, <2>2 DEF LampInStep
    <2>5. CameraInStep'
        BY <1>4, <2>1
    <2> QED
        BY <2>3, <2>4, <2>5
<1>13. CASE optimise
    <2>1. /\ worker = "optimise" /\ worker' = "start" /\ mBitmap' = Optimum(Head(queue))
          /\ queue' = Tail(queue) /\ Publish("post")
          /\ UNCHANGED <<mState, due, busy, exposed, full_image_file>>
        BY <1>13 DEF optimise, At, Running
    <2>2. queue' = <<>>
        BY <1>0, <1>1, <2>1, Emptied
    <2>3. uiQueue = <<>>
        BY <1>0, <1>1, <2>1 DEF OneTask
    <2>4. Len(uiQueue') = 1 /\ uiQueue'[1].task = Head(queue)
        <3>1. Len(uiQueue) = 0
            BY <2>3
        <3>2. Len(uiQueue') = Len(uiQueue) + 1 /\ uiQueue'[Len(uiQueue) + 1].task = Head(queue)
            BY <1>0, <1>1, <2>1, Published
        <3> QED
            BY <3>1, <3>2
    <2>5. OneTask'
        BY <1>1, <2>2, <2>4 DEF OneTask
    <2>6. \A i \in 1..Len(uiQueue') : mBitmap' = Optimum(uiQueue'[i].task)
        BY <2>1, <2>4
    <2>7. LampInStep'
        BY <1>1, <1>5, <2>1, <2>2, <2>6 DEF LampInStep, Optimum
    <2>8. CameraInStep'
        BY <1>4, <2>1
    <2> QED
        BY <2>5, <2>7, <2>8
<1> QED
    BY <1>6, <1>7, <1>8, <1>9, <1>10, <1>11, <1>12, <1>13 DEF Worker

(* The UI thread shows the patterns in their turn, and takes the picture   *)
(* of runProcess when nothing else is on its way.                          *)
LEMMA UiCareful ==
    ASSUME SleepSuffices, CarefulInv, UiThread
    PROVE  OneTask' /\ LampInStep' /\ CameraInStep'
<1>0. TypeOK /\ OneTask /\ LampInStep /\ CameraInStep
    BY DEF CarefulInv, InputsInv, TasksInv
<1>1. UNCHANGED <<queue, worker, frame, exposed, pictures, due, busy>>
    BY DEF UiThread, onProgressUpdate, onPostExecute, onPostExecuteProcess, nameOptimal,
        takeOptimal, optimalReady
<1>2. ASSUME UNCHANGED full_image_file
      PROVE  \A i \in 1..Len(exposed') : Fits(exposed[i])'
    BY <1>0, <1>1, <1>2 DEF LampInStep, Fits
<1>3. ASSUME uiQueue # <<>>
      PROVE  /\ 1 \in 1..Len(uiQueue) /\ Head(uiQueue) = uiQueue[1]
             /\ IsProcess(Head(uiQueue).task) =>
                    Len(uiQueue) = 1 /\ queue = <<>> /\ mBitmap = Optimum(Head(uiQueue).task)
    <2>1. 1 \in 1..Len(uiQueue) /\ Head(uiQueue) = uiQueue[1]
        BY <1>0, <1>3, TailFacts DEF TypeOK, ThreadType
    <2> QED
        BY <1>0, <2>1 DEF OneTask, LampInStep
<1>4. ui # "idle" =>
        /\ uiQueue # <<>> /\ IsProcess(Head(uiQueue).task) /\ Len(uiQueue) = 1 /\ queue = <<>>
        /\ mBitmap = Optimum(Head(uiQueue).task) /\ screen = mBitmap
    BY <1>0, <1>3 DEF TypeOK, ThreadType, OneTask, LampInStep
<1>5. CASE onProgressUpdate \/ onPostExecute
    <2>1. /\ ui = "idle" /\ ui' = "idle" /\ uiQueue # <<>> /\ uiQueue' = Tail(uiQueue)
          /\ Head(uiQueue).msg = "post" \/ (screen' = mBitmap /\ mBitmap' = mBitmap)
          /\ UNCHANGED <<cameraReady, mState, due, busy, full_image_file>>
        BY <1>5 DEF onProgressUpdate, onPostExecute, Receive
    <2>2. /\ Len(uiQueue) \in Nat \ {0} /\ Len(uiQueue') = Len(uiQueue) - 1
          /\ \A i \in 1..Len(uiQueue') :
                i + 1 \in 1..Len(uiQueue) /\ uiQueue'[i] = uiQueue[i + 1]
        BY <1>0, <2>1, Received
    <2>3. \A i \in 1..Len(uiQueue') : ~IsProcess(uiQueue'[i].task)
        <3> SUFFICES ASSUME NEW i \in 1..Len(uiQueue'), IsProcess(uiQueue'[i].task) PROVE FALSE
            OBVIOUS
        <3>1. i + 1 \in 1..Len(uiQueue) /\ IsProcess(uiQueue[i + 1].task)
            BY <2>2
        <3>2. Len(uiQueue) = 1
            BY <1>0, <3>1 DEF OneTask
        <3> QED
            BY <2>2, <3>2
    <2>4. queue # <<>> =>
            /\ Head(uiQueue).msg # "post" /\ worker \in {"draw", "name"}
            /\ Head(queue).kind = "Capture" => worker # "name"
            /\ Head(queue).kind = "Capture" /\ worker = "draw" => frame[1] > 0
            /\ \A i \in 1..Len(uiQueue') : uiQueue'[i].msg = "progress"
        <3> SUFFICES ASSUME queue # <<>>
                     PROVE /\ Head(uiQueue).msg # "post" /\ worker \in {"draw", "name"}
                           /\ Head(queue).kind = "Capture" => worker # "name"
                           /\ Head(queue).kind = "Capture" /\ worker = "draw" => frame[1] > 0
                           /\ \A i \in 1..Len(uiQueue') : uiQueue'[i].msg = "progress"
            OBVIOUS
        <3>1. \A i \in 1..Len(uiQueue) : uiQueue[i].msg = "progress"
            BY <1>0 DEF OneTask
        <3>2. Head(uiQueue).msg # "post"
            BY <1>3, <2>1, <3>1
        <3>3. /\ worker \in {"draw", "name"}
              /\ Head(queue).kind = "Capture" => worker # "name"
              /\ Head(queue).kind = "Capture" /\ worker = "draw" => frame[1] > 0
            BY <1>0, <2>1 DEF OneTask, TypeOK, ThreadType
        <3>4. \A i \in 1..Len(uiQueue') : uiQueue'[i].msg = "progress"
            BY <2>2, <3>1
        <3> QED
            BY <3>2, <3>3, <3>4
    <2>5. OneTask'
        BY <1>0, <1>1, <2>1, <2>3, <2>4 DEF OneTask
    <2>6. \A i \in 1..Len(exposed') : Fits(exposed[i])'
        BY <1>2, <2>1
    <2>7. queue' # <<>> /\ Head(queue').kind \in Modes /\ worker' \in {"name", "lock", "wait", "save"}
            => mBitmap' = FramePattern(Head(queue), frame)' /\ screen' = mBitmap'
        BY <1>0, <1>1, <2>1, <2>4 DEF LampInStep, FramePattern
    <2>8. LampInStep'
        BY <1>1, <2>1, <2>3, <2>4, <2>6, <2>7 DEF LampInStep
    <2>9. CameraInStep'
        BY <1>0, <1>1, <2>1 DEF CameraInStep, Asking, Waiting,
            AtRest, NoneDue, NoCallback, OneDue, Only
    <2> QED
        BY <2>5, <2>8, <2>9
<1>6. CASE onPostExecuteProcess
    <2>1. /\ ui = "idle" /\ ui' = "name" /\ uiQueue # <<>> /\ uiQueue' = uiQueue
          /\ IsProcess(Head(uiQueue).task) /\ screen' = mBitmap /\ mBitmap' = mBitmap
          /\ UNCHANGED <<cameraReady, mState, due, busy, full_image_file>>
        BY <1>6 DEF onPostExecuteProcess, IsProcess
    <2>2. queue' = <<>> /\ Len(uiQueue) = 1
        BY <1>1, <1>3, <2>1
    <2>3. OneTask'
        BY <2>1, <2>2 DEF OneTask
    <2>4. \A i \in 1..Len(uiQueue') : IsProcess(uiQueue'[i].task) => mBitmap' = Optimum(uiQueue'[i].task)
        BY <1>0, <2>1 DEF LampInStep
    <2>5. LampInStep'
        BY <1>2, <2>1, <2>2, <2>4 DEF LampInStep, Optimum
    <2>6. CameraInStep'
        BY <1>0, <1>1, <2>1, <2>2 DEF CameraInStep, Asking, Waiting,
            AtRest, NoneDue, NoCallback, OneDue, Only
    <2> QED
        BY <2>3, <2>5, <2>6
<1>7. CASE nameOptimal \/ takeOptimal
    <2>1. /\ ui # "idle" /\ ui' \in {"lock", "wait"} /\ UNCHANGED <<uiQueue, light, g_path>>
        BY <1>7 DEF nameOptimal, takeOptimal
    <2>2. queue = <<>> /\ queue' = <<>> /\ uiQueue # <<>>
        BY <1>1, <1>4, <2>1
    <2>3. OneTask'
        BY <1>4, <2>1, <2>2 DEF OneTask
    <2>4. \A i \in 1..Len(uiQueue') : IsProcess(uiQueue'[i].task) => mBitmap' = Optimum(uiQueue'[i].task)
        BY <1>0, <2>1 DEF LampInStep
    <2>5. CASE nameOptimal
        <3>1. /\ ui = "name" /\ ui' = "lock" /\ ~cameraReady' /\ mState' = mState
              /\ full_image_file' = Named(Head(uiQueue).task, g_path["DPC"], <<0, 0>>)
              /\ exposed = <<>>
            BY <2>2, <2>5 DEF nameOptimal, Outstanding
        <3>2. LampInStep'
            BY <1>1, <1>4, <2>1, <2>2, <2>4, <3>1 DEF LampInStep, Named
        <3>3. ~Waiting /\ ~Waiting'
            BY <2>2, <3>1 DEF Waiting
        <3>4. CameraInStep'
            BY <1>0, <1>1, <3>1, <3>3, CameraAtRest DEF CameraInStep, AtRest, NoneDue,
                NoCallback
        <3> QED
            BY <2>3, <3>2, <3>4
    <2>6. CASE takeOptimal
        <3>1. /\ ui = "lock" /\ ui' = "wait" /\ mState' = "lock"
              /\ UNCHANGED <<cameraReady, full_image_file>>
            BY <2>6 DEF takeOptimal
        <3>2. LampInStep'
            BY <1>0, <1>2, <1>4, <2>1, <2>2, <2>4, <3>1 DEF LampInStep, Named
        <3>3. ~Waiting /\ Asking /\ Waiting' /\ ~Asking'
            BY <2>2, <3>1 DEF Waiting, Asking
        <3>4. ~cameraReady' /\ AtRest'
            BY <1>0, <1>1, <3>1, <3>3, CameraAtRest DEF CameraInStep, AtRest, NoneDue,
                NoCallback
        <3> QED
            BY <2>3, <3>1, <3>2, <3>3, <3>4 DEF CameraInStep
    <2> QED
        BY <1>7, <2>5, <2>6
<1>8. CASE optimalReady
    <2>1. /\ ui = "wait" /\ ui' = "idle" /\ cameraReady /\ uiQueue' = Tail(uiQueue)
          /\ UNCHANGED <<mState, full_image_file>>
        BY <1>8 DEF optimalReady
    <2>2. queue' = <<>> /\ uiQueue # <<>> /\ Len(uiQueue) = 1
        BY <1>1, <1>4, <2>1
    <2>3. Len(uiQueue') = 0
        BY <1>0, <2>1, <2>2, Received
    <2>4. OneTask'
        <3>1. queue' = <<>> /\ Len(queue') <= 1
            <4>1. Len(queue') = 0
                BY <2>2
            <4> QED
                BY <2>2, <4>1
        <3>2. \A i \in 1..Len(uiQueue') : FALSE
            BY <2>3
        <3>3. ui' = "idle"
            BY <2>1
        <3> QED
            BY <3>1, <3>2, <3>3 DEF OneTask
    <2>5. LampInStep'
        <3>1. \A i \in 1..Len(uiQueue') : FALSE
            BY <2>3
        <3>2. queue' = <<>> /\ ui' = "idle"
            BY <2>1, <2>2
        <3>3. \A i \in 1..Len(exposed') : Fits(exposed[i])'
            BY <1>2, <2>1
        <3> QED
            BY <3>1, <3>2, <3>3 DEF LampInStep
    <2>6. mState' = "preview" /\ AtRest'
        BY <1>0, <1>1, <2>1, CameraAtRest DEF AtRest, NoneDue, NoCallback
    <2>7. CameraInStep'
        BY <2>1, <2>2, <2>6 DEF CameraInStep, Asking, Waiting
    <2> QED
        BY <2>4, <2>5, <2>7
<1> QED
    BY <1>5, <1>6, <1>7, <1>8 DEF UiThread

(* The camera exposes a still to the pattern its file name stands for.     *)
LEMMA CameraCareful ==
    ASSUME Prompt, CarefulInv, CameraCallback \/ onImageAvailable
    PROVE  OneTask' /\ LampInStep' /\ CameraInStep'
<1>0. TypeOK /\ AtHead /\ OneTask /\ LampInStep /\ CameraInStep
    BY DEF CarefulInv, InputsInv, TasksInv
<1>1. UNCHANGED <<settings, work, uiQueue, ui, light, full_image_file>>
    BY DEF CameraCallback, Callback, process, captureStillPicture, Completion, unlockFocus,
        setReady, onImageAvailable
<1>2. ASSUME queue # <<>> /\ worker = "start" => exposed' = <<>>,
             queue # <<>> /\ worker = "name" /\ Head(queue).kind = "Capture" => exposed' = <<>>
      PROVE  OneTask'
    BY <1>0, <1>1, <1>2 DEF OneTask
<1>3. ASSUME \A i \in 1..Len(exposed') : Fits(exposed[i])'
      PROVE  LampInStep'
    BY <1>0, <1>1, <1>3 DEF LampInStep, Named, FramePattern, Optimum
<1>4. Asking' = Asking /\ Waiting' = Waiting /\ \A x : Fits(x)' <=> Fits(x)
    BY <1>1 DEF Asking, Waiting, Fits
<1>5. ~(Asking /\ Waiting)
    BY <1>0 DEF Asking, Waiting, OneTask
<1>6. \A l \in Looper : busy[l] = "unlocked" => due[l] > 0
    BY <1>0 DEF TypeOK, CameraType
<1>t. due \in [Looper -> Nat] /\ busy \in [Looper -> {"idle", "decided", "unlocked"}]
    BY <1>0 DEF TypeOK, CameraType
<1>p. ASSUME NEW l \in Looper, process(l)
      PROVE  OneTask' /\ LampInStep' /\ CameraInStep'
    <2>1. /\ mState = "lock" /\ busy[l] = "idle" /\ busy' = [busy EXCEPT ![l] = "decided"]
          /\ \A k \in Looper : busy[k] # "decided"
          /\ UNCHANGED <<cameraReady, mState, due, exposed>>
        BY <1>p DEF process
    <2>2. Waiting /\ ~cameraReady /\ AtRest
        BY <1>0, <2>1 DEF CameraInStep, Only
    <2>3. NoneDue' /\ Only(l, "decided")'
        BY <1>t, <2>1, <2>2 DEF AtRest, NoneDue, NoCallback, Only
    <2>4. CameraInStep'
        BY <1>4, <1>5, <2>1, <2>2, <2>3 DEF CameraInStep
    <2>5. \A i \in 1..Len(exposed') : Fits(exposed[i])'
        BY <1>0, <1>1, <2>1 DEF LampInStep, Fits
    <2>6. OneTask'
        BY <1>0, <1>2, <2>1 DEF OneTask
    <2> QED
        BY <1>3, <2>4, <2>5, <2>6
<1>7. ASSUME NEW l \in Looper, captureStillPicture(l)
      PROVE  OneTask' /\ LampInStep' /\ CameraInStep'
    <2>1. /\ busy[l] = "decided" /\ busy' = [busy EXCEPT ![l] = "idle"]
          /\ mState' = "taken" /\ due' = [due EXCEPT ![l] = @ + 1] /\ cameraReady' = cameraReady
          /\ exposed' = Append(exposed, screen)
        BY <1>7 DEF captureStillPicture
    <2>2. Waiting /\ ~cameraReady /\ NoneDue /\ Only(l, "decided")
        <3>1. \A k \in Looper : Only(k, "unlocked") => FALSE
            BY <2>1 DEF Only
        <3>2. \A k \in Looper : Only(k, "decided") => k = l
            BY <2>1 DEF Only
        <3>3. ~NoCallback
            BY <2>1 DEF NoCallback
        <3> QED
            BY <1>0, <3>1, <3>2, <3>3 DEF CameraInStep, AtRest
    <2>3. CameraInStep'
        <3>1. OneDue(l)' /\ NoCallback'
            BY <1>t, <2>1, <2>2 DEF OneDue, NoCallback, NoneDue, Only
        <3> QED
            BY <1>4, <1>5, <2>1, <2>2, <3>1 DEF CameraInStep
    <2>4. (queue # <<>> /\ worker = "wait") \/ (ui = "wait" /\ queue = <<>>)
        BY <1>0, <2>2 DEF Waiting, OneTask
    <2>5. OneTask'
        BY <1>2, <2>4
    <2>6. Fits(screen)
        <3>1. CASE queue # <<>> /\ worker = "wait"
            <4>1. uiQueue = <<>> /\ Head(queue).kind # "Process"
                BY <1>0, <3>1 DEF OneTask, AtHead, IsProcess
            <4>2. full_image_file = Named(Head(queue), Head(queue).dir, frame)
                BY <1>0, <3>1 DEF LampInStep
            <4>3. full_image_file.by = Head(queue) /\ full_image_file.file.frame = frame
                BY <4>2 DEF Named
            <4>4. Head(queue).kind \in Modes => screen = FramePattern(Head(queue), frame)
                BY <1>0, <3>1, <4>1 DEF LampInStep
            <4> QED
                BY <4>1, <4>3, <4>4, FitsMeans
        <3>2. CASE ui = "wait" /\ queue = <<>>
            <4>1. IsProcess(Head(uiQueue).task) /\ screen = mBitmap
                  /\ full_image_file = Named(Head(uiQueue).task, g_path["DPC"], <<0, 0>>)
                BY <1>0, <3>2 DEF OneTask, LampInStep
            <4>2. 1 \in 1..Len(uiQueue) /\ Head(uiQueue) = uiQueue[1]
                BY <1>0, <3>2, TailFacts DEF TypeOK, ThreadType
            <4>3. mBitmap = Optimum(Head(uiQueue).task)
                BY <1>0, <4>1, <4>2 DEF LampInStep
            <4>4. full_image_file.by = Head(uiQueue).task
                BY <4>1 DEF Named
            <4> QED
                BY <4>1, <4>3, <4>4, FitsMeans DEF IsProcess
        <3> QED
            BY <2>4, <3>1, <3>2
    <2>7. \A i \in 1..Len(exposed') : Fits(exposed'[i])
        <3>1. exposed \in Seq(Pattern) /\ screen \in Pattern
            BY <1>0 DEF TypeOK, CameraType
        <3>2. /\ Len(exposed) \in Nat /\ Len(exposed') = Len(exposed) + 1
              /\ \A i \in 1..Len(exposed) : exposed'[i] = exposed[i]
              /\ exposed'[Len(exposed) + 1] = screen
            BY <2>1, <3>1, AppendFacts
        <3>3. \A i \in 1..Len(exposed') : i \in 1..Len(exposed) \/ i = Len(exposed) + 1
            BY <3>2
        <3>4. \A i \in 1..Len(exposed) : Fits(exposed[i])
            BY <1>0 DEF LampInStep
        <3> QED
            BY <2>6, <3>2, <3>3, <3>4
    <2>8. \A i \in 1..Len(exposed') : Fits(exposed[i])'
        BY <1>1, <2>7 DEF Fits
    <2> QED
        BY <1>3, <2>3, <2>5, <2>8
<1>8. ASSUME NEW l \in Looper, Completion(l)
      PROVE  OneTask' /\ LampInStep' /\ CameraInStep'
    <2>1. exposed' = exposed
        BY <1>8 DEF Completion, unlockFocus, setReady
    <2>2. \A i \in 1..Len(exposed') : Fits(exposed[i])'
        BY <1>0, <1>1, <2>1 DEF LampInStep, Fits
    <2>3. OneTask'
        BY <1>0, <1>2, <2>1 DEF OneTask
    <2>d. ASSUME due[l] > 0
          PROVE  /\ Waiting /\ ~cameraReady /\ OneDue(l)
                 /\ \/ mState = "taken" /\ NoCallback
                    \/ mState = "preview" /\ Only(l, "unlocked")
        <3>1. ~NoneDue /\ \A k \in Looper : OneDue(k) => k = l
            BY <1>t, <2>d DEF NoneDue, OneDue
        <3> QED
            BY <1>0, <3>1 DEF CameraInStep, AtRest
    <2>4. CASE unlockFocus(l)
        <3>1. /\ due[l] > 0 /\ busy[l] = "idle" /\ mState' = "preview"
              /\ busy' = [busy EXCEPT ![l] = "unlocked"] /\ UNCHANGED <<cameraReady, due>>
            BY <2>4 DEF unlockFocus
        <3>2. Waiting /\ ~cameraReady /\ OneDue(l) /\ NoCallback
            BY <2>d, <3>1 DEF Only
        <3>3. OneDue(l)' /\ Only(l, "unlocked")'
            BY <1>t, <3>1, <3>2 DEF OneDue, NoCallback, Only
        <3>4. CameraInStep'
            BY <1>4, <1>5, <3>1, <3>2, <3>3 DEF CameraInStep
        <3> QED
            BY <1>3, <2>2, <2>3, <3>4
    <2>5. CASE setReady(l)
        <3>1. /\ busy[l] = "unlocked" /\ cameraReady' /\ due' = [due EXCEPT ![l] = @ - 1]
              /\ busy' = [busy EXCEPT ![l] = "idle"] /\ mState' = mState
            BY <2>5 DEF setReady
        <3>2. Waiting /\ OneDue(l) /\ mState = "preview" /\ Only(l, "unlocked")
            BY <1>6, <2>d, <3>1 DEF NoCallback
        <3>3. AtRest'
            BY <1>t, <3>1, <3>2 DEF AtRest, NoneDue, NoCallback, OneDue, Only
        <3>4. CameraInStep'
            BY <1>4, <1>5, <3>1, <3>2, <3>3 DEF CameraInStep
        <3> QED
            BY <1>3, <2>2, <2>3, <3>4
    <2> QED
        BY <1>8, <2>4, <2>5 DEF Completion
<1>9. CASE onImageAvailable
    <2>1. exposed # <<>> /\ exposed' = Tail(exposed) /\ UNCHANGED <<cameraReady, mState, due, busy>>
        BY <1>9 DEF onImageAvailable
    <2>2. OneTask'
        BY <1>0, <1>2, <2>1 DEF OneTask
    <2>3. \A i \in 1..Len(exposed') : i + 1 \in 1..Len(exposed) /\ exposed'[i] = exposed[i + 1]
        BY <1>0, <2>1, TailFacts DEF TypeOK, CameraType
    <2>4. \A i \in 1..Len(exposed') : Fits(exposed'[i])
        BY <1>0, <2>3 DEF LampInStep
    <2>5. \A i \in 1..Len(exposed') : Fits(exposed[i])'
        BY <1>1, <2>4 DEF Fits
    <2>6. CameraInStep'
        BY <1>0, <1>4, <2>1 DEF CameraInStep, AtRest, NoneDue, NoCallback, OneDue, Only
    <2> QED
        BY <1>3, <2>2, <2>5, <2>6
<1> QED
    BY <1>p, <1>7, <1>8, <1>9 DEF CameraCallback, Callback

(* A picture is saved under a name it fits.                                *)
LEMMA NextLit == CarefulInv /\ Next => LitByOwnPattern'
<1> SUFFICES ASSUME CarefulInv, Next PROVE LitByOwnPattern'
    OBVIOUS
<1>0. TypeOK /\ LampInStep /\ LitByOwnPattern
    BY DEF CarefulInv, InputsInv, TasksInv
<1>1. CASE onImageAvailable
    <2>1. PICK o, x : o = full_image_file /\ x = Head(exposed)
        OBVIOUS
    <2>2. /\ exposed # <<>>
          /\ pictures' = Put(pictures, o.file, [by |-> o.by, light |-> x])
        BY <1>1, <2>1 DEF onImageAvailable
    <2>3. 1 \in 1..Len(exposed) /\ x = exposed[1]
        BY <1>0, <2>1, <2>2, TailFacts DEF TypeOK, CameraType
    <2>4. Fits(x)
        BY <1>0, <2>3 DEF LampInStep
    <2>5. /\ o.by.kind \in Modes => x = FramePattern(o.by, o.file.frame)
          /\ o.by.kind = "Process" => x = Optimum(o.by)
        BY <2>1, <2>4, FitsMeans
    <2>6. /\ DOMAIN pictures' = DOMAIN pictures \cup {o.file}
          /\ pictures'[o.file].by = o.by /\ pictures'[o.file].light = x
          /\ \A p \in DOMAIN pictures : p # o.file => pictures'[p] = pictures[p]
        BY <2>2 DEF Put
    <2>7. ASSUME NEW p \in DOMAIN pictures', p # o.file
          PROVE  LET t == pictures'[p].by IN
                 CASE t.kind \in Modes    -> pictures'[p].light = FramePattern(t, p.frame)
                   [] t.kind = "Process" -> pictures'[p].light = Optimum(t)
                   [] OTHER              -> TRUE
        BY <1>0, <2>6, <2>7 DEF LitByOwnPattern
    <2>8. ASSUME NEW p, p = o.file
          PROVE  LET t == pictures'[p].by IN
                 CASE t.kind \in Modes    -> pictures'[p].light = FramePattern(t, p.frame)
                   [] t.kind = "Process" -> pictures'[p].light = Optimum(t)
                   [] OTHER              -> TRUE
        <3>1. pictures'[p].by = o.by /\ pictures'[p].light = x /\ p.frame = o.file.frame
            BY <2>6, <2>8
        <3>2. "Process" \notin Modes
            BY TasksAssumption
        <3> QED
            BY <2>5, <3>1, <3>2
    <2> QED
        BY <2>7, <2>8 DEF LitByOwnPattern, FramePattern, Optimum
<1>2. CASE ~onImageAvailable
    <2>1. pictures' = pictures
        BY <1>2 DEF Next, User, btnAcquire, btnAcquireBG, btnCapture, btnProcess, slideTo,
            setAcqMethod, setMmCount, slideToExposuretime, Worker, doInBackground, drawFrame,
            nameFrame,
            takePicture, frameReady, saveSource, taskDone, readInputs, optimise, UiThread,
            onProgressUpdate, onPostExecute, onPostExecuteProcess, nameOptimal, takeOptimal,
            optimalReady, CameraCallback, Callback, process, captureStillPicture, Completion,
            unlockFocus, setReady
    <2> QED
        BY <1>0, <2>1 DEF LitByOwnPattern, FramePattern, Optimum
<1> QED
    BY <1>1, <1>2

(* The source saved for a frame is the frame's pattern.                    *)
LEMMA NextSource == CarefulInv /\ Next => SourceTrue'
<1> SUFFICES ASSUME CarefulInv, Next PROVE SourceTrue'
    OBVIOUS
<1>0. TypeOK /\ LampInStep /\ SourceTrue
    BY DEF CarefulInv, InputsInv, TasksInv
<1>1. CASE saveSource
    <2>1. PICK ss : ss = SourceFiles(Head(queue), frame)
        OBVIOUS
    <2>2. queue # <<>> /\ worker = "save" /\ sources' = WithSources(ss)
        BY <1>1, <2>1 DEF saveSource, Running, At
    <2>3. Head(queue).kind \in Modes => mBitmap = FramePattern(Head(queue), frame)
        BY <1>0, <2>2 DEF LampInStep
    <2>4. PICK h : h = Head(queue)
        OBVIOUS
    <2>5. /\ DOMAIN sources' = DOMAIN sources \cup ss
          /\ \A s \in ss : sources'[s].by = h /\ sources'[s].light = mBitmap
          /\ \A s \in DOMAIN sources \ ss : sources'[s] = sources[s]
        BY <2>2, <2>4 DEF WithSources
    <2>6. ASSUME NEW s \in ss, h.kind \in Modes PROVE FramePattern(h, s.frame) = FramePattern(h, frame)
        <3>1. h.kind # "Capture"
            BY <2>6, TasksAssumption
        <3>2. CASE h.kind = "DF"
            BY <3>2 DEF FramePattern
        <3>3. CASE h.kind \in {"BF", "MM"}
            <4>1. s.frame = frame
                BY <2>1, <2>4, <2>6, <3>3 DEF SourceFiles
            <4> QED
                BY <4>1
        <3>4. CASE h.kind \notin {"DF", "BF", "MM", "Capture"}
            <4>1. ss = {}
                BY <2>1, <2>4, <3>4 DEF SourceFiles
            <4> QED
                BY <2>6, <4>1
        <3> QED
            BY <3>1, <3>2, <3>3, <3>4
    <2>7. ASSUME NEW s \in DOMAIN sources', sources'[s].by.kind \in Modes
          PROVE  sources'[s].light = FramePattern(sources'[s].by, s.frame)
        <3>1. CASE s \in ss
            BY <2>3, <2>4, <2>5, <2>6, <2>7, <3>1
        <3>2. CASE s \notin ss
            BY <1>0, <2>5, <2>7, <3>2 DEF SourceTrue
        <3> QED
            BY <3>1, <3>2
    <2> QED
        BY <2>7 DEF SourceTrue, FramePattern
<1>2. CASE ~saveSource
    <2>1. sources' = sources
        BY <1>2 DEF Next, User, btnAcquire, btnAcquireBG, btnCapture, btnProcess, slideTo,
            setAcqMethod, setMmCount, slideToExposuretime, Worker, doInBackground, drawFrame,
            nameFrame,
            takePicture, frameReady, taskDone, readInputs, optimise, UiThread,
            onProgressUpdate, onPostExecute, onPostExecuteProcess, nameOptimal, takeOptimal,
            optimalReady, CameraCallback, Callback, process, captureStillPicture, Completion,
            unlockFocus, setReady,
            onImageAvailable
    <2> QED
        BY <1>0, <2>1 DEF SourceTrue, FramePattern
<1> QED
    BY <1>1, <1>2

(* A name changes only when no image is on its way, so that the set of the *)
(* last DPC acquisition is not torn.                                       *)
LEMMA NextSetFiled == ASSUME SleepSuffices PROVE CarefulInv /\ Next => SetFiled'
<1> SUFFICES ASSUME CarefulInv, Next, g_path'["DPC"].stamp > 0, ~Acquiring'
             PROVE  \A i \in 0..Rotations : Coming(DpcFile(g_path["DPC"], i))'
    BY DEF SetFiled
<1>0. TypeOK /\ TasksInv /\ AtHead /\ FramesFiled /\ OneTask /\ SetFiled
    BY DEF CarefulInv, InputsInv, TasksInv
<1>1. g_path'["DPC"] = g_path["DPC"]
    BY <1>0, PathStep
<1>2. PICK d : d = g_path["DPC"]
    OBVIOUS
<1>3. \A i \in 0..Rotations : Coming(DpcFile(d, i))
    BY <1>0, <1>1, <1>2, AcquisitionDone DEF SetFiled
<1>4. CASE ~nameFrame /\ ~nameOptimal
    <2>1. \A f : Coming(f) => Coming(f)'
        BY <1>0, <1>4, StoreStep
    <2>2. \A i \in 0..Rotations : Coming(DpcFile(d, i))'
        BY <1>3, <2>1
    <2> QED
        BY <1>1, <1>2, <2>2 DEF Coming, DpcFile
<1>5. CASE nameFrame \/ nameOptimal
    <2>1. exposed = <<>> /\ pictures' = pictures
        <3>1. CASE nameFrame
            <4>1. queue # <<>> /\ worker = "name" /\ pictures' = pictures
                BY <3>1 DEF nameFrame, Running, At
            <4>2. ui = "idle"
                BY <1>0, <4>1 DEF OneTask
            <4> QED
                BY <1>0, <3>1, <4>1, <4>2 DEF nameFrame, Outstanding, OneTask
        <3>2. CASE nameOptimal
            <4>1. ui = "name" /\ pictures' = pictures
                BY <3>2 DEF nameOptimal
            <4>2. queue = <<>>
                BY <1>0, <4>1 DEF OneTask
            <4> QED
                BY <3>2, <4>1, <4>2 DEF nameOptimal, Outstanding
        <3> QED
            BY <1>5, <3>1, <3>2
    <2>2. \A i \in 0..Rotations : DpcFile(d, i) \in DOMAIN pictures'
        BY <1>3, <2>1 DEF Coming
    <2> QED
        BY <1>1, <1>2, <2>2 DEF Coming, DpcFile
<1> QED
    BY <1>4, <1>5

(* CarefulInv is inductive.                                                *)
LEMMA NextCareful ==
    ASSUME Careful, SleepSuffices, Prompt
    PROVE  CarefulInv /\ InputsInv' /\ [Next]_vars => CarefulInv'
<1> SUFFICES ASSUME CarefulInv, InputsInv', [Next]_vars PROVE CarefulInv'
    OBVIOUS
<1>1. CASE UNCHANGED vars
    <2>1. OneTask' /\ LampInStep' /\ CameraInStep'
        BY <1>1 DEF CarefulInv, OneTask, LampInStep, Fits, CameraInStep, Asking, Waiting,
            AtRest, NoneDue, NoCallback, OneDue, Only, FramePattern, Named, Optimum
    <2>2. LitByOwnPattern' /\ SourceTrue' /\ SetFiled'
        BY <1>1 DEF CarefulInv, LitByOwnPattern, SourceTrue, SetFiled, Acquiring, Coming,
            DpcFile, FramePattern, Optimum
    <2> QED
        BY <2>1, <2>2 DEF CarefulInv
<1>2. CASE Next
    <2>1. OneTask' /\ LampInStep' /\ CameraInStep'
        BY <1>2, UserCareful, WorkerCareful, UiCareful, CameraCareful DEF Next
    <2> QED
        BY <1>2, <2>1, NextLit, NextSource, NextSetFiled DEF CarefulInv
<1> QED
    BY <1>1, <1>2

(* CarefulInv holds initially.                                             *)
LEMMA InitCareful == Init => CarefulInv
<1> SUFFICES ASSUME Init PROVE CarefulInv
    OBVIOUS
<1>1. /\ queue = <<>> /\ uiQueue = <<>> /\ ui = "idle" /\ exposed = <<>> /\ AtRest
      /\ mState = "preview" /\ cameraReady /\ pictures = <<>> /\ sources = <<>>
    BY DEF Init, AtRest, NoneDue, NoCallback
<1>2. g_path["DPC"].stamp = 0
    BY DEF Init, DirOf, Folder
<1>3. Len(queue) = 0 /\ DOMAIN pictures = {} /\ DOMAIN sources = {}
    BY <1>1
<1>4. OneTask /\ LampInStep
    BY <1>1, <1>3 DEF OneTask, LampInStep
<1>5. CameraInStep
    BY <1>1 DEF CameraInStep, Asking, Waiting
<1>6. LitByOwnPattern /\ SourceTrue
    BY <1>3 DEF LitByOwnPattern, SourceTrue
<1>7. SetFiled
    BY <1>2 DEF SetFiled
<1> QED
    BY <1>4, <1>5, <1>6, <1>7, InitInputs DEF CarefulInv

(* CarefulInv is an invariant of a patient user's runs.                    *)
LEMMA CarefulInvariant == ASSUME Careful, SleepSuffices, Prompt PROVE Spec => []CarefulInv
<1>1. InputsInv /\ TasksInv' /\ [Next]_vars => InputsInv'
    BY NextInputs
<1>2. CarefulInv /\ InputsInv' /\ [Next]_vars => CarefulInv'
    BY NextCareful
<1> QED
    BY <1>1, <1>2, InitInputs, InitCareful, TasksInvariant, PTL DEF Spec

(* If the user waits until all is quiet and the sleep before a picture     *)
(* suffices, every picture is lit by the pattern its file name stands for. *)
THEOREM PicturesLit == ASSUME Careful, SleepSuffices, Prompt PROVE Spec => []LitByOwnPattern
<1>1. CarefulInv => LitByOwnPattern
    BY DEF CarefulInv
<1> QED
    BY <1>1, CarefulInvariant, PTL

(* Under the same conditions the light source saved for a frame is the one *)
(* that lit the picture of the frame.                                      *)
THEOREM SourcesTrue == ASSUME Careful, SleepSuffices, Prompt PROVE Spec => []SourceSavedWithFrame
<1>1. CarefulInv => SourceSavedWithFrame
    <2> SUFFICES ASSUME CarefulInv,
                        NEW s \in DOMAIN sources, sources[s].by.kind \in Modes,
                        NEW p \in DOMAIN pictures,
                        pictures[p].by = sources[s].by, p.frame = s.frame
                 PROVE  pictures[p].light = sources[s].light
        BY DEF SourceSavedWithFrame
    <2>1. sources[s].light = FramePattern(sources[s].by, s.frame)
        BY DEF CarefulInv, SourceTrue
    <2>2. pictures[p].light = FramePattern(pictures[p].by, p.frame)
        <3>1. pictures[p].by.kind \in Modes /\ LitByOwnPattern
            BY DEF CarefulInv
        <3>2. "Process" \notin Modes
            BY TasksAssumption
        <3> QED
            BY <3>1, <3>2 DEF LitByOwnPattern
    <2> QED
        BY <2>1, <2>2
<1> QED
    BY <1>1, CarefulInvariant, PTL

(* Under the same conditions the last DPC acquisition of the object is     *)
(* complete, rotations and comparison, when all is quiet.                  *)
THEOREM DpcSetsComplete == ASSUME Careful, SleepSuffices, Prompt PROVE Spec => []DpcSetComplete
<1>1. CarefulInv => DpcSetComplete
    <2> SUFFICES ASSUME CarefulInv, Quiet, g_path["DPC"].stamp > 0, NEW i \in 0..Rotations
                 PROVE  [dir |-> g_path["DPC"], kind |-> "DPC", frame |-> <<i, 0>>]
                            \in DOMAIN pictures
        BY DEF DpcSetComplete
    <2>1. queue = <<>> /\ exposed = <<>>
        BY DEF Quiet, Outstanding
    <2>2. ~Acquiring
        BY <2>1 DEF Acquiring
    <2>3. Coming(DpcFile(g_path["DPC"], i))
        BY <2>2 DEF CarefulInv, SetFiled
    <2> QED
        BY <2>1, <2>3 DEF Coming, DpcFile
<1> QED
    BY <1>1, CarefulInvariant, PTL

=============================================================================
