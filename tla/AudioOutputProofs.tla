---------------------------- MODULE AudioOutputProofs ----------------------------
(* For every capacity, preroll, number of generations and of frames: what is   *)
(* heard is what was submitted, and silence is kept.  AudioInv is the inductive *)
(* invariant; its parts say who may have a command under way, when an epoch may *)
(* be opened, and what the slots of the ring hold at each point of submit().    *)
EXTENDS AudioOutput, TLAPS

Types ==
  SessionTypes /\ ProducerTypes /\ sink \in Sinks /\ CommandTypes /\ queue \in Queues
    /\ DeviceTypes

(* The lock's owner has one command under way, and no one else has any.  `at`  *)
(* is what the owner asked for, or what the control thread makes of it.        *)
Asked(at) ==
  \/ at = "reset" /\ producer = "reset"
  \/ at \in {"start", "pause"} /\ (producer = "start" \/ gui = "playWait")
  \/ at = "finish" /\ producer = "finishing"
  \/ at = "cancel" /\ gui = "replaceWait"
Served(at) ==
  \/ Asked(at)
  \/ at \in {"epoch", "destroy"} /\ gui = "replaceWait"
  \/ /\ at \in {"start", "started", "failing"}
     /\ producer \in {"start", "finishing"} \/ gui = "playWait"

Awaited == lock # "none" /\ ~answered
Ownership ==
  /\ lock = "producer" <=> producer \in {"reset", "start", "finishing"}
  /\ lock = "gui" <=> gui \in {"replaceWait", "playWait"}
  /\ answered => lock # "none"

Queued ==
  /\ \A i \in 1..Len(commands) :
       IF commands[i].waits
       THEN /\ Awaited /\ Asked(commands[i].at)
            /\ commands[i].at = "reset" => commands[i].generation = generation
       ELSE commands[i].at = "check" /\ startCheckPending
  /\ \A i, j \in 1..Len(commands) : commands[i].waits = commands[j].waits => i = j

InHand ==
  /\ control.waits =>
       /\ Awaited /\ Served(control.at)
       /\ control.at = "reset" => control.generation = generation
       /\ \A i \in 1..Len(commands) : ~commands[i].waits
  /\ ~control.waits => control.at \in {"idle", "check", "start", "started", "failing"}
  /\ control.at = "check" =>
       startCheckPending /\ \A i \in 1..Len(commands) : commands[i].waits

(* An operation opens its output once, and not after it was stopped.           *)
Session ==
  /\ output \in {0, generation}
  /\ requested => generation < MaxGeneration
  /\ producer # "idle" => generation # 0
  /\ producer \in {"lock", "reset"} => output = 0
  /\ gui \in {"replaceLock", "replaceWait", "submit"} => stop /\ ~requested
  /\ requested \/ gui \in {"replaceWait", "submit"} =>
       stop /\ output = 0 /\ producer \notin {"reset", "start", "finishing"}

Opened == producer = "reset" /\ answered
Epoch ==
  /\ producer \notin {"idle", "lock", "reset"} \/ Opened => queue.generation = generation
  /\ producer = "start" \/ Opened => queue.produced = 0
  /\ Opened => ~sink.wanted

Sounding == stream \in {"running", "draining"}
Silent == ~queue.open /\ stream = "none" /\ ~sink.ready
PausePending ==
  control.at = "pause" \/ \E i \in 1..Len(commands) : commands[i].at = "pause"

Silence ==
  /\ output = 0 => Silent \/ producer = "reset" \/ (gui = "replaceWait" /\ ~answered)
  /\ control.at \in {"epoch", "destroy"} => ~queue.open /\ ~sink.ready
  /\ Sounding => sink.started
  /\ Sounding /\ ~sink.wanted => control.at \in {"epoch", "destroy"} \/ PausePending
  /\ output # 0 /\ gui # "playLock" => sink.wanted = intent
  /\ provoked => stream = "stopped" /\ sink.ignoreDrain

(* Frames first..last of generation g are in their slots.                      *)
Holds(g, first, last) == \A f \in first..last : queue.ring[f % Capacity] = <<g, f>>

Ring ==
  /\ queue.read <= queue.write /\ queue.write - queue.read <= Capacity
  /\ Holds(queue.generation, queue.read, queue.write - 1)
  /\ callback.at = "consume" =>
       callback.read = queue.read /\ callback.media <= queue.write - queue.read

Submission ==
  /\ queue.write = queue.produced + (IF producer = "account" THEN block ELSE 0)
  /\ producer \in InSubmit => block # 0
  /\ producer \in InSubmit \ {"recheck", "startCheck"} =>
       queue.produced + block <= MaxFrames + Capacity
  /\ producer \in {"room", "unlocked", "waiting", "copy", "commit"} => seen = queue.write
  /\ producer \in {"copy", "commit"} => seen + block - queue.read <= Capacity
  /\ producer = "commit" => Holds(generation, seen, seen + block - 1)

AudioInv ==
  Types /\ Ownership /\ Queued /\ InHand /\ Session /\ Epoch /\ Silence /\ Ring /\ Submission
-------------------------------------------------------------------------------
(* The commands. *)

(* The command queue when a command is appended, ... *)
LEMMA SendAdds ==
  ASSUME CommandTypes, NEW c \in Commands, commands' = Append(commands, c)
  PROVE  /\ commands' \in Seq(Commands)
         /\ Len(commands') = Len(commands) + 1 /\ Len(commands) \in Nat
         /\ \A i \in 1..Len(commands) : commands'[i] = commands[i]
         /\ commands'[Len(commands) + 1] = c
  BY DEF CommandTypes

(* ... and when its first one is taken. *)
LEMMA TakeRemoves ==
  ASSUME CommandTypes, commands # <<>>, commands' = Tail(commands)
  PROVE  /\ commands' \in Seq(Commands)
         /\ Head(commands) \in Commands /\ Head(commands) = commands[1]
         /\ Len(commands) \in Nat \ {0} /\ Len(commands') = Len(commands) - 1
         /\ \A i \in 1..Len(commands') : commands'[i] = commands[i + 1]
  BY DEF CommandTypes

(* An owner of the lock sends its command (Send) when nothing is awaited. *)
LEMMA SendQueues ==
  ASSUME CommandTypes, Queued, InHand, ~Awaited, NEW c \in Commands, c.waits,
         commands' = Append(commands, c), Awaited', Asked(c.at)',
         c.at = "reset" => c.generation = generation',
         UNCHANGED <<startCheckPending, control>>
  PROVE  Queued' /\ InHand'
  <1>1. /\ Len(commands') = Len(commands) + 1 /\ Len(commands) \in Nat
        /\ \A i \in 1..Len(commands) : commands'[i] = commands[i]
        /\ commands'[Len(commands) + 1] = c
    BY SendAdds
  <1>2. \A i \in 1..Len(commands) :
          ~commands[i].waits /\ commands[i].at = "check" /\ startCheckPending
    BY DEF Queued
  <1>3. Queued'
    BY <1>1, <1>2 DEF Queued
  <1>4. ~control.waits /\ (control.at = "check" => Len(commands) = 0)
    BY <1>1, <1>2 DEF InHand
  <1>5. InHand'
    BY <1>1, <1>4 DEF InHand
  <1> QED
    BY <1>3, <1>5

(* The same for the types, and for a pause that waits. *)
LEMMA SendTypes ==
  ASSUME CommandTypes, NEW c \in Commands, commands' = Append(commands, c),
         UNCHANGED <<startCheckPending, control>>
  PROVE  CommandTypes' /\ (PausePending \/ c.at = "pause" => PausePending')
  <1>1. /\ commands' \in Seq(Commands)
        /\ Len(commands') = Len(commands) + 1 /\ Len(commands) \in Nat
        /\ \A i \in 1..Len(commands) : commands'[i] = commands[i]
        /\ commands'[Len(commands) + 1] = c
    BY SendAdds
  <1>2. CommandTypes'
    BY <1>1 DEF CommandTypes
  <1>3. c.at = "pause" => PausePending'
    BY <1>1 DEF PausePending
  <1>4. PausePending => PausePending'
    BY <1>1 DEF PausePending
  <1> QED
    BY <1>2, <1>3, <1>4

-------------------------------------------------------------------------------
(* The slots of the ring: CopySamples computes for each slot its offset from    *)
(* the slot of the first frame it copies.                                      *)
LEMMA Distributes ==
  ASSUME NEW a \in Int, NEW b \in Int, NEW c \in Int
  PROVE  c * a + c * b = c * (a + b)
  BY SMTT(30)

(* What % and \div are. *)
LEMMA Remainder ==
  ASSUME NEW f \in Int, NEW c \in Nat \ {0}
  PROVE  /\ f % c \in 0..(c - 1)
         /\ f \div c \in Int
         /\ f % c = f - c * (f \div c)
  <1>1. f % c = f - c * (f \div c)
    BY SMTT(30)
  <1> QED
    BY <1>1

(* The offset differs from the frame's distance by a multiple of the capacity, ... *)
LEMMA SlotOffset ==
  ASSUME NEW f \in Int, NEW s \in Int, NEW c \in Nat \ {0}, NEW slot \in Int, slot = f % c
  PROVE  \E m \in Int : (slot - s) % c = f - s - c * m
  <1>1. PICK a \in Int : slot = f - c * a
    BY Remainder
  <1>2. slot \in 0..(c - 1)
    BY Remainder
  <1>3. PICK d \in Int : d = slot - s
    <2>1. slot - s \in Int
      OBVIOUS
    <2> QED
      BY <2>1, Zenon
  <1>4. PICK b \in Int : d % c = d - c * b
    BY Remainder
  <1>5. PICK o \in 0..(c - 1) : o = d % c
    BY Remainder
  <1>6. PICK m \in Int : m = a + b
    OBVIOUS
  <1>7. o = f - s - c * m
    <2>1. c * a + c * b = c * m
      BY <1>6, Distributes
    <2>2. PICK x \in Int, y \in Int, z \in Int : x = c * a /\ y = c * b /\ z = c * m
      OBVIOUS
    <2> QED
      BY <1>1, <1>2, <1>3, <1>4, <1>5, <2>1, <2>2
  <1>8. o = (slot - s) % c
    BY <1>3, <1>5
  <1> QED
    BY <1>7, <1>8

(* ... which is none for a frame not before the first one copied ... *)
LEMMA OffsetOfLater ==
  ASSUME NEW f \in Int, NEW s \in Int, NEW c \in Nat \ {0}, NEW slot \in Int, slot = f % c
  PROVE  f \in s..(s + c - 1) => (slot - s) % c = f - s
  <1>0. PICK m \in Int : (slot - s) % c = f - s - c * m
    BY SlotOffset, ZenonT(60)
  <1> HAVE f \in s..(s + c - 1)
  <1>1. PICK o \in 0..(c - 1) : o = (slot - s) % c
    <2>1. slot - s \in Int
      OBVIOUS
    <2> QED
      BY <2>1
  <1>2. \A x \in 0..(c - 1) : o = x - c * m => o = x
    BY SMTT(30)
  <1>3. o = f - s
    BY <1>0, <1>1, <1>2
  <1> QED
    BY <1>1, <1>3

(* ... and one for a frame before it. *)
LEMMA OffsetOfEarlier ==
  ASSUME NEW f \in Int, NEW s \in Int, NEW c \in Nat \ {0}, NEW slot \in Int, slot = f % c
  PROVE  f \in (s - c)..(s - 1) => (slot - s) % c = f - s + c
  <1>0. PICK m \in Int : (slot - s) % c = f - s - c * m
    BY SlotOffset, ZenonT(60)
  <1> HAVE f \in (s - c)..(s - 1)
  <1>1. PICK o \in 0..(c - 1) : o = (slot - s) % c
    <2>1. slot - s \in Int
      OBVIOUS
    <2> QED
      BY <2>1
  <1>2. PICK n \in Int : n = m + 1
    OBVIOUS
  <1>3. c * m + c * 1 = c * n
    BY <1>2, Distributes
  <1>4. o = (f - s + c) - c * n
    BY <1>0, <1>1, <1>3
  <1>5. \A x \in 0..(c - 1) : o = x - c * n => o = x
    BY SMTT(30)
  <1>6. o = f - s + c
    BY <1>4, <1>5
  <1> QED
    BY <1>1, <1>6

(* Frames that are in the ring keep their slots when frames that fit beside     *)
(* them are copied, and those take the slots they need.                        *)
LEMMA CopyHolds ==
  ASSUME AudioInv, CopySamples
  PROVE  /\ \A f \in queue.read..(queue.write - 1) :
              queue'.ring[f % Capacity] = queue.ring[f % Capacity]
         /\ \A f \in seen..(seen + block - 1) :
              queue'.ring[f % Capacity] = <<generation, f>>
         /\ queue' \in Queues
  <1>1. /\ seen \in Nat /\ block \in Nat /\ queue.read \in Nat /\ queue.write = seen
        /\ block <= Capacity /\ seen + block - queue.read <= Capacity
        /\ queue.produced + block <= MaxFrames + Capacity /\ queue.write = queue.produced
        /\ Capacity \in Nat \ {0} /\ generation \in Generations /\ MaxFrames \in Nat
    BY AudioBounds DEF AudioInv, Types, ProducerTypes, Queues, Frames, MaxSubmit, Submission,
                       CopySamples, InSubmit
  <1>2. /\ queue' = [queue EXCEPT !.ring = queue'.ring]
        /\ queue'.ring = [i \in Slots |->
             IF (i - seen) % Capacity < block
             THEN <<generation, seen + ((i - seen) % Capacity)>> ELSE queue.ring[i]]
    BY DEF CopySamples, Slots, AudioInv, Types, Queues
  <1>3. ASSUME NEW f \in Int
        PROVE  /\ f % Capacity \in Slots
               /\ f \in seen..(seen + block - 1) =>
                    ((f % Capacity) - seen) % Capacity = f - seen
               /\ f \in queue.read..(queue.write - 1) =>
                    ~(((f % Capacity) - seen) % Capacity < block)
    <2>0. PICK slot \in Int : slot = f % Capacity
      <3>1. f % Capacity \in Int
        BY <1>1
      <3> QED
        BY <3>1, Zenon
    <2>1. seen \in Int /\ Capacity \in Nat \ {0}
      BY <1>1
    <2>2. slot \in 0..(Capacity - 1)
      BY <2>0, <2>1, Remainder
    <2>3. f \in seen..(seen + Capacity - 1) => (slot - seen) % Capacity = f - seen
      BY <2>0, <2>1, OffsetOfLater
    <2>4. f \in (seen - Capacity)..(seen - 1) =>
            (slot - seen) % Capacity = f - seen + Capacity
      BY <2>0, <2>1, OffsetOfEarlier
    <2>5. f \in seen..(seen + block - 1) => f \in seen..(seen + Capacity - 1)
      BY <1>1
    <2>6. ASSUME f \in queue.read..(queue.write - 1)
          PROVE  ~((slot - seen) % Capacity < block)
      <3>1. f \in (seen - Capacity)..(seen - 1) /\ ~(f - seen + Capacity < block)
        BY <1>1, <2>6
      <3> QED
        BY <2>4, <3>1, Zenon
    <2> QED
      BY <2>0, <2>2, <2>3, <2>5, <2>6, Zenon DEF Slots
  <1>4. ASSUME NEW f \in queue.read..(queue.write - 1)
        PROVE  queue'.ring[f % Capacity] = queue.ring[f % Capacity]
    <2>1. f \in Int
      BY <1>1
    <2>2. f % Capacity \in Slots /\ ~(((f % Capacity) - seen) % Capacity < block)
      BY <1>3, <2>1
    <2> QED
      BY <1>2, <2>2
  <1>5. ASSUME NEW f \in seen..(seen + block - 1)
        PROVE  queue'.ring[f % Capacity] = <<generation, f>>
    <2>1. f \in Int /\ f - seen < block /\ seen + (f - seen) = f
      BY <1>1
    <2>2. f % Capacity \in Slots /\ ((f % Capacity) - seen) % Capacity = f - seen
      BY <1>3, <2>1
    <2> QED
      BY <1>2, <2>1, <2>2
  <1>6. queue' \in Queues
    <2>1. ASSUME NEW i \in Slots
          PROVE  queue'.ring[i] \in Generations \X Frames
      <3>1. PICK d \in Int : d = i - seen
        BY <1>1 DEF Slots
      <3>2. PICK o \in 0..(Capacity - 1) : o = (i - seen) % Capacity
        BY <1>1, <3>1, Remainder
      <3>3. CASE o < block
        <4>1. PICK frame \in Frames : frame = seen + o
          BY <1>1, <3>3 DEF Frames
        <4>2. queue'.ring[i] = <<generation, frame>>
          BY <1>2, <3>2, <3>3, <4>1
        <4> QED
          BY <1>1, <4>2
      <3>4. CASE ~(o < block)
        BY <1>2, <3>2, <3>4 DEF AudioInv, Types, Queues
      <3> QED
        BY <1>1, <3>3, <3>4
    <2>2. queue'.ring \in [Slots -> Generations \X Frames]
      BY <1>2, <2>1
    <2> QED
      BY <1>2, <2>2 DEF AudioInv, Types, Queues
  <1> QED
    BY <1>4, <1>5, <1>6

(* What a step leaves alone.  A part of the invariant holds after a step that  *)
(* changes none of the state the part is about.                                *)
LEMMA Unchanged ==
  ASSUME AudioInv
  PROVE  /\ UNCHANGED <<stop, requested, intent, answered, output, lock, gui>> =>
              SessionTypes'
         /\ UNCHANGED <<producer, generation, block, seen>> => ProducerTypes'
         /\ UNCHANGED sink => sink' \in Sinks
         /\ UNCHANGED <<commands, control, startCheckPending>> => CommandTypes'
         /\ UNCHANGED queue => queue' \in Queues
         /\ UNCHANGED <<stream, callback, provoked>> => DeviceTypes'
         /\ UNCHANGED <<lock, producer, gui, answered>> => Ownership'
         /\ UNCHANGED <<commands, lock, answered, producer, gui, generation,
                        startCheckPending>> => Queued'
         /\ UNCHANGED <<commands, lock, answered, producer, gui, generation,
                        startCheckPending, control>> => InHand'
         /\ UNCHANGED <<output, generation, producer, gui, stop, requested>> => Session'
         /\ UNCHANGED <<producer, answered, generation, queue, sink>> => Epoch'
         /\ UNCHANGED <<output, queue, stream, sink, producer, gui, answered, control,
                        commands, intent, provoked>> => Silence'
         /\ UNCHANGED <<queue, callback>> => Ring'
         /\ UNCHANGED <<queue, producer, block, seen, generation>> => Submission'
  <1>1. UNCHANGED <<stop, requested, intent, answered, output, lock, gui>> => SessionTypes'
    BY DEF AudioInv, Types, SessionTypes
  <1>2. UNCHANGED <<producer, generation, block, seen>> => ProducerTypes'
    BY DEF AudioInv, Types, ProducerTypes
  <1>3. UNCHANGED sink => sink' \in Sinks
    BY DEF AudioInv, Types
  <1>4. UNCHANGED <<commands, control, startCheckPending>> => CommandTypes'
    BY DEF AudioInv, Types, CommandTypes
  <1>5. UNCHANGED queue => queue' \in Queues
    BY DEF AudioInv, Types
  <1>6. UNCHANGED <<stream, callback, provoked>> => DeviceTypes'
    BY DEF AudioInv, Types, DeviceTypes
  <1>7. UNCHANGED <<lock, producer, gui, answered>> => Ownership'
    BY DEF AudioInv, Ownership
  <1>8. UNCHANGED <<commands, lock, answered, producer, gui, generation,
                    startCheckPending>> => Queued'
    BY DEF AudioInv, Queued, Awaited, Asked
  <1>9. UNCHANGED <<commands, lock, answered, producer, gui, generation,
                    startCheckPending, control>> => InHand'
    BY DEF AudioInv, InHand, Awaited, Served, Asked
  <1>10. UNCHANGED <<output, generation, producer, gui, stop, requested>> => Session'
    BY DEF AudioInv, Session
  <1>11. UNCHANGED <<producer, answered, generation, queue, sink>> => Epoch'
    BY DEF AudioInv, Epoch, Opened
  <1>12. UNCHANGED <<output, queue, stream, sink, producer, gui, answered, control,
                     commands, intent, provoked>> => Silence'
    BY DEF AudioInv, Silence, Silent, Sounding, PausePending
  <1>13. UNCHANGED <<queue, callback>> => Ring'
    BY DEF AudioInv, Ring, Holds
  <1>14. UNCHANGED <<queue, producer, block, seen, generation>> => Submission'
    BY DEF AudioInv, Submission, Holds
  <1> QED
    BY <1>1, <1>2, <1>3, <1>4, <1>5, <1>6, <1>7, <1>8, <1>9, <1>10, <1>11, <1>12, <1>13, <1>14

-------------------------------------------------------------------------------
(* The GUI thread: cancelPipeline and cancelAudioOutput, play and haltPlayback. *)

LEMMA ReplaceKeeps ==
  ASSUME AudioInv, Replace
  PROVE  AudioInv'
  <1>1. ProducerTypes' /\ sink' \in Sinks /\ CommandTypes' /\ DeviceTypes'
    BY Unchanged DEF Replace, producerVars, controlVars, deviceVars
  <1>2. SessionTypes' /\ queue' \in Queues
    BY DEF Replace, producerVars, controlVars, deviceVars, AudioInv, Types, SessionTypes,
           GuiPoints, Queues
  <1>3. Ownership' /\ Session' /\ Epoch' /\ Queued' /\ InHand'
    BY DEF Replace, producerVars, controlVars, deviceVars, AudioInv, Ownership, Session, Epoch,
           Opened, Queued, Awaited, Asked, InHand, Served
  <1>4. Silence'
    BY DEF Replace, producerVars, controlVars, deviceVars, AudioInv, Silence, Silent, Sounding,
           PausePending
  <1>5. Ring' /\ Submission'
    BY DEF Replace, producerVars, controlVars, deviceVars, AudioInv, Ring, Holds, Submission,
           InSubmit
  <1> QED
    BY <1>1, <1>2, <1>3, <1>4, <1>5 DEF AudioInv, Types

(* CancelOutput keeps the invariant. *)
LEMMA CancelOutputKeeps ==
  ASSUME AudioInv, CancelOutput
  PROVE  AudioInv'
  <1>1. /\ ProducerTypes' /\ sink' \in Sinks /\ queue' \in Queues /\ DeviceTypes' /\ Epoch'
        /\ Ring' /\ Submission'
    BY Unchanged DEF CancelOutput, producerVars, deviceVars
  <1>2. SessionTypes'
    BY AudioBounds DEF CancelOutput, Send, Command, producerVars, deviceVars, AudioInv, Types,
                       SessionTypes, GuiPoints, Threads, ProducerTypes, Generations
  <1>3. CommandTypes' /\ Queued' /\ InHand'
    <2>1. CASE ~(output # 0)
      BY <2>1 DEF CancelOutput, AudioInv, Types, CommandTypes, Queued, InHand, Awaited, Asked,
                 Served, Ownership, ProducerGoes, producerVars, PausePending
    <2>2. CASE output # 0
      <3>0. PICK c : c = Command("cancel", output, TRUE)
        OBVIOUS
      <3>1. c \in Commands /\ c.waits
        BY <3>0 DEF AudioInv, Ownership, Session, Types, SessionTypes, ProducerTypes, Generations,
               Commands, ControlPoints, Command
      <3>2. commands' = Append(commands, c) /\ UNCHANGED <<startCheckPending, control>>
        BY <3>0, <2>2 DEF CancelOutput, Send, controlVars, producerVars, ProducerGoes
      <3>3. ~Awaited /\ Awaited'
        BY <2>2, AudioBounds DEF AudioInv, Ownership, CancelOutput, Awaited, ProducerGoes
      <3>4. Asked(c.at)' /\ (c.at = "reset" => c.generation = generation')
        BY <3>0, <2>2 DEF CancelOutput, Asked, Command, ProducerGoes, producerVars
      <3>5. /\ CommandTypes' /\ Queued' /\ InHand'
            /\ PausePending \/ c.at = "pause" => PausePending'
        BY <3>1, <3>2, <3>3, <3>4, SendQueues, SendTypes DEF AudioInv, Types
      <3> QED
        BY <3>0, <3>5 DEF Command
    <2> QED
      BY <2>1, <2>2
  <1>4. Ownership' /\ Session'
    BY DEF CancelOutput, Send, Command, producerVars, deviceVars, AudioInv, Ownership, Session,
           Types, SessionTypes, ProducerTypes, Generations
  <1>5. Silence'
    BY DEF CancelOutput, Send, Command, producerVars, deviceVars, AudioInv, Silence, Silent,
           Sounding, PausePending, InHand, Served, Asked, Awaited, Session, Ownership, Types,
           SessionTypes, CommandTypes, Commands, Sinks
  <1> QED
    BY <1>1, <1>2, <1>3, <1>4, <1>5 DEF AudioInv, Types

(* Submit keeps the invariant. *)
LEMMA SubmitKeeps ==
  ASSUME AudioInv, Submit
  PROVE  AudioInv'
  <1>1. /\ ProducerTypes' /\ sink' \in Sinks /\ CommandTypes' /\ queue' \in Queues
        /\ DeviceTypes' /\ Epoch' /\ Ring' /\ Submission'
    BY Unchanged DEF Submit, producerVars, controlVars, deviceVars
  <1>2. SessionTypes'
    <2>1. (generation < MaxGeneration) \in BOOLEAN
      BY AudioBounds DEF AudioInv, Types, ProducerTypes, Generations
    <2> QED
      BY <2>1 DEF Submit, AudioInv, Types, SessionTypes, GuiPoints
  <1>3. Ownership' /\ Session' /\ Queued' /\ InHand'
    BY DEF Submit, producerVars, controlVars, deviceVars, AudioInv, Ownership, Session, Queued,
           Awaited, Asked, InHand, Served
  <1>4. Silence'
    BY DEF Submit, producerVars, controlVars, deviceVars, AudioInv, Silence, Silent, Sounding,
           PausePending
  <1> QED
    BY <1>1, <1>2, <1>3, <1>4 DEF AudioInv, Types

(* PlayPause keeps the invariant. *)
LEMMA PlayPauseKeeps ==
  ASSUME AudioInv, PlayPause
  PROVE  AudioInv'
  <1>1. /\ ProducerTypes' /\ sink' \in Sinks /\ CommandTypes' /\ queue' \in Queues
        /\ DeviceTypes' /\ Epoch' /\ Ring' /\ Submission'
    BY Unchanged DEF PlayPause, producerVars, controlVars, deviceVars
  <1>2. SessionTypes'
    BY DEF PlayPause, producerVars, controlVars, deviceVars, AudioInv, Types, SessionTypes,
           GuiPoints
  <1>3. Ownership' /\ Session' /\ Queued' /\ InHand'
    BY DEF PlayPause, producerVars, controlVars, deviceVars, AudioInv, Ownership, Session,
           Queued, Awaited, Asked, InHand, Served
  <1>4. Silence'
    BY DEF PlayPause, producerVars, controlVars, deviceVars, AudioInv, Silence, Silent,
           Sounding, PausePending
  <1> QED
    BY <1>1, <1>2, <1>3, <1>4 DEF AudioInv, Types

(* ApplyIntent keeps the invariant. *)
LEMMA ApplyIntentKeeps ==
  ASSUME AudioInv, ApplyIntent
  PROVE  AudioInv'
  <1>1. ProducerTypes' /\ queue' \in Queues /\ DeviceTypes' /\ Ring' /\ Submission'
    BY Unchanged DEF ApplyIntent, producerVars, deviceVars
  <1>2. SessionTypes' /\ sink' \in Sinks
    BY DEF ApplyIntent, Send, Command, producerVars, deviceVars, AudioInv, Types, SessionTypes,
           GuiPoints, Threads, Sinks
  <1>3. CommandTypes' /\ Queued' /\ InHand'
        /\ (output # 0 /\ (PausePending \/ ~intent) => PausePending')
    <2>1. CASE ~(output # 0)
      BY <2>1 DEF ApplyIntent, AudioInv, Types, CommandTypes, Queued, InHand, Awaited, Asked,
                 Served, Ownership, ProducerGoes, producerVars, PausePending
    <2>2. CASE output # 0
      <3>0. PICK c : c = Command(IF intent THEN "start" ELSE "pause", 0, TRUE)
        OBVIOUS
      <3>1. c \in Commands /\ c.waits
        <4>1. c.at \in ControlPoints /\ c.generation \in Generations /\ c.waits
          BY <3>0, AudioBounds DEF Command, ControlPoints, Generations
        <4> QED
          BY <3>0, <4>1 DEF Command, Commands
      <3>2. commands' = Append(commands, c) /\ UNCHANGED <<startCheckPending, control>>
        BY <3>0, <2>2 DEF ApplyIntent, Send, controlVars, producerVars, ProducerGoes
      <3>3. ~Awaited /\ Awaited'
        BY <2>2, AudioBounds DEF AudioInv, Ownership, ApplyIntent, Awaited, ProducerGoes
      <3>4. Asked(c.at)' /\ (c.at = "reset" => c.generation = generation')
        BY <3>0, <2>2 DEF ApplyIntent, Asked, Command, ProducerGoes, producerVars
      <3>5. /\ CommandTypes' /\ Queued' /\ InHand'
            /\ PausePending \/ c.at = "pause" => PausePending'
        BY <3>1, <3>2, <3>3, <3>4, SendQueues, SendTypes DEF AudioInv, Types
      <3> QED
        BY <3>0, <3>5 DEF Command
    <2> QED
      BY <2>1, <2>2
  <1>4. Ownership' /\ Session' /\ Epoch'
    BY AudioBounds DEF ApplyIntent, Send, Command, producerVars, deviceVars, AudioInv,
                       Ownership, Session, Epoch, Opened, InHand, Types, SessionTypes,
                       ProducerTypes, CommandTypes, Served, Asked, InSubmit, ProducerPoints,
                       Queues
  <1>5. Silence'
    <2>1. CASE output = 0
      BY <2>1 DEF ApplyIntent, controlVars, deviceVars, producerVars, AudioInv, Silence, Silent,
                 Sounding, PausePending, Session, Ownership
    <2>2. CASE output # 0
      <3>1. /\ sink' = [sink EXCEPT !.wanted = intent] /\ gui' = "playWait"
            /\ UNCHANGED <<output, queue, stream, producer, answered, control, intent, provoked>>
        BY <2>2 DEF ApplyIntent, deviceVars, producerVars
      <3>2. sink'.wanted = intent /\ UNCHANGED <<sink.ready, sink.started, sink.ignoreDrain>>
        BY <3>1 DEF AudioInv, Types, Sinks
      <3>3. ~intent => PausePending'
        BY <1>3, <2>2
      <3> QED
        BY <2>2, <3>1, <3>2, <3>3 DEF AudioInv, Silence, Silent, Sounding, Types,
             SessionTypes, Generations
    <2> QED
      BY <2>1, <2>2
  <1> QED
    BY <1>1, <1>2, <1>3, <1>4, <1>5 DEF AudioInv, Types

(* CommandReturns keeps the invariant. *)
LEMMA CommandReturnsKeeps ==
  ASSUME AudioInv, CommandReturns
  PROVE  AudioInv'
  <1>1. /\ ProducerTypes' /\ sink' \in Sinks /\ CommandTypes' /\ queue' \in Queues
        /\ DeviceTypes' /\ Ring' /\ Submission'
    BY Unchanged DEF CommandReturns, producerVars, controlVars, deviceVars
  <1>2. SessionTypes'
    BY DEF CommandReturns, producerVars, controlVars, deviceVars, AudioInv, Types, SessionTypes,
           GuiPoints, Threads
  <1>3. Ownership' /\ Session' /\ Epoch' /\ Queued' /\ InHand'
    BY DEF CommandReturns, producerVars, controlVars, deviceVars, AudioInv, Ownership, Session,
           Epoch, Opened, Queued, Awaited, Asked, InHand, Served
  <1>4. Silence'
    BY DEF CommandReturns, producerVars, controlVars, deviceVars, AudioInv, Silence, Silent,
           Sounding, PausePending
  <1> QED
    BY <1>1, <1>2, <1>3, <1>4 DEF AudioInv, Types

-------------------------------------------------------------------------------
(* The producer: one operation around submit(), and submit() itself. *)

LEMMA BeginOperationKeeps ==
  ASSUME AudioInv, BeginOperation
  PROVE  AudioInv'
  <1>1. sink' \in Sinks /\ CommandTypes' /\ queue' \in Queues /\ DeviceTypes' /\ Ring'
    BY Unchanged DEF BeginOperation, controlVars, deviceVars
  <1>2. SessionTypes'
    BY DEF BeginOperation, controlVars, deviceVars, AudioInv, Types, SessionTypes, GuiPoints
  <1>3. ProducerTypes'
    BY AudioBounds DEF BeginOperation, controlVars, deviceVars, AudioInv, Types, ProducerTypes,
                       Session, SessionTypes, Generations, ProducerPoints, InSubmit, MaxSubmit,
                       Frames, Queues
  <1>4. Ownership' /\ Session' /\ Epoch' /\ Queued' /\ InHand'
    BY DEF BeginOperation, controlVars, deviceVars, AudioInv, Ownership, Session, Types,
           SessionTypes, ProducerTypes, Generations, Epoch, Opened, Queued, Awaited, Asked,
           InHand, Served
  <1>5. Silence'
    BY DEF BeginOperation, controlVars, deviceVars, AudioInv, Silence, Silent, Sounding,
           PausePending
  <1>6. Submission'
    BY DEF BeginOperation, controlVars, deviceVars, AudioInv, Submission, Holds, InSubmit
  <1> QED
    BY <1>1, <1>2, <1>3, <1>4, <1>5, <1>6 DEF AudioInv, Types

(* OpenOutput keeps the invariant. *)
LEMMA OpenOutputKeeps ==
  ASSUME AudioInv, OpenOutput
  PROVE  AudioInv'
  <1>1. sink' \in Sinks /\ queue' \in Queues /\ DeviceTypes' /\ Ring'
    BY Unchanged DEF OpenOutput, ProducerGoes, deviceVars
  <1>2. SessionTypes' /\ ProducerTypes'
    BY DEF OpenOutput, ProducerGoes, deviceVars, Send, Command, AudioInv, Types, SessionTypes,
           GuiPoints, Threads, ProducerTypes, ProducerPoints, InSubmit
  <1>3. CommandTypes' /\ Queued' /\ InHand'
    <2>1. CASE ~(~stop)
      BY <2>1 DEF OpenOutput, AudioInv, Types, CommandTypes, Queued, InHand, Awaited, Asked,
                 Served, Ownership, ProducerGoes, producerVars, PausePending
    <2>2. CASE ~stop
      <3>0. PICK c : c = Command("reset", generation, TRUE)
        OBVIOUS
      <3>1. c \in Commands /\ c.waits
        BY <3>0 DEF AudioInv, Ownership, Session, Types, SessionTypes, ProducerTypes, Generations,
               Commands, ControlPoints, Command
      <3>2. commands' = Append(commands, c) /\ UNCHANGED <<startCheckPending, control>>
        BY <3>0, <2>2 DEF OpenOutput, Send, controlVars, producerVars, ProducerGoes
      <3>3. ~Awaited /\ Awaited'
        BY <2>2, AudioBounds DEF AudioInv, Ownership, OpenOutput, Awaited, ProducerGoes
      <3>4. Asked(c.at)' /\ (c.at = "reset" => c.generation = generation')
        BY <3>0, <2>2 DEF OpenOutput, Asked, Command, ProducerGoes, producerVars
      <3>5. /\ CommandTypes' /\ Queued' /\ InHand'
            /\ PausePending \/ c.at = "pause" => PausePending'
        BY <3>1, <3>2, <3>3, <3>4, SendQueues, SendTypes DEF AudioInv, Types
      <3> QED
        BY <3>0, <3>5 DEF Command
    <2> QED
      BY <2>1, <2>2
  <1>4. Ownership' /\ Session' /\ Epoch'
    BY AudioBounds DEF OpenOutput, ProducerGoes, deviceVars, Send, Command, AudioInv, Ownership,
                       Session, Epoch, Opened, InHand, Types, SessionTypes, ProducerTypes,
                       CommandTypes, Served, Asked, InSubmit, ProducerPoints, Queues
  <1>5. Silence'
    BY DEF OpenOutput, ProducerGoes, deviceVars, Send, Command, AudioInv, Silence, Silent,
           Sounding, PausePending
  <1>6. Submission'
    BY DEF OpenOutput, ProducerGoes, deviceVars, Send, Command, AudioInv, Submission, Holds,
           InSubmit
  <1> QED
    BY <1>1, <1>2, <1>3, <1>4, <1>5, <1>6 DEF AudioInv, Types

(* StartOutput keeps the invariant. *)
LEMMA StartOutputKeeps ==
  ASSUME AudioInv, StartOutput
  PROVE  AudioInv'
  <1>1. queue' \in Queues /\ DeviceTypes' /\ Ring'
    BY Unchanged DEF StartOutput, ProducerGoes, deviceVars
  <1>2. SessionTypes' /\ ProducerTypes' /\ sink' \in Sinks
    BY DEF StartOutput, ProducerGoes, deviceVars, Send, Command, AudioInv, Types, SessionTypes,
           GuiPoints, Threads, ProducerTypes, Generations, ProducerPoints, InSubmit, Sinks
  <1>3. CommandTypes' /\ Queued' /\ InHand'
    <2>0. PICK c : c = Command(IF intent THEN "start" ELSE "pause", 0, TRUE)
      OBVIOUS
    <2>1. c \in Commands /\ c.waits
      <3>1. c.at \in ControlPoints /\ c.generation \in Generations /\ c.waits
        BY <2>0, AudioBounds DEF Command, ControlPoints, Generations
      <3> QED
        BY <2>0, <3>1 DEF Command, Commands
    <2>2. commands' = Append(commands, c) /\ UNCHANGED <<startCheckPending, control>>
      BY <2>0 DEF StartOutput, Send, controlVars, producerVars, ProducerGoes
    <2>3. ~Awaited /\ Awaited'
      BY AudioBounds DEF AudioInv, Ownership, StartOutput, Awaited, ProducerGoes
    <2>4. Asked(c.at)' /\ (c.at = "reset" => c.generation = generation')
      BY <2>0 DEF StartOutput, Asked, Command, ProducerGoes, producerVars
    <2>5. /\ CommandTypes' /\ Queued' /\ InHand'
          /\ PausePending \/ c.at = "pause" => PausePending'
      BY <2>1, <2>2, <2>3, <2>4, SendQueues, SendTypes DEF AudioInv, Types
    <2> QED
      BY <2>0, <2>5 DEF Command
  <1>4. Ownership' /\ Session' /\ Epoch'
    BY DEF StartOutput, ProducerGoes, deviceVars, Send, Command, AudioInv, Ownership, Session,
           Epoch, Opened
  <1>5. Silence'
    BY DEF StartOutput, ProducerGoes, deviceVars, Send, Command, AudioInv, Silence, Silent,
           Sounding, PausePending, InHand, Served, Asked, Awaited, Session, Ownership, Types,
           SessionTypes, CommandTypes, Commands, Sinks
  <1>6. Submission'
    BY DEF StartOutput, ProducerGoes, deviceVars, Send, Command, AudioInv, Submission, Holds,
           InSubmit
  <1> QED
    BY <1>1, <1>2, <1>3, <1>4, <1>5, <1>6 DEF AudioInv, Types

(* OutputStarted keeps the invariant. *)
LEMMA OutputStartedKeeps ==
  ASSUME AudioInv, OutputStarted
  PROVE  AudioInv'
  <1>1. sink' \in Sinks /\ CommandTypes' /\ queue' \in Queues /\ DeviceTypes' /\ Ring'
    BY Unchanged DEF OutputStarted, ProducerGoes, deviceVars, controlVars
  <1>2. SessionTypes'
    BY DEF OutputStarted, ProducerGoes, deviceVars, controlVars, AudioInv, Types, SessionTypes,
           GuiPoints, Threads
  <1>3. ProducerTypes'
    BY DEF OutputStarted, ProducerGoes, deviceVars, controlVars, AudioInv, Types, ProducerTypes,
           ProducerPoints, InSubmit
  <1>4. Ownership' /\ Session' /\ Epoch' /\ Queued' /\ InHand'
    BY DEF OutputStarted, ProducerGoes, deviceVars, controlVars, AudioInv, Ownership, Session,
           Epoch, Opened, Queued, Awaited, Asked, InHand, Served
  <1>5. Silence'
    BY DEF OutputStarted, ProducerGoes, deviceVars, controlVars, AudioInv, Silence, Silent,
           Sounding, PausePending
  <1>6. Submission'
    BY AudioBounds DEF OutputStarted, ProducerGoes, deviceVars, controlVars, AudioInv,
                       Submission, Holds, InSubmit, Types, SessionTypes, ProducerTypes,
                       CommandTypes, Ring, Epoch, MaxSubmit, Frames, Queues
  <1> QED
    BY <1>1, <1>2, <1>3, <1>4, <1>5, <1>6 DEF AudioInv, Types

(* NextBlock keeps the invariant. *)
LEMMA NextBlockKeeps ==
  ASSUME AudioInv, NextBlock
  PROVE  AudioInv'
  <1>1. /\ SessionTypes' /\ sink' \in Sinks /\ CommandTypes' /\ queue' \in Queues
        /\ DeviceTypes' /\ Ring'
    BY Unchanged DEF NextBlock, ProducerGoes, deviceVars, controlVars
  <1>2. ProducerTypes'
    BY DEF NextBlock, ProducerGoes, deviceVars, controlVars, AudioInv, Types, ProducerTypes,
           ProducerPoints, InSubmit
  <1>3. Ownership' /\ Session' /\ Epoch' /\ Queued' /\ InHand'
    BY DEF NextBlock, ProducerGoes, deviceVars, controlVars, AudioInv, Ownership, Session,
           Epoch, Opened, Queued, Awaited, Asked, InHand, Served
  <1>4. Silence'
    BY DEF NextBlock, ProducerGoes, deviceVars, controlVars, AudioInv, Silence, Silent,
           Sounding, PausePending
  <1>5. Submission'
    BY AudioBounds DEF NextBlock, ProducerGoes, deviceVars, controlVars, AudioInv, Submission,
                       Holds, InSubmit, Types, ProducerTypes, Frames, MaxSubmit, Queues, Ring
  <1> QED
    BY <1>1, <1>2, <1>3, <1>4, <1>5 DEF AudioInv, Types

(* Finish keeps the invariant. *)
LEMMA FinishKeeps ==
  ASSUME AudioInv, Finish
  PROVE  AudioInv'
  <1>1. sink' \in Sinks /\ queue' \in Queues /\ DeviceTypes' /\ Ring'
    BY Unchanged DEF Finish, ProducerGoes, deviceVars
  <1>2. SessionTypes' /\ ProducerTypes'
    BY DEF Finish, ProducerGoes, deviceVars, Send, Command, AudioInv, Types, SessionTypes,
           GuiPoints, Threads, ProducerTypes, ProducerPoints, InSubmit
  <1>3. CommandTypes' /\ Queued' /\ InHand'
    <2>1. CASE ~(output = generation)
      BY <2>1 DEF Finish, AudioInv, Types, CommandTypes, Queued, InHand, Awaited, Asked,
                 Served, Ownership, ProducerGoes, producerVars, PausePending
    <2>2. CASE output = generation
      <3>0. PICK c : c = Command("finish", generation, TRUE)
        OBVIOUS
      <3>1. c \in Commands /\ c.waits
        BY <3>0 DEF AudioInv, Ownership, Session, Types, SessionTypes, ProducerTypes, Generations,
               Commands, ControlPoints, Command
      <3>2. commands' = Append(commands, c) /\ UNCHANGED <<startCheckPending, control>>
        BY <3>0, <2>2 DEF Finish, Send, controlVars, producerVars, ProducerGoes
      <3>3. ~Awaited /\ Awaited'
        BY <2>2, AudioBounds DEF AudioInv, Ownership, Finish, Awaited, ProducerGoes
      <3>4. Asked(c.at)' /\ (c.at = "reset" => c.generation = generation')
        BY <3>0, <2>2 DEF Finish, Asked, Command, ProducerGoes, producerVars
      <3>5. /\ CommandTypes' /\ Queued' /\ InHand'
            /\ PausePending \/ c.at = "pause" => PausePending'
        BY <3>1, <3>2, <3>3, <3>4, SendQueues, SendTypes DEF AudioInv, Types
      <3> QED
        BY <3>0, <3>5 DEF Command
    <2> QED
      BY <2>1, <2>2
  <1>4. Ownership' /\ Session' /\ Epoch'
    BY DEF Finish, ProducerGoes, deviceVars, Send, Command, AudioInv, Ownership, Session, Epoch,
           Opened
  <1>5. Silence'
    BY DEF Finish, ProducerGoes, deviceVars, Send, Command, AudioInv, Silence, Silent, Sounding,
           PausePending
  <1>6. Submission'
    BY DEF Finish, ProducerGoes, deviceVars, Send, Command, AudioInv, Submission, Holds,
           InSubmit
  <1> QED
    BY <1>1, <1>2, <1>3, <1>4, <1>5, <1>6 DEF AudioInv, Types

(* Finished keeps the invariant. *)
LEMMA FinishedKeeps ==
  ASSUME AudioInv, Finished
  PROVE  AudioInv'
  <1>1. sink' \in Sinks /\ CommandTypes' /\ queue' \in Queues /\ DeviceTypes' /\ Ring'
    BY Unchanged DEF Finished, ProducerGoes, deviceVars, controlVars
  <1>2. SessionTypes' /\ ProducerTypes'
    BY DEF Finished, ProducerGoes, deviceVars, controlVars, AudioInv, Types, SessionTypes,
           GuiPoints, Threads, ProducerTypes, ProducerPoints, InSubmit
  <1>3. Ownership' /\ Session' /\ Epoch' /\ Queued' /\ InHand'
    BY DEF Finished, ProducerGoes, deviceVars, controlVars, AudioInv, Ownership, Session, Epoch,
           Opened, Queued, Awaited, Asked, InHand, Served
  <1>4. Silence'
    BY DEF Finished, ProducerGoes, deviceVars, controlVars, AudioInv, Silence, Silent, Sounding,
           PausePending
  <1>5. Submission'
    BY DEF Finished, ProducerGoes, deviceVars, controlVars, AudioInv, Submission, Holds,
           InSubmit
  <1> QED
    BY <1>1, <1>2, <1>3, <1>4, <1>5 DEF AudioInv, Types

(* CheckEpoch keeps the invariant. *)
LEMMA CheckEpochKeeps ==
  ASSUME AudioInv, CheckEpoch
  PROVE  AudioInv'
  <1>1. /\ SessionTypes' /\ sink' \in Sinks /\ CommandTypes' /\ queue' \in Queues
        /\ DeviceTypes' /\ Ring'
    BY Unchanged DEF CheckEpoch, SubmitGoes, ProducerGoes, deviceVars
  <1>2. ProducerTypes'
    BY AudioBounds DEF CheckEpoch, SubmitGoes, ProducerGoes, deviceVars, EpochCurrent, AudioInv,
                       Types, ProducerTypes, ProducerPoints, InSubmit, MaxSubmit, Frames
  <1>3. Ownership' /\ Session' /\ Epoch' /\ Queued' /\ InHand'
    BY DEF CheckEpoch, SubmitGoes, ProducerGoes, deviceVars, EpochCurrent, AudioInv, Ownership,
           Session, Epoch, Opened, Queued, Awaited, Asked, InHand, Served
  <1>4. Silence'
    BY DEF CheckEpoch, SubmitGoes, ProducerGoes, deviceVars, EpochCurrent, AudioInv, Silence,
           Silent, Sounding, PausePending
  <1>5. Submission'
    BY DEF CheckEpoch, SubmitGoes, ProducerGoes, deviceVars, EpochCurrent, AudioInv, Submission,
           Holds, InSubmit
  <1> QED
    BY <1>1, <1>2, <1>3, <1>4, <1>5 DEF AudioInv, Types

(* Enter keeps the invariant. *)
LEMMA EnterKeeps ==
  ASSUME AudioInv, Enter
  PROVE  AudioInv'
  <1>1. SessionTypes' /\ sink' \in Sinks /\ CommandTypes' /\ DeviceTypes'
    BY Unchanged DEF Enter, ProducerGoes, deviceVars, SubmitGoes
  <1>2. ProducerTypes'
    BY AudioBounds DEF Enter, ProducerGoes, deviceVars, SubmitGoes, AudioInv, Types,
                       ProducerTypes, Session, SessionTypes, Generations, ProducerPoints,
                       InSubmit, MaxSubmit, Frames, Queues
  <1>3. queue' \in Queues
    BY DEF Enter, ProducerGoes, deviceVars, SubmitGoes, AudioInv, Types, Queues
  <1>4. Ownership' /\ Session' /\ Epoch' /\ Queued' /\ InHand'
    BY DEF Enter, ProducerGoes, deviceVars, SubmitGoes, AudioInv, Ownership, Session, Epoch,
           Opened, InSubmit, Types, Queues, Queued, Awaited, Asked, InHand, Served
  <1>5. Silence'
    BY DEF Enter, ProducerGoes, deviceVars, SubmitGoes, AudioInv, Silence, Silent, Sounding,
           PausePending
  <1>6. Ring' /\ Submission'
    BY DEF Enter, ProducerGoes, deviceVars, SubmitGoes, AudioInv, Ring, Holds, Types, Queues,
           Submission, InSubmit
  <1> QED
    BY <1>1, <1>2, <1>3, <1>4, <1>5, <1>6 DEF AudioInv, Types

(* FindRoom keeps the invariant. *)
LEMMA FindRoomKeeps ==
  ASSUME AudioInv, FindRoom
  PROVE  AudioInv'
  <1>1. SessionTypes' /\ sink' \in Sinks /\ CommandTypes' /\ DeviceTypes'
    BY Unchanged DEF FindRoom, SubmitGoes, ProducerGoes, deviceVars
  <1>2. ProducerTypes'
    BY AudioBounds DEF FindRoom, SubmitGoes, ProducerGoes, deviceVars, Refused, FreeFrames,
                       AudioInv, Types, ProducerTypes, ProducerPoints, InSubmit, MaxSubmit,
                       Frames
  <1>3. queue' \in Queues
    BY DEF FindRoom, SubmitGoes, ProducerGoes, deviceVars, Refused, FreeFrames, AudioInv, Types,
           Queues
  <1>4. Ownership' /\ Session' /\ Epoch' /\ Queued' /\ InHand'
    BY DEF FindRoom, SubmitGoes, ProducerGoes, deviceVars, Refused, FreeFrames, AudioInv,
           Ownership, Session, Epoch, Opened, Queued, Awaited, Asked, InHand, Served
  <1>5. Silence'
    BY DEF FindRoom, SubmitGoes, ProducerGoes, deviceVars, Refused, FreeFrames, AudioInv,
           Silence, Silent, Sounding, PausePending
  <1>6. Ring' /\ Submission'
    BY AudioBounds DEF FindRoom, SubmitGoes, ProducerGoes, deviceVars, Refused, FreeFrames,
                       AudioInv, Ring, Holds, Submission, InSubmit, Types, ProducerTypes,
                       Frames, MaxSubmit, Queues
  <1> QED
    BY <1>1, <1>2, <1>3, <1>4, <1>5, <1>6 DEF AudioInv, Types

(* LookAgain keeps the invariant. *)
LEMMA LookAgainKeeps ==
  ASSUME AudioInv, LookAgain
  PROVE  AudioInv'
  <1>1. /\ SessionTypes' /\ sink' \in Sinks /\ CommandTypes' /\ queue' \in Queues
        /\ DeviceTypes' /\ Ring'
    BY Unchanged DEF LookAgain, SubmitGoes, ProducerGoes, deviceVars
  <1>2. ProducerTypes'
    BY DEF LookAgain, SubmitGoes, ProducerGoes, deviceVars, Refused, FreeFrames, AudioInv,
           Types, ProducerTypes, ProducerPoints, InSubmit
  <1>3. Ownership' /\ Session' /\ Epoch' /\ Queued' /\ InHand'
    BY DEF LookAgain, SubmitGoes, ProducerGoes, deviceVars, Refused, FreeFrames, AudioInv,
           Ownership, Session, Epoch, Opened, Queued, Awaited, Asked, InHand, Served
  <1>4. Silence'
    BY DEF LookAgain, SubmitGoes, ProducerGoes, deviceVars, Refused, FreeFrames, AudioInv,
           Silence, Silent, Sounding, PausePending
  <1>5. Submission'
    BY DEF LookAgain, SubmitGoes, ProducerGoes, deviceVars, Refused, FreeFrames, AudioInv,
           Submission, Holds, InSubmit
  <1> QED
    BY <1>1, <1>2, <1>3, <1>4, <1>5 DEF AudioInv, Types

(* Wait keeps the invariant. *)
LEMMA WaitKeeps ==
  ASSUME AudioInv, Wait
  PROVE  AudioInv'
  <1>1. /\ SessionTypes' /\ sink' \in Sinks /\ CommandTypes' /\ queue' \in Queues
        /\ DeviceTypes' /\ Ring'
    BY Unchanged DEF Wait, SubmitGoes, ProducerGoes, deviceVars
  <1>2. ProducerTypes'
    BY DEF Wait, SubmitGoes, ProducerGoes, deviceVars, AudioInv, Types, ProducerTypes,
           ProducerPoints, InSubmit
  <1>3. Ownership' /\ Session' /\ Epoch' /\ Queued' /\ InHand'
    BY DEF Wait, SubmitGoes, ProducerGoes, deviceVars, AudioInv, Ownership, Session, Epoch,
           Opened, Queued, Awaited, Asked, InHand, Served
  <1>4. Silence'
    BY DEF Wait, SubmitGoes, ProducerGoes, deviceVars, AudioInv, Silence, Silent, Sounding,
           PausePending
  <1>5. Submission'
    BY DEF Wait, SubmitGoes, ProducerGoes, deviceVars, AudioInv, Submission, Holds, InSubmit
  <1> QED
    BY <1>1, <1>2, <1>3, <1>4, <1>5 DEF AudioInv, Types

(* CopySamples keeps the invariant. *)
LEMMA CopySamplesKeeps ==
  ASSUME AudioInv, CopySamples
  PROVE  AudioInv'
  <1>1. SessionTypes' /\ sink' \in Sinks /\ CommandTypes' /\ DeviceTypes'
    BY Unchanged DEF CopySamples, SubmitGoes, ProducerGoes, deviceVars
  <1>2. ProducerTypes'
    BY AudioBounds DEF CopySamples, SubmitGoes, ProducerGoes, deviceVars, AudioInv, Types,
                       ProducerTypes, ProducerPoints, InSubmit, MaxSubmit, Frames
  <1>3. queue' \in Queues
    BY CopyHolds
  <1>4. Ownership' /\ Session' /\ Epoch' /\ Queued' /\ InHand'
    BY DEF CopySamples, SubmitGoes, ProducerGoes, deviceVars, AudioInv, Ownership, Session,
           Epoch, Opened, Queued, Awaited, Asked, InHand, Served
  <1>5. Silence'
    BY DEF CopySamples, SubmitGoes, ProducerGoes, deviceVars, AudioInv, Silence, Silent,
           Sounding, PausePending
  <1>6. Ring'
    <2>1. UNCHANGED <<queue.read, queue.write, queue.generation, callback>>
      BY DEF CopySamples, SubmitGoes, ProducerGoes, deviceVars, AudioInv, Types, Queues
    <2>2. Holds(queue.generation, queue.read, queue.write - 1)'
      BY <2>1, CopyHolds DEF AudioInv, Ring, Holds
    <2> QED
      BY <2>1, <2>2 DEF AudioInv, Ring
  <1>7. Submission'
    <2>1. /\ UNCHANGED <<queue.read, queue.write, queue.produced, generation>>
          /\ producer = "copy" /\ producer' \in {"idle", "commit"}
          /\ producer' = "commit" => UNCHANGED <<block, seen>>
      BY DEF CopySamples, SubmitGoes, ProducerGoes, InSubmit, AudioInv, Types, Queues
    <2>2. producer' = "commit" => Holds(generation, seen, seen + block - 1)'
      BY <2>1, CopyHolds DEF Holds
    <2> QED
      BY <2>1, <2>2 DEF AudioInv, Submission, InSubmit
  <1> QED
    BY <1>1, <1>2, <1>3, <1>4, <1>5, <1>6, <1>7 DEF AudioInv, Types

(* Commit keeps the invariant. *)
LEMMA CommitKeeps ==
  ASSUME AudioInv, Commit
  PROVE  AudioInv'
  <1>1. SessionTypes' /\ sink' \in Sinks /\ CommandTypes' /\ DeviceTypes'
    BY Unchanged DEF Commit, SubmitGoes, ProducerGoes, deviceVars
  <1>2. ProducerTypes'
    BY AudioBounds DEF Commit, SubmitGoes, ProducerGoes, deviceVars, AudioInv, Types,
                       ProducerTypes, ProducerPoints, InSubmit, MaxSubmit, Frames
  <1>3. queue' \in Queues
    <2>1. seen + block \in Frames
      BY AudioBounds DEF Commit, AudioInv, Submission, InSubmit, Types, ProducerTypes, Queues,
                         Frames, MaxSubmit
    <2> QED
      BY <2>1 DEF Commit, AudioInv, Types, Queues
  <1>4. Ownership' /\ Session' /\ Epoch' /\ Queued' /\ InHand'
    BY DEF Commit, SubmitGoes, ProducerGoes, deviceVars, AudioInv, Ownership, Session, Epoch,
           Opened, InSubmit, Types, Queues, Queued, Awaited, Asked, InHand, Served
  <1>5. Silence'
    BY DEF Commit, SubmitGoes, ProducerGoes, deviceVars, AudioInv, Silence, Silent, Sounding,
           PausePending
  <1>6. Ring'
    <2>1. CASE ~(~queue.moved /\ queue.open /\ queue.write = seen)
      BY <2>1 DEF Commit, SubmitGoes, ProducerGoes, deviceVars, InSubmit, AudioInv, Ring, Holds
    <2>2. CASE ~queue.moved /\ queue.open /\ queue.write = seen
      <3>1. /\ UNCHANGED <<queue.read, queue.generation, queue.ring, queue.produced, callback,
                          generation, seen, block>>
            /\ queue'.write = seen + block /\ producer = "commit" /\ producer' = "account"
        BY <2>2 DEF Commit, SubmitGoes, ProducerGoes, deviceVars, InSubmit, AudioInv, Types,
                   Queues
      <3>2. /\ queue.read \in Nat /\ queue.write \in Nat /\ block \in Nat /\ seen \in Nat
            /\ block # 0 /\ seen = queue.write /\ Capacity \in Nat /\ queue.write = queue.produced
            /\ seen + block - queue.read <= Capacity /\ queue.read <= queue.write
            /\ queue.produced + block <= MaxFrames + Capacity
        BY <2>2, AudioBounds DEF Commit, InSubmit, AudioInv, Submission, Ring, Types,
                   ProducerTypes, Queues, Frames, MaxSubmit
      <3>3. ASSUME NEW f \in queue'.read..(queue'.write - 1)
            PROVE  queue.ring[f % Capacity] = <<queue.generation, f>>
        <4>1. f \in queue.read..(queue.write - 1) \/ f \in seen..(seen + block - 1)
          BY <3>1, <3>2
        <4>2. Holds(queue.generation, queue.read, queue.write - 1)
          BY DEF AudioInv, Ring
        <4>3. Holds(queue.generation, seen, seen + block - 1)
          BY <3>1 DEF AudioInv, Submission, Epoch
        <4> QED
          BY <4>1, <4>2, <4>3 DEF Holds
      <3>4. Holds(queue.generation, queue.read, queue.write - 1)'
        BY <3>1, <3>3 DEF Holds
      <3>5. queue'.read <= queue'.write /\ queue'.write - queue'.read <= Capacity
        BY <3>1, <3>2
      <3>6. callback.at = "consume" =>
              callback.read = queue.read /\ callback.media <= queue'.write - queue.read
        BY <3>1, <3>2 DEF AudioInv, Ring, Types, DeviceTypes, Callbacks, Frames
      <3> QED
        BY <3>1, <3>4, <3>5, <3>6 DEF Ring
    <2> QED
      BY <2>1, <2>2
  <1>7. Submission'
    <2>1. CASE ~(~queue.moved /\ queue.open /\ queue.write = seen)
      BY <2>1 DEF Commit, SubmitGoes, ProducerGoes, deviceVars, InSubmit, AudioInv, Submission, Holds
    <2>2. CASE ~queue.moved /\ queue.open /\ queue.write = seen
      <3>1. /\ UNCHANGED <<queue.read, queue.generation, queue.ring, queue.produced, callback,
                          generation, seen, block>>
            /\ queue'.write = seen + block /\ producer = "commit" /\ producer' = "account"
        BY <2>2 DEF Commit, SubmitGoes, ProducerGoes, deviceVars, InSubmit, AudioInv, Types,
                   Queues
      <3>2. /\ queue.read \in Nat /\ queue.write \in Nat /\ block \in Nat /\ seen \in Nat
            /\ block # 0 /\ seen = queue.write /\ Capacity \in Nat /\ queue.write = queue.produced
            /\ seen + block - queue.read <= Capacity /\ queue.read <= queue.write
            /\ queue.produced + block <= MaxFrames + Capacity
        BY <2>2, AudioBounds DEF Commit, InSubmit, AudioInv, Submission, Ring, Types,
                   ProducerTypes, Queues, Frames, MaxSubmit
      <3> QED
        BY <3>1, <3>2 DEF Submission, InSubmit
    <2> QED
      BY <2>1, <2>2
  <1> QED
    BY <1>1, <1>2, <1>3, <1>4, <1>5, <1>6, <1>7 DEF AudioInv, Types

(* Account keeps the invariant. *)
LEMMA AccountKeeps ==
  ASSUME AudioInv, Account
  PROVE  AudioInv'
  <1>1. SessionTypes' /\ sink' \in Sinks /\ CommandTypes' /\ DeviceTypes'
    BY Unchanged DEF Account, SubmitGoes, ProducerGoes, deviceVars
  <1>2. ProducerTypes'
    BY DEF Account, SubmitGoes, ProducerGoes, deviceVars, AudioInv, Types, ProducerTypes,
           ProducerPoints, InSubmit
  <1>3. queue' \in Queues
    <2>1. queue.produced + block \in Frames
      BY AudioBounds DEF Account, AudioInv, Submission, InSubmit, Types, ProducerTypes, Queues,
                         Frames, MaxSubmit
    <2> QED
      BY <2>1 DEF Account, AudioInv, Types, Queues
  <1>4. Ownership' /\ Session' /\ Epoch' /\ Queued' /\ InHand'
    BY DEF Account, SubmitGoes, ProducerGoes, deviceVars, AudioInv, Ownership, Session, Epoch,
           Opened, Queued, Awaited, Asked, InHand, Served
  <1>5. Silence'
    BY DEF Account, SubmitGoes, ProducerGoes, deviceVars, AudioInv, Silence, Silent, Sounding,
           PausePending
  <1>6. Ring' /\ Submission'
    BY DEF Account, SubmitGoes, ProducerGoes, deviceVars, AudioInv, Ring, Holds, Submission,
           InSubmit, Types, ProducerTypes, Frames, MaxSubmit, Queues
  <1> QED
    BY <1>1, <1>2, <1>3, <1>4, <1>5, <1>6 DEF AudioInv, Types

(* RecheckEpoch keeps the invariant. *)
LEMMA RecheckEpochKeeps ==
  ASSUME AudioInv, RecheckEpoch
  PROVE  AudioInv'
  <1>1. /\ SessionTypes' /\ sink' \in Sinks /\ CommandTypes' /\ queue' \in Queues
        /\ DeviceTypes' /\ Ring'
    BY Unchanged DEF RecheckEpoch, SubmitGoes, ProducerGoes, deviceVars
  <1>2. ProducerTypes'
    BY AudioBounds DEF RecheckEpoch, SubmitGoes, ProducerGoes, deviceVars, EpochCurrent,
                       AudioInv, Types, ProducerTypes, ProducerPoints, InSubmit, MaxSubmit,
                       Frames
  <1>3. Ownership' /\ Session' /\ Epoch' /\ Queued' /\ InHand'
    BY DEF RecheckEpoch, SubmitGoes, ProducerGoes, deviceVars, EpochCurrent, AudioInv,
           Ownership, Session, Epoch, Opened, Queued, Awaited, Asked, InHand, Served
  <1>4. Silence'
    BY DEF RecheckEpoch, SubmitGoes, ProducerGoes, deviceVars, EpochCurrent, AudioInv, Silence,
           Silent, Sounding, PausePending
  <1>5. Submission'
    BY DEF RecheckEpoch, SubmitGoes, ProducerGoes, deviceVars, EpochCurrent, AudioInv,
           Submission, Holds, InSubmit
  <1> QED
    BY <1>1, <1>2, <1>3, <1>4, <1>5 DEF AudioInv, Types

(* RequestStartCheck keeps the invariant. *)
LEMMA RequestStartCheckKeeps ==
  ASSUME AudioInv, RequestStartCheck
  PROVE  AudioInv'
  <1>1. SessionTypes' /\ sink' \in Sinks /\ queue' \in Queues /\ DeviceTypes' /\ Ring'
    BY Unchanged DEF RequestStartCheck, SubmitGoes, ProducerGoes, deviceVars
  <1>2. ProducerTypes'
    BY AudioBounds DEF RequestStartCheck, SubmitGoes, ProducerGoes, deviceVars, Command,
                       AudioInv, Types, ProducerTypes, ProducerPoints, InSubmit, MaxSubmit,
                       Frames
  <1>3. CommandTypes'
    <2>1. CASE startCheckPending
      BY <2>1 DEF RequestStartCheck, SubmitGoes, AudioInv, Types, CommandTypes
    <2>2. CASE ~startCheckPending
      <3>1. PICK c : c = Command("check", 0, FALSE)
        OBVIOUS
      <3>2. c \in Commands
        BY <3>1, AudioBounds DEF Command, Commands, ControlPoints, Generations
      <3>3. commands' \in Seq(Commands)
        BY <2>2, <3>1, <3>2, SendAdds DEF RequestStartCheck, AudioInv, Types
      <3> QED
        BY <3>3 DEF RequestStartCheck, SubmitGoes, AudioInv, Types, CommandTypes
    <2> QED
      BY <2>1, <2>2 DEF AudioInv, Types, CommandTypes
  <1>4. Ownership' /\ Session' /\ Epoch' /\ InHand'
    BY DEF RequestStartCheck, SubmitGoes, ProducerGoes, deviceVars, Command, AudioInv,
           Ownership, Session, Epoch, Opened, InHand, Awaited, Served, Asked
  <1>5. Queued'
    <2>1. CASE startCheckPending
      BY <2>1 DEF RequestStartCheck, SubmitGoes, ProducerGoes, AudioInv, Queued, Awaited, Asked,
                 Ownership, InSubmit
    <2>2. CASE ~startCheckPending
      <3>1. PICK c : c = Command("check", 0, FALSE)
        OBVIOUS
      <3>2. c \in Commands /\ c.at = "check" /\ ~c.waits
        BY <3>1, AudioBounds DEF Command, Commands, ControlPoints, Generations
      <3>3. commands' = Append(commands, c) /\ startCheckPending'
        BY <2>2, <3>1 DEF RequestStartCheck
      <3>4. /\ Len(commands') = Len(commands) + 1 /\ Len(commands) \in Nat
            /\ \A i \in 1..Len(commands) : commands'[i] = commands[i]
            /\ commands'[Len(commands) + 1] = c
        BY <3>2, <3>3, SendAdds DEF AudioInv, Types
      <3>5. \A i \in 1..Len(commands) : commands[i].waits
        BY <2>2 DEF AudioInv, Queued
      <3>6. UNCHANGED <<lock, answered, gui, generation>> /\ producer = "startCheck"
        BY DEF RequestStartCheck, SubmitGoes, ProducerGoes
      <3>7. \A i \in 1..Len(commands) :
              /\ Awaited' /\ Asked(commands[i].at)'
              /\ commands[i].at = "reset" => commands[i].generation = generation'
        BY <3>4, <3>5, <3>6 DEF RequestStartCheck, SubmitGoes, ProducerGoes, AudioInv, Queued,
                                Awaited, Asked
      <3> QED
        BY <3>2, <3>3, <3>4, <3>5, <3>7 DEF AudioInv, Queued
    <2> QED
      BY <2>1, <2>2 DEF AudioInv, Types, CommandTypes
  <1>6. Silence'
    BY DEF RequestStartCheck, SubmitGoes, ProducerGoes, deviceVars, Command, AudioInv, Silence,
           Silent, Sounding, PausePending
  <1>7. Submission'
    BY DEF RequestStartCheck, SubmitGoes, ProducerGoes, deviceVars, Command, AudioInv,
           Submission, Holds, InSubmit
  <1> QED
    BY <1>1, <1>2, <1>3, <1>4, <1>5, <1>6, <1>7 DEF AudioInv, Types

-------------------------------------------------------------------------------
(* The control thread. *)

LEMMA TakeCommandKeeps ==
  ASSUME AudioInv, TakeCommand
  PROVE  AudioInv'
  <1>1. /\ SessionTypes' /\ ProducerTypes' /\ sink' \in Sinks /\ queue' \in Queues
        /\ DeviceTypes' /\ Ownership' /\ Session' /\ Epoch' /\ Ring' /\ Submission'
    BY Unchanged DEF TakeCommand, sessionVars, producerVars, deviceVars
  <1>2. CommandTypes'
    <2>1. /\ commands' \in Seq(Commands) /\ control' \in Commands /\ control' = commands[1]
          /\ Len(commands) \in Nat \ {0} /\ Len(commands') = Len(commands) - 1
          /\ \A i \in 1..Len(commands') : commands'[i] = commands[i + 1]
      BY TakeRemoves DEF TakeCommand, AudioInv, Types
    <2> QED
      BY <2>1 DEF TakeCommand, AudioInv, Types, CommandTypes
  <1>3. Queued'
    <2>1. /\ commands' \in Seq(Commands) /\ control' \in Commands /\ control' = commands[1]
          /\ Len(commands) \in Nat \ {0} /\ Len(commands') = Len(commands) - 1
          /\ \A i \in 1..Len(commands') : commands'[i] = commands[i + 1]
      BY TakeRemoves DEF TakeCommand, AudioInv, Types
    <2>2. UNCHANGED <<lock, answered, producer, gui, generation, startCheckPending>>
      BY DEF TakeCommand, sessionVars, producerVars
    <2>3. ASSUME NEW i \in 1..Len(commands')
          PROVE  IF commands'[i].waits
                 THEN /\ Awaited' /\ Asked(commands[i].at)'
                      /\ commands'[i].at = "reset" => commands'[i].generation = generation
                 ELSE commands'[i].at = "check" /\ startCheckPending
      <3>1. i + 1 \in 1..Len(commands) /\ commands'[i] = commands[i + 1]
        BY <2>1
      <3> QED
        BY <2>2, <3>1 DEF AudioInv, Queued, Awaited, Asked
    <2>4. ASSUME NEW i \in 1..Len(commands'), NEW j \in 1..Len(commands'),
                 commands'[i].waits = commands'[j].waits
          PROVE  i = j
      <3>1. /\ i + 1 \in 1..Len(commands) /\ commands'[i] = commands[i + 1]
            /\ j + 1 \in 1..Len(commands) /\ commands'[j] = commands[j + 1]
        BY <2>1
      <3>2. i + 1 = j + 1
        BY <2>4, <3>1 DEF AudioInv, Queued
      <3> QED
        BY <3>2
    <2> QED
      BY <2>2, <2>3, <2>4 DEF Queued
  <1>4. InHand'
    <2>1. /\ commands' \in Seq(Commands) /\ control' \in Commands /\ control' = commands[1]
          /\ Len(commands) \in Nat \ {0} /\ Len(commands') = Len(commands) - 1
          /\ \A i \in 1..Len(commands') : commands'[i] = commands[i + 1]
      BY TakeRemoves DEF TakeCommand, AudioInv, Types
    <2>2. UNCHANGED <<lock, answered, producer, gui, generation, startCheckPending>>
      BY DEF TakeCommand, sessionVars, producerVars
    <2>3. \A i \in 1..Len(commands') :
            i + 1 \in 1..Len(commands) /\ commands'[i].waits # control'.waits
      <3> SUFFICES ASSUME NEW i \in 1..Len(commands')
                   PROVE  i + 1 \in 1..Len(commands) /\ commands'[i].waits # control'.waits
        OBVIOUS
      <3>1. i + 1 \in 1..Len(commands) /\ 1 \in 1..Len(commands) /\ i + 1 # 1
        BY <2>1
      <3>2. commands[i + 1].waits # commands[1].waits
        BY <3>1 DEF AudioInv, Queued
      <3> QED
        BY <2>1, <3>1, <3>2
    <2>4. 1 \in 1..Len(commands)
      BY <2>1
    <2>5. IF control'.waits
          THEN /\ Awaited' /\ Asked(control.at)'
               /\ control'.at = "reset" => control'.generation = generation
          ELSE control'.at = "check" /\ startCheckPending
      BY <2>1, <2>2, <2>4 DEF AudioInv, Queued, Awaited, Asked
    <2>6. \A i \in 1..Len(commands') : commands'[i] \in Commands
      BY <2>1
    <2> QED
      BY <2>1, <2>2, <2>3, <2>5, <2>6 DEF InHand, Served, Asked, Commands
  <1>5. Silence'
    <2>1. /\ commands' \in Seq(Commands) /\ control' \in Commands /\ control' = commands[1]
          /\ Len(commands) \in Nat \ {0} /\ Len(commands') = Len(commands) - 1
          /\ \A i \in 1..Len(commands') : commands'[i] = commands[i + 1]
      BY TakeRemoves DEF TakeCommand, AudioInv, Types
    <2>2. UNCHANGED <<output, queue, stream, sink, producer, gui, answered, intent, provoked>>
      BY DEF TakeCommand, sessionVars, producerVars, deviceVars
    <2>3. PausePending => PausePending'
      <3> SUFFICES ASSUME PausePending PROVE PausePending'
        OBVIOUS
      <3>1. PICK i \in 1..Len(commands) : commands[i].at = "pause"
        BY DEF TakeCommand, PausePending
      <3>2. CASE i = 1
        BY <2>1, <3>1, <3>2 DEF PausePending
      <3>3. CASE i # 1
        <4>1. i - 1 \in 1..Len(commands') /\ (i - 1) + 1 = i
          BY <2>1, <3>3
        <4> QED
          BY <2>1, <3>1, <4>1 DEF PausePending
      <3> QED
        BY <3>2, <3>3
    <2>4. control.at = "idle" /\ control'.at \notin {"epoch", "destroy"}
      <3>1. 1 \in 1..Len(commands)
        BY <2>1
      <3> QED
        BY <2>1, <3>1 DEF TakeCommand, AudioInv, Queued, Asked
    <2> QED
      BY <2>2, <2>3, <2>4 DEF AudioInv, Silence, Silent, Sounding
  <1> QED
    BY <1>1, <1>2, <1>3, <1>4, <1>5 DEF AudioInv, Types

(* Reset keeps the invariant. *)
LEMMA ResetKeeps ==
  ASSUME AudioInv, Reset
  PROVE  AudioInv'
  <1>1. ProducerTypes' /\ Session'
    BY Unchanged DEF Reset, Done, ControlGoes, sessionVars, producerVars
  <1>2. SessionTypes'
    BY DEF Reset, Done, ControlGoes, NoCommand, Command, sessionVars, producerVars, Awake,
           NoRender, AudioInv, Types, SessionTypes, GuiPoints
  <1>3. sink' \in Sinks /\ CommandTypes'
    BY AudioBounds DEF Reset, Done, ControlGoes, NoCommand, Command, sessionVars, producerVars,
                       Awake, NoRender, AudioInv, Types, Sinks, CommandTypes, Commands,
                       Generations, ControlPoints
  <1>4. queue' \in Queues
    <2>1. PICK opened \in BOOLEAN :
            queue' = [Awake(queue) EXCEPT !.open = opened, !.write = 0, !.read = 0,
                        !.generation = control.generation, !.produced = 0]
      BY DEF Reset
    <2>2. control.generation \in Generations /\ 0 \in Frames
      BY AudioBounds DEF AudioInv, Types, CommandTypes, Commands, Frames
    <2>3. Awake(queue) \in Queues
      BY DEF Awake, AudioInv, Types, Queues
    <2> QED
      BY <2>1, <2>2, <2>3 DEF Queues
  <1>5. DeviceTypes'
    BY DEF Reset, Done, ControlGoes, NoCommand, Command, sessionVars, producerVars, Awake,
           NoRender, AudioInv, Types, DeviceTypes
  <1>6. Ownership' /\ Epoch' /\ Queued' /\ InHand'
    BY DEF Reset, Done, ControlGoes, NoCommand, Command, sessionVars, producerVars, Awake,
           NoRender, AudioInv, Ownership, InHand, Awaited, Epoch, Opened, Served, Asked, Types,
           CommandTypes, Commands, Queued
  <1>7. Silence'
    BY DEF Reset, Done, ControlGoes, NoCommand, Command, sessionVars, producerVars, Awake,
           NoRender, AudioInv, Silence, Silent, Sounding, PausePending, InHand, Served, Asked,
           Awaited, Session, Ownership, Types, SessionTypes, CommandTypes, Commands, Sinks
  <1>8. Ring'
    BY AudioBounds DEF Reset, Done, ControlGoes, NoCommand, Command, sessionVars, producerVars,
                       Awake, NoRender, AudioInv, Ring, Holds
  <1>9. Submission'
    <2>1. queue'.write = 0 /\ queue'.produced = 0
      BY DEF Reset, Awake, AudioInv, Types, Queues
    <2>2. producer = "reset" /\ UNCHANGED producer
      BY DEF Reset, Done, ControlGoes, producerVars, AudioInv, InHand, Served, Asked
    <2> QED
      BY <2>1, <2>2 DEF Submission, InSubmit
  <1> QED
    BY <1>1, <1>2, <1>3, <1>4, <1>5, <1>6, <1>7, <1>8, <1>9 DEF AudioInv, Types

(* Cancel keeps the invariant. *)
LEMMA CancelKeeps ==
  ASSUME AudioInv, Cancel
  PROVE  AudioInv'
  <1>1. SessionTypes' /\ ProducerTypes' /\ DeviceTypes' /\ Ownership' /\ Queued' /\ Session'
    BY Unchanged DEF Cancel, ControlGoes, sessionVars, producerVars, deviceVars
  <1>2. sink' \in Sinks /\ CommandTypes' /\ queue' \in Queues
    BY DEF Cancel, ControlGoes, NoCommand, Command, sessionVars, producerVars, Closed,
           deviceVars, AudioInv, Types, Sinks, CommandTypes, Commands, ControlPoints, Queues
  <1>3. Epoch' /\ InHand'
    BY DEF Cancel, ControlGoes, NoCommand, Command, sessionVars, producerVars, Closed,
           deviceVars, AudioInv, Epoch, Opened, InHand, Awaited, Served, Asked
  <1>4. Silence'
    <2>1. control.waits /\ Awaited /\ gui = "replaceWait" /\ output = 0
      BY DEF Cancel, AudioInv, InHand, Served, Asked, Session
    <2>2. /\ sink' = [sink EXCEPT !.wanted = FALSE, !.ready = FALSE]
          /\ ~queue'.open /\ control'.at = "epoch"
          /\ UNCHANGED <<output, gui, answered, stream, provoked>>
      BY DEF Cancel, Closed, ControlGoes, sessionVars, deviceVars, AudioInv, Types, Queues,
             CommandTypes, Commands
    <2>3. ~sink'.ready /\ UNCHANGED <<sink.started, sink.ignoreDrain>>
      BY <2>2 DEF AudioInv, Types, Sinks
    <2> QED
      BY <2>1, <2>2, <2>3 DEF AudioInv, Silence, Silent, Sounding, Awaited
  <1>5. Ring' /\ Submission'
    BY DEF Cancel, ControlGoes, NoCommand, Command, sessionVars, producerVars, Closed,
           deviceVars, AudioInv, Ring, Holds, Submission, InSubmit
  <1> QED
    BY <1>1, <1>2, <1>3, <1>4, <1>5 DEF AudioInv, Types

(* CancelEpoch keeps the invariant. *)
LEMMA CancelEpochKeeps ==
  ASSUME AudioInv, CancelEpoch
  PROVE  AudioInv'
  <1>1. /\ SessionTypes' /\ ProducerTypes' /\ sink' \in Sinks /\ DeviceTypes' /\ Ownership'
        /\ Queued' /\ Session'
    BY Unchanged DEF CancelEpoch, ControlGoes, sessionVars, producerVars, deviceVars
  <1>2. CommandTypes' /\ queue' \in Queues
    BY DEF CancelEpoch, ControlGoes, NoCommand, Command, sessionVars, producerVars, Awake,
           deviceVars, AudioInv, Types, CommandTypes, Commands, ControlPoints, Queues
  <1>3. Epoch' /\ InHand'
    BY DEF CancelEpoch, ControlGoes, NoCommand, Command, sessionVars, producerVars, Awake,
           deviceVars, AudioInv, Epoch, Opened, InHand, Awaited, Served, Asked
  <1>4. Silence'
    BY DEF CancelEpoch, ControlGoes, NoCommand, Command, sessionVars, producerVars, Awake,
           deviceVars, AudioInv, Silence, Silent, Sounding, PausePending
  <1>5. Ring' /\ Submission'
    BY DEF CancelEpoch, ControlGoes, NoCommand, Command, sessionVars, producerVars, Awake,
           deviceVars, AudioInv, Ring, Holds, Submission, InSubmit
  <1> QED
    BY <1>1, <1>2, <1>3, <1>4, <1>5 DEF AudioInv, Types

(* Destroy keeps the invariant. *)
LEMMA DestroyKeeps ==
  ASSUME AudioInv, Destroy
  PROVE  AudioInv'
  <1>1. ProducerTypes' /\ queue' \in Queues /\ Session' /\ Ring' /\ Submission'
    BY Unchanged DEF Destroy, Done, ControlGoes, sessionVars, producerVars
  <1>2. SessionTypes'
    BY DEF Destroy, Done, ControlGoes, NoCommand, Command, sessionVars, producerVars, NoRender,
           AudioInv, Types, SessionTypes, GuiPoints
  <1>3. sink' \in Sinks
    <2>1. 0 \in Generations
      BY AudioBounds DEF Generations
    <2> QED
      BY <2>1 DEF Destroy, AudioInv, Types, Sinks
  <1>4. CommandTypes'
    BY AudioBounds DEF Destroy, Done, ControlGoes, NoCommand, Command, sessionVars,
                       producerVars, NoRender, AudioInv, Types, CommandTypes, Commands,
                       ControlPoints, Generations
  <1>5. DeviceTypes'
    BY DEF Destroy, Done, ControlGoes, NoCommand, Command, sessionVars, producerVars, NoRender,
           AudioInv, Types, DeviceTypes
  <1>6. Ownership' /\ Epoch' /\ Queued' /\ InHand'
    BY AudioBounds DEF Destroy, Done, ControlGoes, NoCommand, Command, sessionVars,
                       producerVars, NoRender, AudioInv, Ownership, InHand, Awaited, Epoch,
                       Opened, Session, Types, SessionTypes, ProducerTypes, CommandTypes,
                       Served, Asked, InSubmit, ProducerPoints, Queues, Queued
  <1>7. Silence'
    BY DEF Destroy, Done, ControlGoes, NoCommand, Command, sessionVars, producerVars, NoRender,
           AudioInv, Silence, Silent, Sounding, PausePending
  <1> QED
    BY <1>1, <1>2, <1>3, <1>4, <1>5, <1>6, <1>7 DEF AudioInv, Types

(* FinishEpoch keeps the invariant. *)
LEMMA FinishEpochKeeps ==
  ASSUME AudioInv, FinishEpoch
  PROVE  AudioInv'
  <1>1. /\ SessionTypes' /\ ProducerTypes' /\ queue' \in Queues /\ DeviceTypes' /\ Ownership'
        /\ Queued' /\ Session' /\ Ring' /\ Submission'
    BY Unchanged DEF FinishEpoch, ControlGoes, sessionVars, producerVars, deviceVars
  <1>2. sink' \in Sinks /\ CommandTypes'
    BY DEF FinishEpoch, ControlGoes, NoCommand, Command, sessionVars, producerVars, deviceVars,
           AudioInv, Types, Sinks, CommandTypes, Commands, ControlPoints
  <1>3. Epoch' /\ InHand'
    BY DEF FinishEpoch, ControlGoes, NoCommand, Command, sessionVars, producerVars, deviceVars,
           AudioInv, Epoch, Opened, InHand, Awaited, Served, Asked
  <1>4. Silence'
    BY DEF FinishEpoch, ControlGoes, NoCommand, Command, sessionVars, producerVars, deviceVars,
           AudioInv, Silence, Silent, Sounding, PausePending
  <1> QED
    BY <1>1, <1>2, <1>3, <1>4 DEF AudioInv, Types

(* StartCheck keeps the invariant. *)
LEMMA StartCheckKeeps ==
  ASSUME AudioInv, StartCheck
  PROVE  AudioInv'
  <1>1. /\ SessionTypes' /\ ProducerTypes' /\ sink' \in Sinks /\ queue' \in Queues
        /\ DeviceTypes' /\ Ownership' /\ Session' /\ Epoch' /\ Ring' /\ Submission'
    BY Unchanged DEF StartCheck, sessionVars, producerVars, deviceVars
  <1>2. CommandTypes'
    BY DEF StartCheck, sessionVars, producerVars, deviceVars, AudioInv, Types, CommandTypes,
           Commands, ControlPoints
  <1>3. Queued' /\ InHand'
    BY DEF StartCheck, sessionVars, producerVars, deviceVars, AudioInv, Queued, Awaited, Asked,
           Ownership, InHand, Served
  <1>4. Silence'
    BY DEF StartCheck, sessionVars, producerVars, deviceVars, AudioInv, Silence, Silent,
           Sounding, PausePending
  <1> QED
    BY <1>1, <1>2, <1>3, <1>4 DEF AudioInv, Types

(* StayStopped keeps the invariant. *)
LEMMA StayStoppedKeeps ==
  ASSUME AudioInv, StayStopped
  PROVE  AudioInv'
  <1>1. /\ ProducerTypes' /\ sink' \in Sinks /\ queue' \in Queues /\ DeviceTypes' /\ Session'
        /\ Ring' /\ Submission'
    BY Unchanged DEF StayStopped, Done, ControlGoes, sessionVars, producerVars, deviceVars
  <1>2. SessionTypes' /\ CommandTypes'
    BY AudioBounds DEF StayStopped, Done, ControlGoes, NoCommand, Command, sessionVars,
                       producerVars, MayStart, deviceVars, AudioInv, Types, SessionTypes,
                       GuiPoints, CommandTypes, Commands, ControlPoints, Generations
  <1>3. Ownership' /\ Epoch' /\ Queued' /\ InHand'
    BY AudioBounds DEF StayStopped, Done, ControlGoes, NoCommand, Command, sessionVars,
                       producerVars, MayStart, deviceVars, AudioInv, Ownership, InHand, Awaited,
                       Epoch, Opened, Session, Types, SessionTypes, ProducerTypes, CommandTypes,
                       Served, Asked, InSubmit, ProducerPoints, Queues, Queued
  <1>4. Silence'
    BY DEF StayStopped, Done, ControlGoes, NoCommand, Command, sessionVars, producerVars,
           MayStart, deviceVars, AudioInv, Silence, Silent, Sounding, PausePending, InHand,
           Served, Asked, Awaited, Session, Ownership, Types, SessionTypes, CommandTypes,
           Commands, Sinks
  <1> QED
    BY <1>1, <1>2, <1>3, <1>4 DEF AudioInv, Types

(* StartStream keeps the invariant. *)
LEMMA StartStreamKeeps ==
  ASSUME AudioInv, StartStream
  PROVE  AudioInv'
  <1>1. /\ SessionTypes' /\ ProducerTypes' /\ queue' \in Queues /\ Ownership' /\ Queued'
        /\ Session' /\ Ring' /\ Submission'
    BY Unchanged DEF StartStream, ControlGoes, sessionVars, producerVars
  <1>2. sink' \in Sinks /\ CommandTypes' /\ DeviceTypes'
    BY DEF StartStream, ControlGoes, NoCommand, Command, sessionVars, producerVars, MayStart,
           AudioInv, Types, Sinks, CommandTypes, Commands, ControlPoints, DeviceTypes
  <1>3. Epoch' /\ InHand'
    BY DEF StartStream, ControlGoes, NoCommand, Command, sessionVars, producerVars, MayStart,
           AudioInv, Epoch, Opened, InHand, Awaited, Served, Asked
  <1>4. Silence'
    <2>1. /\ sink' = [sink EXCEPT !.ignoreDrain = FALSE, !.started = TRUE]
          /\ stream' = "running" /\ ~provoked' /\ sink.wanted /\ sink.ready
          /\ control.at = "start" /\ control'.at = "started"
          /\ UNCHANGED <<output, gui, answered, queue, producer, intent>>
      BY DEF StartStream, MayStart, ControlGoes, sessionVars, producerVars, AudioInv, Types,
             CommandTypes, Commands
    <2>2. sink'.started /\ UNCHANGED <<sink.wanted, sink.ready>>
      BY <2>1 DEF AudioInv, Types, Sinks
    <2> QED
      BY <2>1, <2>2 DEF AudioInv, Silence, Silent, Sounding
  <1> QED
    BY <1>1, <1>2, <1>3, <1>4 DEF AudioInv, Types

(* StartFails keeps the invariant. *)
LEMMA StartFailsKeeps ==
  ASSUME AudioInv, StartFails
  PROVE  AudioInv'
  <1>1. SessionTypes' /\ ProducerTypes' /\ DeviceTypes' /\ Ownership' /\ Queued' /\ Session'
    BY Unchanged DEF StartFails, ControlGoes, sessionVars, producerVars, deviceVars
  <1>2. sink' \in Sinks /\ CommandTypes' /\ queue' \in Queues
    BY DEF StartFails, ControlGoes, NoCommand, Command, sessionVars, producerVars, Closed,
           FailedEpoch, MayStart, deviceVars, AudioInv, Types, Sinks, CommandTypes, Commands,
           ControlPoints, Queues
  <1>3. Epoch' /\ InHand'
    BY DEF StartFails, ControlGoes, NoCommand, Command, sessionVars, producerVars, Closed,
           FailedEpoch, MayStart, deviceVars, AudioInv, Epoch, Opened, InHand, Awaited, Served,
           Asked
  <1>4. Silence'
    <2>1. /\ sink' = FailedEpoch(sink) /\ ~queue'.open /\ sink.wanted /\ sink.ready
          /\ control.at = "start" /\ control'.at = "failing"
          /\ UNCHANGED <<output, gui, answered, stream, provoked, producer, intent>>
      BY DEF StartFails, MayStart, ControlGoes, Closed, sessionVars, producerVars, deviceVars,
             AudioInv, Types, CommandTypes, Commands, Queues
    <2>2. ~sink'.ready /\ ~sink.started /\ UNCHANGED <<sink.wanted, sink.ignoreDrain>>
      BY <2>1 DEF StartFails, MayStart, FailedEpoch, AudioInv, Types, Sinks
    <2> QED
      BY <2>1, <2>2 DEF AudioInv, Silence, Silent, Sounding
  <1>5. Ring' /\ Submission'
    BY DEF StartFails, ControlGoes, NoCommand, Command, sessionVars, producerVars, Closed,
           FailedEpoch, MayStart, deviceVars, AudioInv, Ring, Holds, Submission, InSubmit
  <1> QED
    BY <1>1, <1>2, <1>3, <1>4, <1>5 DEF AudioInv, Types

(* Started keeps the invariant. *)
LEMMA StartedKeeps ==
  ASSUME AudioInv, Started
  PROVE  AudioInv'
  <1>1. /\ ProducerTypes' /\ queue' \in Queues /\ DeviceTypes' /\ Session' /\ Ring'
        /\ Submission'
    BY Unchanged DEF Started, Done, ControlGoes, sessionVars, producerVars, deviceVars
  <1>2. SessionTypes'
    BY DEF Started, Done, ControlGoes, NoCommand, Command, sessionVars, producerVars,
           deviceVars, AudioInv, Types, SessionTypes, GuiPoints
  <1>3. sink' \in Sinks
    BY DEF Started, Done, ControlGoes, NoCommand, Command, sessionVars, producerVars,
           deviceVars, AudioInv, Types, Sinks
  <1>4. CommandTypes'
    BY AudioBounds DEF Started, Done, ControlGoes, NoCommand, Command, sessionVars,
                       producerVars, deviceVars, AudioInv, Types, CommandTypes, Commands,
                       ControlPoints, Generations
  <1>5. Ownership' /\ Epoch' /\ Queued' /\ InHand'
    BY AudioBounds DEF Started, Done, ControlGoes, NoCommand, Command, sessionVars,
                       producerVars, deviceVars, AudioInv, Ownership, InHand, Awaited, Epoch,
                       Opened, Session, Types, SessionTypes, ProducerTypes, CommandTypes,
                       Served, Asked, InSubmit, ProducerPoints, Queues, Queued
  <1>6. Silence'
    BY DEF Started, Done, ControlGoes, NoCommand, Command, sessionVars, producerVars,
           deviceVars, AudioInv, Silence, Silent, Sounding, PausePending, InHand, Served, Asked,
           Awaited, Session, Ownership, Types, SessionTypes, CommandTypes, Commands, Sinks
  <1> QED
    BY <1>1, <1>2, <1>3, <1>4, <1>5, <1>6 DEF AudioInv, Types

(* Failing keeps the invariant. *)
LEMMA FailingKeeps ==
  ASSUME AudioInv, Failing
  PROVE  AudioInv'
  <1>1. ProducerTypes' /\ sink' \in Sinks /\ DeviceTypes' /\ Session'
    BY Unchanged DEF Failing, Done, ControlGoes, sessionVars, producerVars, deviceVars
  <1>2. SessionTypes'
    BY DEF Failing, Done, ControlGoes, NoCommand, Command, sessionVars, producerVars, Awake,
           deviceVars, AudioInv, Types, SessionTypes, GuiPoints
  <1>3. CommandTypes'
    BY AudioBounds DEF Failing, Done, ControlGoes, NoCommand, Command, sessionVars,
                       producerVars, Awake, deviceVars, AudioInv, Types, CommandTypes, Commands,
                       ControlPoints, Generations
  <1>4. queue' \in Queues
    BY DEF Failing, Done, ControlGoes, NoCommand, Command, sessionVars, producerVars, Awake,
           deviceVars, AudioInv, Types, Queues
  <1>5. Ownership' /\ Epoch' /\ Queued' /\ InHand'
    BY AudioBounds DEF Failing, Done, ControlGoes, NoCommand, Command, sessionVars,
                       producerVars, Awake, deviceVars, AudioInv, Ownership, InHand, Awaited,
                       Epoch, Opened, Session, Types, SessionTypes, ProducerTypes, CommandTypes,
                       Served, Asked, InSubmit, ProducerPoints, Queues, Queued
  <1>6. Silence'
    BY DEF Failing, Done, ControlGoes, NoCommand, Command, sessionVars, producerVars, Awake,
           deviceVars, AudioInv, Silence, Silent, Sounding, PausePending, InHand, Served, Asked,
           Awaited, Session, Ownership, Types, SessionTypes, CommandTypes, Commands, Sinks
  <1>7. Ring' /\ Submission'
    BY DEF Failing, Done, ControlGoes, NoCommand, Command, sessionVars, producerVars, Awake,
           deviceVars, AudioInv, Ring, Holds, Submission, InSubmit
  <1> QED
    BY <1>1, <1>2, <1>3, <1>4, <1>5, <1>6, <1>7 DEF AudioInv, Types

(* PauseStopped keeps the invariant. *)
LEMMA PauseStoppedKeeps ==
  ASSUME AudioInv, PauseStopped
  PROVE  AudioInv'
  <1>1. /\ ProducerTypes' /\ sink' \in Sinks /\ queue' \in Queues /\ DeviceTypes' /\ Session'
        /\ Ring' /\ Submission'
    BY Unchanged DEF PauseStopped, Done, ControlGoes, sessionVars, producerVars, deviceVars
  <1>2. SessionTypes' /\ CommandTypes'
    BY AudioBounds DEF PauseStopped, Done, ControlGoes, NoCommand, Command, sessionVars,
                       producerVars, deviceVars, AudioInv, Types, SessionTypes, GuiPoints,
                       CommandTypes, Commands, ControlPoints, Generations
  <1>3. Ownership' /\ Epoch' /\ Queued' /\ InHand'
    BY AudioBounds DEF PauseStopped, Done, ControlGoes, NoCommand, Command, sessionVars,
                       producerVars, deviceVars, AudioInv, Ownership, InHand, Awaited, Epoch,
                       Opened, Session, Types, SessionTypes, ProducerTypes, CommandTypes,
                       Served, Asked, InSubmit, ProducerPoints, Queues, Queued
  <1>4. Silence'
    BY DEF PauseStopped, Done, ControlGoes, NoCommand, Command, sessionVars, producerVars,
           deviceVars, AudioInv, Silence, Silent, Sounding, PausePending, InHand, Served, Asked,
           Awaited, Session, Ownership, Types, SessionTypes, CommandTypes, Commands, Sinks
  <1> QED
    BY <1>1, <1>2, <1>3, <1>4 DEF AudioInv, Types

(* Pause keeps the invariant. *)
LEMMA PauseKeeps ==
  ASSUME AudioInv, Pause
  PROVE  AudioInv'
  <1>1. ProducerTypes' /\ queue' \in Queues /\ Session' /\ Ring' /\ Submission'
    BY Unchanged DEF Pause, Done, ControlGoes, sessionVars, producerVars
  <1>2. SessionTypes'
    BY DEF Pause, Done, ControlGoes, NoCommand, Command, sessionVars, producerVars, PausedSink,
           AudioInv, Types, SessionTypes, GuiPoints
  <1>3. sink' \in Sinks
    BY DEF Pause, Done, ControlGoes, NoCommand, Command, sessionVars, producerVars, PausedSink,
           AudioInv, Types, Sinks
  <1>4. CommandTypes'
    BY AudioBounds DEF Pause, Done, ControlGoes, NoCommand, Command, sessionVars, producerVars,
                       PausedSink, AudioInv, Types, CommandTypes, Commands, ControlPoints,
                       Generations
  <1>5. DeviceTypes'
    BY DEF Pause, Done, ControlGoes, NoCommand, Command, sessionVars, producerVars, PausedSink,
           AudioInv, Types, DeviceTypes
  <1>6. Ownership' /\ Epoch' /\ Queued' /\ InHand'
    BY AudioBounds DEF Pause, Done, ControlGoes, NoCommand, Command, sessionVars, producerVars,
                       PausedSink, AudioInv, Ownership, InHand, Awaited, Epoch, Opened, Session,
                       Types, SessionTypes, ProducerTypes, CommandTypes, Served, Asked,
                       InSubmit, ProducerPoints, Queues, Queued
  <1>7. Silence'
    BY DEF Pause, Done, ControlGoes, NoCommand, Command, sessionVars, producerVars, PausedSink,
           AudioInv, Silence, Silent, Sounding, PausePending, InHand, Served, Asked, Awaited,
           Session, Ownership, Types, SessionTypes, CommandTypes, Commands, Sinks
  <1> QED
    BY <1>1, <1>2, <1>3, <1>4, <1>5, <1>6, <1>7 DEF AudioInv, Types

(* PauseFails keeps the invariant. *)
LEMMA PauseFailsKeeps ==
  ASSUME AudioInv, PauseFails
  PROVE  AudioInv'
  <1>1. SessionTypes' /\ ProducerTypes' /\ Ownership' /\ Queued' /\ Session'
    BY Unchanged DEF PauseFails, ControlGoes, sessionVars, producerVars
  <1>2. sink' \in Sinks /\ CommandTypes' /\ queue' \in Queues /\ DeviceTypes'
    BY DEF PauseFails, ControlGoes, NoCommand, Command, sessionVars, producerVars, Closed,
           FailedEpoch, PausedSink, NoRender, AudioInv, Types, Sinks, CommandTypes, Commands,
           ControlPoints, Queues, DeviceTypes
  <1>3. Epoch' /\ InHand'
    BY DEF PauseFails, ControlGoes, NoCommand, Command, sessionVars, producerVars, Closed,
           FailedEpoch, PausedSink, NoRender, AudioInv, Epoch, Opened, InHand, Awaited, Served,
           Asked
  <1>4. Silence'
    BY DEF PauseFails, ControlGoes, NoCommand, Command, sessionVars, producerVars, Closed,
           FailedEpoch, PausedSink, NoRender, AudioInv, Silence, Silent, Sounding, PausePending
  <1>5. Ring' /\ Submission'
    BY DEF PauseFails, ControlGoes, NoCommand, Command, sessionVars, producerVars, Closed,
           FailedEpoch, PausedSink, NoRender, AudioInv, Ring, Holds, Submission, InSubmit
  <1> QED
    BY <1>1, <1>2, <1>3, <1>4, <1>5 DEF AudioInv, Types

-------------------------------------------------------------------------------
(* The device's callbacks. *)

LEMMA RenderLookKeeps ==
  ASSUME AudioInv, RenderLook
  PROVE  AudioInv'
  <1>1. /\ SessionTypes' /\ ProducerTypes' /\ sink' \in Sinks /\ CommandTypes'
        /\ queue' \in Queues /\ Ownership' /\ Queued' /\ InHand' /\ Session' /\ Epoch'
        /\ Silence' /\ Submission'
    BY Unchanged DEF RenderLook, DeviceStep, sessionVars, producerVars
  <1>2. DeviceTypes'
    <2>1. PICK frames \in 1..MaxRequest :
            LET available == IF queue.open THEN queue.write - queue.read ELSE 0
                media == IF frames < available THEN frames ELSE available
            IN callback' = [at |-> "consume", read |-> queue.read, media |-> media,
                            silent |-> frames - media]
      BY DEF RenderLook
    <2>2. PICK available \in Frames :
            available = IF queue.open THEN queue.write - queue.read ELSE 0
      BY AudioBounds DEF AudioInv, Types, Queues, Ring, Frames
    <2>3. PICK media \in Frames : /\ media = IF frames < available THEN frames ELSE available
                                 /\ frames - media \in 0..MaxRequest
      BY AudioBounds DEF Frames
    <2>4. callback' = [at |-> "consume", read |-> queue.read, media |-> media,
                       silent |-> frames - media]
      BY <2>1, <2>2, <2>3
    <2> QED
      BY <2>3, <2>4 DEF RenderLook, AudioInv, Types, Queues, Callbacks, DeviceTypes
  <1>3. Ring'
    <2>1. PICK frames \in 1..MaxRequest :
            LET available == IF queue.open THEN queue.write - queue.read ELSE 0
                media == IF frames < available THEN frames ELSE available
            IN callback' = [at |-> "consume", read |-> queue.read, media |-> media,
                            silent |-> frames - media]
      BY DEF RenderLook
    <2>2. callback'.read = queue.read /\ callback'.media <= queue.write - queue.read
      BY <2>1 DEF AudioInv, Types, Queues, Ring, Frames
    <2> QED
      BY <2>2 DEF RenderLook, AudioInv, Ring, Holds
  <1> QED
    BY <1>1, <1>2, <1>3 DEF AudioInv, Types

(* RenderConsume keeps the invariant. *)
LEMMA RenderConsumeKeeps ==
  ASSUME AudioInv, RenderConsume
  PROVE  AudioInv'
  <1>1. /\ SessionTypes' /\ ProducerTypes' /\ sink' \in Sinks /\ CommandTypes' /\ Ownership'
        /\ Queued' /\ InHand' /\ Session'
    BY Unchanged DEF RenderConsume, DeviceStep, sessionVars, producerVars
  <1>2. queue' \in Queues
    <2>1. /\ queue.read \in Nat /\ queue.write \in Nat /\ callback.read = queue.read
          /\ callback.media \in Nat /\ callback.media <= queue.write - queue.read
          /\ queue.write \in Frames /\ queue.read + callback.media \in Frames
      BY AudioBounds DEF RenderConsume, AudioInv, Types, Queues, Frames, Ring, DeviceTypes,
                         Callbacks
    <2>2. CASE callback.media = 0
      BY <2>2 DEF RenderConsume, AudioInv, Types
    <2>3. CASE callback.media # 0
      BY <2>1, <2>3 DEF RenderConsume, AudioInv, Types, Queues
    <2> QED
      BY <2>2, <2>3
  <1>3. DeviceTypes'
    BY DEF RenderConsume, DeviceStep, sessionVars, producerVars, AudioInv, Types, DeviceTypes,
           Callbacks
  <1>4. Epoch'
    BY DEF RenderConsume, DeviceStep, sessionVars, producerVars, AudioInv, Epoch, Opened
  <1>5. Silence'
    BY DEF RenderConsume, DeviceStep, sessionVars, producerVars, AudioInv, Silence, Silent,
           Sounding, PausePending
  <1>6. Ring'
    <2>1. /\ queue.read \in Int /\ queue.write \in Int /\ callback.media \in Nat
          /\ queue.write - queue.read <= Capacity /\ callback'.at = "return"
          /\ callback.media <= queue.write - queue.read /\ queue.read <= queue.write
      BY DEF RenderConsume, AudioInv, Types, Queues, Frames, Ring, DeviceTypes, Callbacks
    <2>2. /\ queue'.read = queue.read + callback.media
          /\ queue'.write = queue.write /\ queue'.ring = queue.ring
          /\ queue'.generation = queue.generation
      <3>1. CASE callback.media = 0
        BY <2>1, <3>1 DEF RenderConsume
      <3>2. CASE callback.media # 0
        BY <2>1, <3>2 DEF RenderConsume, AudioInv, Types, Queues, Ring
      <3> QED
        BY <3>1, <3>2
    <2>3. ASSUME NEW f \in queue'.read..(queue'.write - 1)
          PROVE  f \in queue.read..(queue.write - 1)
      BY <2>1, <2>2
    <2>4. Holds(queue.generation, queue.read, queue.write - 1)'
      BY <2>2, <2>3 DEF AudioInv, Ring, Holds
    <2>5. queue'.read <= queue'.write /\ queue'.write - queue'.read <= Capacity
      BY <2>1, <2>2, AudioBounds
    <2> QED
      BY <2>1, <2>4, <2>5 DEF Ring
  <1>7. Submission'
    <2>1. /\ queue.read \in Int /\ queue.write \in Int /\ callback.media \in Nat
          /\ queue'.read = queue.read + callback.media
          /\ queue'.write = queue.write /\ queue'.ring = queue.ring
          /\ queue'.produced = queue.produced
      BY DEF RenderConsume, AudioInv, Types, Queues, Frames, Ring, DeviceTypes, Callbacks
    <2>2. /\ UNCHANGED <<producer, block, seen, generation>>
          /\ seen \in Int /\ block \in Int /\ Capacity \in Int
      BY AudioBounds DEF RenderConsume, DeviceStep, producerVars, AudioInv, Types, ProducerTypes,
                         Frames, MaxSubmit
    <2>3. producer \in {"copy", "commit"} => seen + block - queue'.read <= Capacity
      BY <2>1, <2>2 DEF AudioInv, Submission
    <2> QED
      BY <2>1, <2>2, <2>3 DEF AudioInv, Submission, Holds
  <1> QED
    BY <1>1, <1>2, <1>3, <1>4, <1>5, <1>6, <1>7 DEF AudioInv, Types

(* RenderReturn keeps the invariant. *)
LEMMA RenderReturnKeeps ==
  ASSUME AudioInv, RenderReturn
  PROVE  AudioInv'
  <1>1. /\ SessionTypes' /\ ProducerTypes' /\ sink' \in Sinks /\ CommandTypes'
        /\ queue' \in Queues /\ Ownership' /\ Queued' /\ InHand' /\ Session' /\ Epoch'
        /\ Submission'
    BY Unchanged DEF RenderReturn, DeviceStep, sessionVars, producerVars
  <1>2. DeviceTypes'
    BY AudioBounds DEF RenderReturn, NoCallback, DeviceStep, sessionVars, producerVars,
                       AudioInv, Types, DeviceTypes, Callbacks, Frames
  <1>3. Silence'
    BY DEF RenderReturn, NoCallback, DeviceStep, sessionVars, producerVars, AudioInv, Silence,
           Silent, Sounding, PausePending
  <1>4. Ring'
    BY DEF RenderReturn, NoCallback, DeviceStep, sessionVars, producerVars, AudioInv, Ring,
           Holds
  <1> QED
    BY <1>1, <1>2, <1>3, <1>4 DEF AudioInv, Types

(* DeviceDrained keeps the invariant. *)
LEMMA DeviceDrainedKeeps ==
  ASSUME AudioInv, DeviceDrained
  PROVE  AudioInv'
  <1>1. /\ SessionTypes' /\ ProducerTypes' /\ CommandTypes' /\ queue' \in Queues /\ Ownership'
        /\ Queued' /\ InHand' /\ Session' /\ Ring' /\ Submission'
    BY Unchanged DEF DeviceDrained, DeviceStep, sessionVars, producerVars
  <1>2. sink' \in Sinks /\ DeviceTypes'
    BY DEF DeviceDrained, NoRender, DeviceStep, sessionVars, producerVars, AudioInv, Types,
           Sinks, DeviceTypes
  <1>3. Epoch'
    BY DEF DeviceDrained, NoRender, DeviceStep, sessionVars, producerVars, AudioInv, Epoch,
           Opened
  <1>4. Silence'
    BY DEF DeviceDrained, NoRender, DeviceStep, sessionVars, producerVars, AudioInv, Silence,
           Silent, Sounding, PausePending
  <1> QED
    BY <1>1, <1>2, <1>3, <1>4 DEF AudioInv, Types

(* DeviceFails keeps the invariant. *)
LEMMA DeviceFailsKeeps ==
  ASSUME AudioInv, DeviceFails
  PROVE  AudioInv'
  <1>1. /\ SessionTypes' /\ ProducerTypes' /\ CommandTypes' /\ Ownership' /\ Queued'
        /\ InHand' /\ Session'
    BY Unchanged DEF DeviceFails, DeviceStep, sessionVars, producerVars
  <1>2. sink' \in Sinks
    BY DEF DeviceFails, Closed, FailedEpoch, NoRender, NoCallback, DeviceStep, sessionVars,
           producerVars, AudioInv, Types, Sinks
  <1>3. queue' \in Queues
    BY DEF DeviceFails, Closed, FailedEpoch, NoRender, NoCallback, DeviceStep, sessionVars,
           producerVars, AudioInv, Types, Queues
  <1>4. DeviceTypes'
    BY AudioBounds DEF DeviceFails, Closed, FailedEpoch, NoRender, NoCallback, DeviceStep,
                       sessionVars, producerVars, AudioInv, Types, DeviceTypes, Callbacks,
                       Frames
  <1>5. Epoch'
    BY DEF DeviceFails, Closed, FailedEpoch, NoRender, NoCallback, DeviceStep, sessionVars,
           producerVars, AudioInv, Epoch, Opened
  <1>6. Silence'
    BY DEF DeviceFails, Closed, FailedEpoch, NoRender, NoCallback, DeviceStep, sessionVars,
           producerVars, AudioInv, Silence, Silent, Sounding, PausePending
  <1>7. Ring' /\ Submission'
    BY DEF DeviceFails, Closed, FailedEpoch, NoRender, NoCallback, DeviceStep, sessionVars,
           producerVars, AudioInv, Ring, Holds, Submission, InSubmit
  <1> QED
    BY <1>1, <1>2, <1>3, <1>4, <1>5, <1>6, <1>7 DEF AudioInv, Types

(* DeviceFailed keeps the invariant. *)
LEMMA DeviceFailedKeeps ==
  ASSUME AudioInv, DeviceFailed
  PROVE  AudioInv'
  <1>1. /\ SessionTypes' /\ ProducerTypes' /\ sink' \in Sinks /\ CommandTypes' /\ Ownership'
        /\ Queued' /\ InHand' /\ Session'
    BY Unchanged DEF DeviceFailed, DeviceStep, sessionVars, producerVars
  <1>2. queue' \in Queues
    BY DEF DeviceFailed, Awake, NoCallback, DeviceStep, sessionVars, producerVars, AudioInv,
           Types, Queues
  <1>3. DeviceTypes'
    BY AudioBounds DEF DeviceFailed, Awake, NoCallback, DeviceStep, sessionVars, producerVars,
                       AudioInv, Types, DeviceTypes, Callbacks, Frames
  <1>4. Epoch'
    BY DEF DeviceFailed, Awake, NoCallback, DeviceStep, sessionVars, producerVars, AudioInv,
           Epoch, Opened
  <1>5. Silence'
    BY DEF DeviceFailed, Awake, NoCallback, DeviceStep, sessionVars, producerVars, AudioInv,
           Silence, Silent, Sounding, PausePending
  <1>6. Ring' /\ Submission'
    BY DEF DeviceFailed, Awake, NoCallback, DeviceStep, sessionVars, producerVars, AudioInv,
           Ring, Holds, Submission, InSubmit
  <1> QED
    BY <1>1, <1>2, <1>3, <1>4, <1>5, <1>6 DEF AudioInv, Types

-------------------------------------------------------------------------------
(* The invariant holds, and what it says of the properties.                    *)

(* It holds before anything was played. *)
LEMMA InitInv == Init => AudioInv
  <1> SUFFICES ASSUME Init PROVE AudioInv
    OBVIOUS
  <1>1. 0 \in Generations /\ 0 \in Frames /\ 0 \in 0..MaxSubmit /\ Capacity \in Nat \ {0}
    BY AudioBounds DEF Generations, Frames, MaxSubmit
  <1>2. SessionTypes /\ ProducerTypes /\ sink \in Sinks
    BY <1>1 DEF Init, SessionTypes, ProducerTypes, Sinks, GuiPoints, Threads, ProducerPoints
  <1>3. CommandTypes
    <2>1. commands = <<>> /\ startCheckPending \in BOOLEAN
      BY DEF Init
    <2>2. <<>> \in Seq(Commands)
      OBVIOUS
    <2>3. control \in Commands
      BY <1>1 DEF Init, Commands, ControlPoints, NoCommand, Command
    <2> QED
      BY <2>1, <2>2, <2>3 DEF CommandTypes
  <1>4. queue \in Queues
    BY <1>1 DEF Init, Queues, Slots
  <1>5. DeviceTypes
    <2>1. 0 \in 0..MaxRequest
      BY AudioBounds
    <2>2. callback \in Callbacks
      BY <1>1, <2>1 DEF Init, Callbacks, NoCallback
    <2> QED
      BY <2>2 DEF Init, DeviceTypes
  <1>6. Ownership /\ Session /\ Epoch
    BY AudioBounds DEF Init, Ownership, Session, Epoch, Opened
  <1>7. Queued /\ InHand
    BY DEF Init, Queued, InHand, NoCommand, Command
  <1>8. Silence
    BY DEF Init, Silence, Silent, Sounding, NoCommand, Command
  <1>9. Ring /\ Submission
    BY <1>1 DEF Init, Ring, Holds, Submission, InSubmit, NoCallback
  <1> QED
    BY <1>2, <1>3, <1>4, <1>5, <1>6, <1>7, <1>8, <1>9 DEF AudioInv, Types

(* A step of nobody keeps it. *)
LEMMA StutterKeeps ==
  ASSUME AudioInv, UNCHANGED vars
  PROVE  AudioInv'
  BY Unchanged DEF vars, sessionVars, producerVars, controlVars, deviceVars, AudioInv, Types

(* Every step keeps it, whichever thread takes it. *)
LEMMA NextKeeps ==
  ASSUME AudioInv, [Next]_vars
  PROVE  AudioInv'
  <1>1. CASE Request \/ Gui
    BY <1>1, ReplaceKeeps, PlayPauseKeeps, CancelOutputKeeps, SubmitKeeps, ApplyIntentKeeps,
       CommandReturnsKeeps DEF Request, Gui
  <1>2. CASE Submitting
    BY <1>2, CheckEpochKeeps, EnterKeeps, FindRoomKeeps, LookAgainKeeps, WaitKeeps,
       CopySamplesKeeps, CommitKeeps, AccountKeeps, RecheckEpochKeeps, RequestStartCheckKeeps
       DEF Submitting
  <1>3. CASE Producer
    BY <1>2, <1>3, BeginOperationKeeps, OpenOutputKeeps, StartOutputKeeps, OutputStartedKeeps,
       NextBlockKeeps, FinishKeeps, FinishedKeeps DEF Producer
  <1>4. CASE Control
    BY <1>4, TakeCommandKeeps, ResetKeeps, CancelKeeps, CancelEpochKeeps, DestroyKeeps,
       FinishEpochKeeps, StartCheckKeeps, StayStoppedKeeps, StartStreamKeeps, StartFailsKeeps,
       StartedKeeps, FailingKeeps, PauseStoppedKeeps, PauseKeeps, PauseFailsKeeps DEF Control
  <1>5. CASE Device \/ DeviceFails
    BY <1>5, RenderLookKeeps, RenderConsumeKeeps, RenderReturnKeeps, DeviceDrainedKeeps,
       DeviceFailsKeeps, DeviceFailedKeeps DEF Device, Render
  <1> QED
    BY <1>1, <1>3, <1>4, <1>5, StutterKeeps DEF Next

(* So it always holds. *)
LEMMA InvAlways == Spec => []AudioInv
  <1>1. AudioInv /\ [Next]_vars => AudioInv'
    BY NextKeeps
  <1> QED
    BY InitInv, <1>1, PTL DEF Spec

(* Two commands that wait, or two that do not, are never queued together. *)
LEMMA CommandsAreFew ==
  ASSUME CommandTypes, Queued
  PROVE  Len(commands) <= 2
  <1> SUFFICES ASSUME Len(commands) > 2 PROVE FALSE
    BY DEF CommandTypes
  <1>1. 1 \in 1..Len(commands) /\ 2 \in 1..Len(commands) /\ 3 \in 1..Len(commands)
    BY DEF CommandTypes
  <1>2. \A i \in 1..Len(commands) : commands[i].waits \in BOOLEAN
    <2> SUFFICES ASSUME NEW i \in 1..Len(commands) PROVE commands[i].waits \in BOOLEAN
      OBVIOUS
    <2>1. commands[i] \in Commands
      BY DEF CommandTypes
    <2> QED
      BY <2>1 DEF Commands
  <1>3. \A i, j \in 1..Len(commands) : commands[i].waits = commands[j].waits => i = j
    BY DEF Queued
  <1>4. /\ commands[1].waits # commands[2].waits /\ commands[1].waits # commands[3].waits
        /\ commands[2].waits # commands[3].waits
    BY <1>1, <1>3
  <1> QED
    BY <1>1, <1>2, <1>4

(* Every state keeps its types and bounds, the coalesced start checks included *)
(* (CubebAudioSink::requestStartCheck).                                        *)
THEOREM TypeCorrect == Spec => []TypeOK
  <1>1. AudioInv => TypeOK
    BY CommandsAreFew DEF AudioInv, Types, TypeOK
  <1> QED
    BY <1>1, InvAlways, PTL

(* For every capacity, preroll and length, the frames the device is given are  *)
(* the frames submitted to the current epoch, in order and each once           *)
(* (RealtimePcmQueue::submitResult against consume, cancel and reset).         *)
THEOREM HeardInOrderAlways == Spec => []HeardInOrder
  <1>1. AudioInv => HeardInOrder
    <2> SUFFICES ASSUME AudioInv PROVE HeardInOrder
      OBVIOUS
    <2>1. TypeOK
      BY CommandsAreFew DEF AudioInv, Types, TypeOK
    <2>2. /\ queue.read \in Int /\ queue.write \in Int /\ callback.media \in Int
          /\ queue.read <= queue.write
      BY DEF AudioInv, Types, Queues, DeviceTypes, Callbacks, Frames, Ring
    <2>3. \A f \in queue.read..(queue.write - 1) :
            queue.ring[f % Capacity] = <<queue.generation, f>>
      BY DEF AudioInv, Ring, Holds
    <2>4. callback.at = "consume" =>
            /\ callback.read = queue.read
            /\ \A f \in callback.read..(callback.read + callback.media - 1) :
                 queue.ring[f % Capacity] = <<queue.generation, f>>
      <3> SUFFICES ASSUME callback.at = "consume",
                          NEW f \in callback.read..(callback.read + callback.media - 1)
                   PROVE  /\ callback.read = queue.read
                          /\ queue.ring[f % Capacity] = <<queue.generation, f>>
        BY DEF AudioInv, Ring
      <3>1. callback.read = queue.read /\ callback.media <= queue.write - queue.read
        BY DEF AudioInv, Ring
      <3>2. f \in queue.read..(queue.write - 1)
        BY <2>2, <3>1
      <3> QED
        BY <2>3, <3>1, <3>2
    <2> QED
      BY <2>1, <2>2, <2>3, <2>4 DEF HeardInOrder, AudioInv, Ring, Submission
  <1> QED
    BY <1>1, InvAlways, PTL

(* Once the session has cancelled its output nothing sounds, and nothing       *)
(* restarts the stream after pause() has returned, wherever the other threads  *)
(* are (CubebAudioSink::cancel, pause, maybeStart).                            *)
THEOREM SilenceIsAlwaysKept == Spec => []SilenceIsKept
  <1>1. AudioInv => SilenceIsKept
    <2> SUFFICES ASSUME AudioInv, lock = "none"
                 PROVE  /\ output = 0 => ~queue.open /\ stream = "none" /\ ~sink.ready
                        /\ stream \in {"running", "draining"} /\ gui # "playLock" => intent
      BY DEF SilenceIsKept
    <2>1. producer # "reset" /\ gui # "replaceWait"
      BY DEF AudioInv, Ownership
    <2>2. output = 0 => Silent
      BY <2>1 DEF AudioInv, Silence
    <2>3. ~PausePending /\ control.at \notin {"epoch", "destroy"}
      BY DEF AudioInv, Queued, InHand, Awaited, PausePending
    <2>4. Sounding => sink.wanted /\ output # 0
      BY <2>2, <2>3 DEF AudioInv, Silence, Silent, Sounding
    <2> QED
      BY <2>2, <2>4 DEF AudioInv, Silence, Silent, Sounding
  <1> QED
    BY <1>1, InvAlways, PTL

(* Only the end of the stream's data counts as drained, never the drain that   *)
(* a pause provokes (CubebAudioSink::handleState, m_ignoreDrainUntilStarted).  *)
THEOREM DrainsAreGenuine == Spec => DrainIsGenuine
  <1>1. AudioInv /\ [Next]_vars =>
          [~sink.drained /\ sink.drained' => stream = "draining"]_vars
    <2> SUFFICES ASSUME AudioInv, Next, ~sink.drained, sink.drained'
                 PROVE  stream = "draining"
      OBVIOUS
    <2> USE DEF AudioInv, Types, Sinks
    <2>1. CASE Request \/ Gui
      BY <2>1 DEF Request, Gui, Replace, PlayPause, CancelOutput, Submit, ApplyIntent,
                 CommandReturns, controlVars
    <2>2. CASE Submitting
      BY <2>2 DEF Submitting, CheckEpoch, Enter, FindRoom, LookAgain, Wait, CopySamples,
                 Commit, Account, RecheckEpoch, RequestStartCheck, SubmitGoes
    <2>3. CASE Producer
      BY <2>2, <2>3 DEF Producer, BeginOperation, OpenOutput, StartOutput, OutputStarted,
                       NextBlock, Finish, Finished, controlVars
    <2>4. CASE Control
      <3>1. CASE Reset
        <4>1. ~sink'.drained
          BY <3>1 DEF Reset
        <4> QED
          BY <4>1
      <3>2. CASE Destroy
        BY <3>2 DEF Destroy
      <3>3. CASE TakeCommand \/ CancelEpoch \/ StartCheck \/ StayStopped \/ Failing \/ PauseStopped
        BY <3>3 DEF TakeCommand, CancelEpoch, StartCheck, StayStopped, Failing, PauseStopped
      <3>4. CASE Cancel \/ FinishEpoch \/ StartStream \/ Started
        BY <3>4 DEF Cancel, FinishEpoch, StartStream, Started
      <3>5. CASE StartFails \/ Pause \/ PauseFails
        BY <3>5 DEF StartFails, Pause, PauseFails, FailedEpoch, PausedSink
      <3> QED
        BY <2>4, <3>1, <3>2, <3>3, <3>4, <3>5 DEF Control
    <2>5. CASE DeviceDrained
      BY <2>5 DEF DeviceDrained, Silence
    <2>6. CASE Render \/ DeviceFailed \/ DeviceFails
      BY <2>6 DEF Render, RenderLook, RenderConsume, RenderReturn, DeviceFailed, DeviceFails,
                 FailedEpoch
    <2> QED
      BY <2>1, <2>3, <2>4, <2>5, <2>6 DEF Next, Device
  <1> QED
    BY <1>1, InvAlways, PTL DEF Spec, DrainIsGenuine
===============================================================================
