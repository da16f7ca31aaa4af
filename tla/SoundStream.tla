---------------------------- MODULE SoundStream ----------------------------
(***************************************************************************)
(* The player's sound: the functions of audio_engine.cpp, called by one    *)
(* thread; the audio thread, which reads the sound's stream while it holds *)
(* the sound's bus; and the job thread, which decodes the two pages of the *)
(* stream.  The node graph is the gate of BusGate and the job queue the    *)
(* queue of JobFifo.  The frames of a file are the numbers from 0 to       *)
(* Total - 1; how many frames the device asks for is left open, and so is  *)
(* the cache between the stream and the device.  Posting a job succeeds.   *)
(***************************************************************************)
EXTENDS Integers, Sequences, FiniteSets, SequencesExt

CONSTANTS
    Total,       \* frames of the file
    PageSize,    \* frames of a page
    Targets,     \* frames the user seeks to
    Loops,       \* the loops the user sets: <<first frame, frame after the last>>
    MaxJobs,     \* the user seeks only while fewer jobs wait
    OrderLimit,  \* the execution counters count modulo this number
    MayFail,     \* a file may be one that cannot be opened
    Reuse,       \* memory that was freed may be handed out again at once
    NoSeek,      \* MA_SEEK_TARGET_NONE
    NoLoop,
    NoJob

Frames == 0 .. Total - 1
Pages == {0, 1}

ASSUME PositiveSizes == Total \in Nat \ {0} /\ PageSize \in Nat \ {0}
ASSUME TargetsInFile == Targets \subseteq Frames
ASSUME LoopsInFile == Loops \subseteq {l \in Frames \X (1 .. Total) : l[1] < l[2]}
ASSUME CountersCount == OrderLimit \in Nat \ {0}
ASSUME Outcomes == MayFail \in BOOLEAN /\ Reuse \in BOOLEAN

JobSet == [kind : {"load", "page", "seek", "free"}, arg : Nat, order : Nat]

ASSUME NothingElse == NoSeek \notin Nat /\ NoLoop \notin Loops /\ NoJob \notin JobSet

VARIABLES
    gate, held,    \* the sound's bus in the node graph
    queue, hand,   \* the job queue and the job of the job thread
    sound,         \* the node of the sound
    stream,        \* its data stream
    pc,            \* where each thread is
    outbox,        \* the job a thread is about to post
    target,        \* the seek target the audio thread has loaded
    mapped,        \* the frames it has mapped
    got,           \* the frames of its present read are more than none
    empty,         \* its present read has come to the end of the loop once
    looping,       \* the sound looped when the present read began
    filling,       \* the page the job thread fills
    done,          \* the notification the caller waits for
    stray          \* the stream of the job in hand has been given back

gateVars == <<gate, held>>
jobVars == <<queue, hand>>
readVars == <<target, mapped, got, empty, looping>>
vars == <<gateVars, jobVars, sound, stream, pc, outbox, readVars, filling, done, stray>>

Gate == INSTANCE BusGate WITH Buses <- {"sound"}
Fifo == INSTANCE JobFifo WITH Workers <- {"worker"}, Jobs <- {}

Threads == {"caller", "audio", "worker"}

\* The beginning of the loop stays when looping is turned off.
FreshSound ==
    [started |-> FALSE, atEnd |-> FALSE, seekTarget |-> NoSeek, loop |-> NoLoop, start |-> 0]

\* The frames of a page that is invalid are forgotten.
NoPages == [p \in Pages |-> <<>>]
FreshStream ==
    [result |-> "busy", seeks |-> 0, cursor |-> 0, rel |-> 0, page |-> 0,
     valid |-> [p \in Pages |-> FALSE], data |-> NoPages,
     decoderAtEnd |-> FALSE, decoder |-> 0, counter |-> 0, pointer |-> 0]

\* Memory that holds no stream.
NoStream == [FreshStream EXCEPT !.result = "none"]

Init ==
    /\ Gate!Init /\ Fifo!Init
    /\ sound = FreshSound /\ stream = NoStream
    /\ pc = [t \in Threads |-> "idle"]
    /\ outbox = [t \in Threads |-> NoJob]
    /\ target = NoSeek /\ mapped = 0 /\ got = FALSE /\ empty = FALSE /\ looping = FALSE
    /\ filling = 0 /\ done = FALSE /\ stray = FALSE

Goto(t, where) == pc' = [pc EXCEPT ![t] = where]

-----------------------------------------------------------------------------
(***************************************************************************)
(* Jobs.  A job takes its number in the order of execution before it is    *)
(* posted.                                                                 *)
(***************************************************************************)
Job(kind, arg) == [kind |-> kind, arg |-> arg, order |-> stream.counter]

Ordered(s) == [s EXCEPT !.counter = (@ + 1) % OrderLimit]

Post(t, from, to) ==
    /\ pc[t] = from
    /\ Fifo!Put(outbox[t])
    /\ outbox' = [outbox EXCEPT ![t] = NoJob]
    /\ Goto(t, to)
    /\ UNCHANGED <<gateVars, sound, stream, readVars, filling, done, stray>>

\* ma_resource_manager_data_stream_set_absolute_cursor
Wrap(frame) == IF frame > Total THEN frame % Total ELSE frame

\* Mutant: the seek job takes no number of its own.
SeekUnnumbered(t, frame, post, skip) ==
    IF stream.seeks = 0 /\ stream.cursor = frame
    THEN Goto(t, skip) /\ UNCHANGED <<stream, outbox>>
    ELSE /\ stream' = [stream EXCEPT
                          !.seeks = @ + 1, !.cursor = Wrap(frame), !.rel = 0, !.page = 0,
                          !.valid = [p \in Pages |-> FALSE], !.data = NoPages, !.decoderAtEnd = FALSE]
         /\ outbox' = [outbox EXCEPT ![t] = Job("seek", frame)]
         /\ Goto(t, post)

\* ma_resource_manager_data_stream_seek_to_pcm_frame by thread t: nothing to
\* do on the same frame, and a seek job otherwise.
SeekStream(t, frame, post, skip) ==
    IF stream.seeks = 0 /\ stream.cursor = frame
    THEN Goto(t, skip) /\ UNCHANGED <<stream, outbox>>
    ELSE /\ stream' = [Ordered(stream) EXCEPT
                          !.seeks = @ + 1, !.cursor = Wrap(frame), !.rel = 0, !.page = 0,
                          !.valid = [p \in Pages |-> FALSE], !.data = NoPages, !.decoderAtEnd = FALSE]
         /\ outbox' = [outbox EXCEPT ![t] = Job("seek", frame)]
         /\ Goto(t, post)

-----------------------------------------------------------------------------
(***************************************************************************)
(* The caller: auralis_load_file, auralis_shutdown, auralis_play, ...      *)
(* sound_loaded is true while the bus is attached.                         *)
(***************************************************************************)
Idle == pc["caller"] = "idle"
Loaded == Idle /\ gate["sound"] = "in"

Load ==
    /\ Idle /\ stream.result = "none"
    /\ sound' = FreshSound
    /\ stream' = Ordered(FreshStream)
    /\ outbox' = [outbox EXCEPT !["caller"] = [kind |-> "load", arg |-> 0, order |-> 0]]
    /\ Goto("caller", "post_load")
    /\ UNCHANGED <<gateVars, jobVars, readVars, filling, done, stray>>

\* The job thread has opened the file or failed to: the sound is attached, or
\* its stream is given back at once.
FinishLoad ==
    /\ pc["caller"] = "await_load" /\ done
    /\ IF stream.result = "success"
       THEN Gate!Attach("sound") /\ UNCHANGED <<stream, stray>>
       ELSE stream' = NoStream /\ stray' = (pc["worker"] = "advance") /\ UNCHANGED gateVars
    /\ done' = FALSE
    /\ Goto("caller", "idle")
    /\ UNCHANGED <<jobVars, sound, outbox, readVars, filling>>

\* Mutant: the sound is not detached before its stream is closed.
UnloadAttached ==
    /\ Loaded
    /\ Goto("caller", "close")
    /\ UNCHANGED <<gateVars, jobVars, sound, stream, outbox, readVars, filling, done, stray>>

\* ma_sound_uninit, which detaches the node first.
Unload ==
    /\ Loaded
    /\ Gate!BeginDetach("sound")
    /\ Goto("caller", "await_detach")
    /\ UNCHANGED <<jobVars, sound, stream, outbox, readVars, filling, done, stray>>

FinishDetach ==
    /\ pc["caller"] = "await_detach"
    /\ Gate!EndDetach("sound")
    /\ Goto("caller", "close")
    /\ UNCHANGED <<jobVars, sound, stream, outbox, readVars, filling, done, stray>>

CloseStream ==
    /\ pc["caller"] = "close"
    /\ stream' = [Ordered(stream) EXCEPT !.result = "unavailable"]
    /\ outbox' = [outbox EXCEPT !["caller"] = Job("free", 0)]
    /\ Goto("caller", "post_free")
    /\ UNCHANGED <<gateVars, jobVars, sound, readVars, filling, done, stray>>

FinishUnload ==
    /\ pc["caller"] = "await_free" /\ done
    /\ stream' = NoStream
    /\ done' = FALSE
    /\ Goto("caller", "idle")
    /\ UNCHANGED <<gateVars, jobVars, sound, outbox, readVars, filling, stray>>

\* ma_sound_start: nothing if the sound is playing.
Play ==
    /\ Loaded /\ ~sound.started
    /\ Goto("caller", "start")
    /\ UNCHANGED <<gateVars, jobVars, sound, stream, outbox, readVars, filling, done, stray>>

\* A sound at its end is sought back by the caller itself.
Start ==
    /\ pc["caller"] = "start"
    /\ IF sound.atEnd
       THEN SeekStream("caller", 0, "post_rewind", "restart")
       ELSE Goto("caller", "go") /\ UNCHANGED <<stream, outbox>>
    /\ UNCHANGED <<gateVars, jobVars, sound, readVars, filling, done, stray>>

Restart ==
    /\ pc["caller"] = "restart"
    /\ sound' = [sound EXCEPT !.atEnd = FALSE]
    /\ Goto("caller", "go")
    /\ UNCHANGED <<gateVars, jobVars, stream, outbox, readVars, filling, done, stray>>

Go ==
    /\ pc["caller"] = "go"
    /\ sound' = [sound EXCEPT !.started = TRUE]
    /\ Goto("caller", "idle")
    /\ UNCHANGED <<gateVars, jobVars, stream, outbox, readVars, filling, done, stray>>

Pause ==
    /\ Loaded
    /\ sound' = [sound EXCEPT !.started = FALSE]
    /\ UNCHANGED <<gateVars, jobVars, stream, pc, outbox, readVars, filling, done, stray>>

\* auralis_stop pauses and then seeks to the beginning.
Stop ==
    /\ Loaded /\ Len(queue) < MaxJobs
    /\ sound' = [sound EXCEPT !.started = FALSE]
    /\ Goto("caller", "rewind")
    /\ UNCHANGED <<gateVars, jobVars, stream, outbox, readVars, filling, done, stray>>

Rewind ==
    /\ pc["caller"] = "rewind"
    /\ sound' = [sound EXCEPT !.seekTarget = 0]
    /\ Goto("caller", "idle")
    /\ UNCHANGED <<gateVars, jobVars, stream, outbox, readVars, filling, done, stray>>

Seek(frame) ==
    /\ Loaded /\ Len(queue) < MaxJobs
    /\ sound' = [sound EXCEPT !.seekTarget = frame]
    /\ UNCHANGED <<gateVars, jobVars, stream, pc, outbox, readVars, filling, done, stray>>

SetLoop(loop) ==
    /\ Loaded
    /\ sound' = [sound EXCEPT !.loop = loop, !.start = IF loop = NoLoop THEN @ ELSE loop[1]]
    /\ UNCHANGED <<gateVars, jobVars, stream, pc, outbox, readVars, filling, done, stray>>

Command ==
    \/ Load \/ Unload \/ Play \/ Pause \/ Stop
    \/ \E frame \in Targets : Seek(frame)
    \/ \E loop \in Loops \union {NoLoop} : SetLoop(loop)

CallerWork ==
    \/ Post("caller", "post_load", "await_load") \/ FinishLoad
    \/ FinishDetach \/ CloseStream \/ Post("caller", "post_free", "await_free") \/ FinishUnload
    \/ Start \/ Post("caller", "post_rewind", "restart") \/ Restart \/ Go \/ Rewind

-----------------------------------------------------------------------------
(***************************************************************************)
(* The audio thread: one pass over the sound while it holds the bus.       *)
(***************************************************************************)
\* The state of the node is read once, at the beginning of the pass.
BeginPass ==
    /\ pc["audio"] = "idle"
    /\ Gate!Take("sound")
    /\ Goto("audio", "state")
    /\ UNCHANGED <<jobVars, sound, stream, outbox, readVars, filling, done, stray>>

CheckState ==
    /\ pc["audio"] = "state"
    /\ Goto("audio", IF sound.started THEN "end" ELSE "leave")
    /\ UNCHANGED <<gateVars, jobVars, sound, stream, outbox, readVars, filling, done, stray>>

\* Mutant: a sound at its end is read on.
CheckNoEnd ==
    /\ pc["audio"] = "end"
    /\ Goto("audio", "target")
    /\ UNCHANGED <<gateVars, jobVars, sound, stream, outbox, readVars, filling, done, stray>>

CheckEnd ==
    /\ pc["audio"] = "end"
    /\ Goto("audio", IF sound.atEnd THEN "stop" ELSE "target")
    /\ UNCHANGED <<gateVars, jobVars, sound, stream, outbox, readVars, filling, done, stray>>

StopAtEnd ==
    /\ pc["audio"] = "stop"
    /\ sound' = [sound EXCEPT !.started = FALSE]
    /\ Goto("audio", "leave")
    /\ UNCHANGED <<gateVars, jobVars, stream, outbox, readVars, filling, done, stray>>

LoadTarget ==
    /\ pc["audio"] = "target"
    /\ target' = sound.seekTarget
    /\ Goto("audio", IF sound.seekTarget = NoSeek THEN "read" ELSE "seek")
    /\ UNCHANGED <<gateVars, jobVars, sound, stream, outbox, mapped, got, empty, looping, filling, done, stray>>

SeekToTarget ==
    /\ pc["audio"] = "seek"
    /\ SeekStream("audio", target, "post_seek", "clear")
    /\ UNCHANGED <<gateVars, jobVars, sound, readVars, filling, done, stray>>

ClearTarget ==
    /\ pc["audio"] = "clear"
    /\ sound' = [sound EXCEPT !.seekTarget = NoSeek]
    /\ target' = NoSeek
    /\ Goto("audio", "read")
    /\ UNCHANGED <<gateVars, jobVars, stream, outbox, mapped, got, empty, looping, filling, done, stray>>

\* A read of the data source asks once whether the sound loops.
BeginRead ==
    /\ pc["audio"] = "read"
    /\ looping' = (sound.loop # NoLoop)
    /\ got' = FALSE /\ empty' = FALSE
    /\ Goto("audio", "map")
    /\ UNCHANGED <<gateVars, jobVars, sound, stream, outbox, target, mapped, filling, done, stray>>

\* The cursor is at the end of the loop.
AtLoopEnd == sound.loop # NoLoop /\ stream.cursor = sound.loop[2]

\* Frames up to the end of the loop; behind it the unsigned difference is so
\* large that it limits nothing.
Reach == IF sound.loop = NoLoop \/ stream.cursor > sound.loop[2] THEN PageSize
         ELSE sound.loop[2] - stream.cursor

Available == IF stream.valid[stream.page] THEN Len(stream.data[stream.page]) - stream.rel ELSE 0

\* Mutant: a seek in progress does not keep the reader out.
MapWhileSeeking ==
    /\ pc["audio"] = "map"
    /\ IF AtLoopEnd THEN Goto("audio", "ended") /\ UNCHANGED mapped
       ELSE IF Available = 0 THEN Goto("audio", "decoder_end") /\ UNCHANGED mapped
       ELSE /\ mapped' \in {n \in 1 .. Available : n <= Reach}
            /\ Goto("audio", "copy")
    /\ UNCHANGED <<gateVars, jobVars, sound, stream, outbox, target, got, empty, looping, filling, done, stray>>

\* ma_data_source_read_pcm_frames_within_range and the mapping of the page.
Map ==
    /\ pc["audio"] = "map"
    /\ IF AtLoopEnd THEN Goto("audio", "ended") /\ UNCHANGED mapped
       ELSE IF stream.result # "success" \/ stream.seeks > 0 THEN Goto("audio", "leave") /\ UNCHANGED mapped
       ELSE IF Available = 0 THEN Goto("audio", "decoder_end") /\ UNCHANGED mapped
       ELSE /\ mapped' \in {n \in 1 .. Available : n <= Reach}
            /\ Goto("audio", "copy")
    /\ UNCHANGED <<gateVars, jobVars, sound, stream, outbox, target, got, empty, looping, filling, done, stray>>

\* No frames: the stream has ended or its decoder is late.
CheckDecoder ==
    /\ pc["audio"] = "decoder_end"
    /\ Goto("audio", IF stream.decoderAtEnd THEN "ended" ELSE "leave")
    /\ UNCHANGED <<gateVars, jobVars, sound, stream, outbox, readVars, filling, done, stray>>

\* MA_AT_END inside a read: back to the start of the loop, as it is now, but
\* not twice without a frame; a read that has frames returns them first.
EndOfRange ==
    /\ pc["audio"] = "ended"
    /\ IF looping /\ ~empty
       THEN SeekStream("audio", sound.start, "post_loop", "map") /\ empty' = TRUE
            /\ UNCHANGED got
       ELSE /\ Goto("audio", IF got THEN "more" ELSE "mark_end")
            /\ empty' = FALSE /\ got' = FALSE
            /\ UNCHANGED <<stream, outbox>>
    /\ UNCHANGED <<gateVars, jobVars, sound, target, mapped, looping, filling, done, stray>>

MarkEnd ==
    /\ pc["audio"] = "mark_end"
    /\ sound' = [sound EXCEPT !.atEnd = TRUE]
    /\ Goto("audio", "leave")
    /\ UNCHANGED <<gateVars, jobVars, stream, outbox, readVars, filling, done, stray>>

\* Mutant: the offset into the page is carried over to the next page.
UnmapKeepsOffset ==
    /\ pc["audio"] = "copy"
    /\ LET moved == [stream EXCEPT !.cursor = Wrap(@ + mapped), !.rel = @ + mapped]
       IN  IF moved.rel < PageSize
           THEN stream' = moved /\ Goto("audio", "more") /\ UNCHANGED outbox
           ELSE /\ stream' = [Ordered(moved) EXCEPT
                                 !.valid[stream.page] = FALSE, !.data[stream.page] = <<>>,
                                 !.page = 1 - @]
                /\ outbox' = [outbox EXCEPT !["audio"] = Job("page", stream.page)]
                /\ Goto("audio", "post_page")
    /\ mapped' = 0 /\ got' = TRUE /\ empty' = FALSE
    /\ UNCHANGED <<gateVars, jobVars, sound, target, looping, filling, done, stray>>

\* Mutant: the page that comes next is handed over.
UnmapNextPage ==
    /\ pc["audio"] = "copy"
    /\ LET moved == [stream EXCEPT !.cursor = Wrap(@ + mapped), !.rel = @ + mapped]
       IN  IF moved.rel < PageSize
           THEN stream' = moved /\ Goto("audio", "more") /\ UNCHANGED outbox
           ELSE /\ stream' = [Ordered(moved) EXCEPT
                                 !.valid[stream.page] = FALSE, !.data[stream.page] = <<>>,
                                 !.rel = @ - PageSize, !.page = 1 - @]
                /\ outbox' = [outbox EXCEPT !["audio"] = Job("page", 1 - stream.page)]
                /\ Goto("audio", "post_page")
    /\ mapped' = 0 /\ got' = TRUE /\ empty' = FALSE
    /\ UNCHANGED <<gateVars, jobVars, sound, target, looping, filling, done, stray>>

\* The frames are copied from the page and unmapped; a finished page is handed
\* to the job thread.
Unmap ==
    /\ pc["audio"] = "copy"
    /\ LET moved == [stream EXCEPT !.cursor = Wrap(@ + mapped), !.rel = @ + mapped]
       IN  IF moved.rel < PageSize
           THEN stream' = moved /\ Goto("audio", "more") /\ UNCHANGED outbox
           ELSE /\ stream' = [Ordered(moved) EXCEPT
                                 !.valid[stream.page] = FALSE, !.data[stream.page] = <<>>,
                                 !.rel = @ - PageSize, !.page = 1 - @]
                /\ outbox' = [outbox EXCEPT !["audio"] = Job("page", stream.page)]
                /\ Goto("audio", "post_page")
    /\ mapped' = 0 /\ got' = TRUE /\ empty' = FALSE
    /\ UNCHANGED <<gateVars, jobVars, sound, target, looping, filling, done, stray>>

\* More frames are wanted, by this read unless it is over, or by another one.
ReadMore ==
    /\ pc["audio"] = "more"
    /\ \/ Goto("audio", "read")
       \/ got /\ Goto("audio", "map")
    /\ UNCHANGED <<gateVars, jobVars, sound, stream, outbox, readVars, filling, done, stray>>

HaveEnough ==
    /\ pc["audio"] = "more"
    /\ Goto("audio", "leave")
    /\ UNCHANGED <<gateVars, jobVars, sound, stream, outbox, readVars, filling, done, stray>>

EndPass ==
    /\ pc["audio"] = "leave"
    /\ Gate!Drop("sound")
    /\ Goto("audio", "idle")
    /\ got' = FALSE /\ empty' = FALSE /\ looping' = FALSE
    /\ UNCHANGED <<jobVars, sound, stream, outbox, target, mapped, filling, done, stray>>

Audio ==
    \/ BeginPass \/ CheckState \/ CheckEnd \/ StopAtEnd
    \/ LoadTarget \/ SeekToTarget \/ Post("audio", "post_seek", "clear") \/ ClearTarget
    \/ BeginRead \/ Map \/ CheckDecoder \/ EndOfRange \/ Post("audio", "post_loop", "map") \/ MarkEnd
    \/ Unmap \/ Post("audio", "post_page", "more") \/ ReadMore \/ HaveEnough \/ EndPass

-----------------------------------------------------------------------------
(***************************************************************************)
(* The job thread.                                                         *)
(***************************************************************************)
job == hand["worker"]

\* A job whose turn it is not goes back to the end of the queue.
PutBack ==
    /\ queue' = Append(Tail(queue), Head(queue))
    /\ UNCHANGED <<hand, pc, stream, filling, done>>

Turn(kind) == pc["worker"] = "idle" /\ queue # <<>> /\ Head(queue).kind = kind
InTurn == Head(queue).order = stream.pointer

\* The file is opened, or it cannot be.
BeginLoad ==
    /\ Turn("load")
    /\ IF ~InTurn THEN PutBack
       ELSE /\ Fifo!Get("worker")
            /\ \E next \in IF MayFail THEN {"decode", "fail"} ELSE {"decode"} :
                 Goto("worker", next)
            /\ filling' = 0
            /\ UNCHANGED <<stream, done>>
    /\ UNCHANGED <<gateVars, sound, outbox, readVars, stray>>

\* Mutant: a page job that is refused returns at once.
BeginPageReturns ==
    /\ Turn("page")
    /\ IF ~InTurn THEN PutBack
       ELSE IF stream.result # "success"
       THEN queue' = Tail(queue) /\ UNCHANGED <<hand, pc, stream, filling, done>>
       ELSE /\ Fifo!Get("worker")
            /\ Goto("worker", "decode")
            /\ filling' = Head(queue).arg
            /\ UNCHANGED <<stream, done>>
    /\ UNCHANGED <<gateVars, sound, outbox, readVars, stray>>

BeginPage ==
    /\ Turn("page")
    /\ IF ~InTurn THEN PutBack
       ELSE /\ Fifo!Get("worker")
            /\ Goto("worker", IF stream.result = "success" THEN "decode" ELSE "advance")
            /\ filling' = Head(queue).arg
            /\ UNCHANGED <<stream, done>>
    /\ UNCHANGED <<gateVars, sound, outbox, readVars, stray>>

BeginSeek ==
    /\ Turn("seek")
    /\ IF ~InTurn THEN PutBack
       ELSE /\ Fifo!Get("worker")
            /\ IF stream.result = "success"
               THEN Goto("worker", "decode") /\ stream' = [stream EXCEPT !.decoder = Head(queue).arg]
               ELSE Goto("worker", "advance") /\ UNCHANGED stream
            /\ filling' = 0
            /\ UNCHANGED done
    /\ UNCHANGED <<gateVars, sound, outbox, readVars, stray>>

BeginFree ==
    /\ Turn("free")
    /\ IF ~InTurn THEN PutBack
       ELSE Fifo!Get("worker") /\ Goto("worker", "free") /\ UNCHANGED <<stream, filling, done>>
    /\ UNCHANGED <<gateVars, sound, outbox, readVars, stray>>

\* The pages and the decoder are given back and the caller is told, last.
Free ==
    /\ pc["worker"] = "free"
    /\ Fifo!Finish("worker")
    /\ done' = TRUE
    /\ Goto("worker", "idle")
    /\ UNCHANGED <<gateVars, sound, stream, outbox, readVars, filling, stray>>

\* The frames the decoder delivers from a position; it loops by itself.
Entry(at) == IF sound.loop # NoLoop /\ at \in {sound.loop[2], Total} THEN sound.loop[1] ELSE at
Position[n \in 0 .. PageSize] ==
    IF n = 0 THEN stream.decoder ELSE Entry(Position[n - 1]) + 1
FramesLeft == Min({n \in 0 .. PageSize : n = PageSize \/ Entry(Position[n]) >= Total})
Decoded == [n \in 1 .. FramesLeft |-> Entry(Position[n - 1])]

\* A short page means the end of the file, and says so before it is valid.
Decode ==
    /\ pc["worker"] = "decode"
    /\ stream' = [stream EXCEPT
                     !.data[filling] = Decoded,
                     !.decoder = IF Decoded = <<>> THEN @ ELSE Last(Decoded) + 1,
                     !.decoderAtEnd = @ \/ Len(Decoded) < PageSize]
    /\ Goto("worker", "validate")
    /\ UNCHANGED <<gateVars, jobVars, sound, outbox, readVars, filling, done, stray>>

\* Mutant: only a load fills both pages.
ValidateOnce ==
    /\ pc["worker"] = "validate"
    /\ stream' = [stream EXCEPT !.valid[filling] = TRUE]
    /\ IF job.kind = "load" /\ filling = 0
       THEN filling' = 1 /\ Goto("worker", "decode")
       ELSE /\ Goto("worker", CASE job.kind = "load" -> "succeed"
                                [] job.kind = "seek" -> "sought"
                                [] OTHER -> "advance")
            /\ filling' = 0
    /\ UNCHANGED <<gateVars, jobVars, sound, outbox, readVars, done, stray>>

Validate ==
    /\ pc["worker"] = "validate"
    /\ stream' = [stream EXCEPT !.valid[filling] = TRUE]
    /\ IF job.kind # "page" /\ filling = 0
       THEN filling' = 1 /\ Goto("worker", "decode")
       ELSE /\ Goto("worker", CASE job.kind = "load" -> "succeed"
                                [] job.kind = "seek" -> "sought"
                                [] OTHER -> "advance")
            /\ filling' = 0
    /\ UNCHANGED <<gateVars, jobVars, sound, outbox, readVars, done, stray>>

\* Mutant: the seek stays counted.
EndSeekCounted ==
    /\ pc["worker"] = "sought"
    /\ UNCHANGED stream
    /\ Goto("worker", "advance")
    /\ UNCHANGED <<gateVars, jobVars, sound, outbox, readVars, filling, done, stray>>

EndSeek ==
    /\ pc["worker"] = "sought"
    /\ stream' = [stream EXCEPT !.seeks = @ - 1]
    /\ Goto("worker", "advance")
    /\ UNCHANGED <<gateVars, jobVars, sound, outbox, readVars, filling, done, stray>>

\* The caller of a load is told before the job is over.
EndLoad ==
    /\ pc["worker"] \in {"succeed", "fail"}
    /\ stream' = [stream EXCEPT !.result = IF pc["worker"] = "succeed" THEN "success" ELSE "failed"]
    /\ done' = TRUE
    /\ Goto("worker", "advance")
    /\ UNCHANGED <<gateVars, jobVars, sound, outbox, readVars, filling, stray>>

\* The stream of a failed load may be gone: then the pointer that advances is
\* in memory that is no stream any more, or that the next load was given.
Advance ==
    /\ pc["worker"] = "advance"
    /\ \E hit \in IF stray THEN {FALSE, Reuse /\ stream.result # "none"} ELSE {TRUE} :
         stream' = IF hit THEN [stream EXCEPT !.pointer = (@ + 1) % OrderLimit] ELSE stream
    /\ stray' = FALSE
    /\ Fifo!Finish("worker")
    /\ Goto("worker", "idle")
    /\ UNCHANGED <<gateVars, sound, outbox, readVars, filling, done>>

Worker ==
    \/ BeginLoad \/ BeginPage \/ BeginSeek \/ BeginFree \/ Free
    \/ Decode \/ Validate \/ EndSeek \/ EndLoad \/ Advance

Next == Command \/ CallerWork \/ Audio \/ Worker

Spec == Init /\ [][Next]_vars

\* The threads keep running; the caller chooses what to call and when; a pass
\* of the audio thread asks for finitely many frames.
FairSpec ==
    /\ Spec
    /\ WF_vars(CallerWork) /\ WF_vars(Audio) /\ WF_vars(Worker)
    /\ SF_vars(HaveEnough) /\ SF_vars(FinishDetach)

-----------------------------------------------------------------------------
CallerSteps == {"idle", "post_load", "await_load", "await_detach", "close", "post_free", "await_free",
                "start", "post_rewind", "restart", "go", "rewind"}
\* The audio thread uses the stream.
Reading == {"seek", "post_seek", "clear", "read", "map", "copy", "decoder_end", "ended", "mark_end",
            "more", "post_page", "post_loop"}
\* The job thread uses the stream.
Processing == {"decode", "validate", "sought", "succeed", "fail", "free", "advance"}

SoundSet ==
    [started : BOOLEAN, atEnd : BOOLEAN, seekTarget : Frames \union {NoSeek},
     loop : Loops \union {NoLoop}, start : Frames]

StreamSet ==
    [result : {"none", "busy", "success", "failed", "unavailable"},
     seeks : Nat, cursor : 0 .. Total, rel : 0 .. PageSize - 1, page : Pages,
     valid : [Pages -> BOOLEAN], data : [Pages -> Seq(Frames)],
     decoderAtEnd : BOOLEAN, decoder : 0 .. Total,
     counter : 0 .. OrderLimit - 1, pointer : 0 .. OrderLimit - 1]

TypeOK ==
    /\ gate["sound"] \in {"out", "in", "leaving"} /\ held \subseteq {"sound"}
    /\ queue \in Seq(JobSet) /\ hand["worker"] \in JobSet \union {NoJob}
    /\ sound \in SoundSet /\ stream \in StreamSet
    /\ pc["caller"] \in CallerSteps
    /\ pc["audio"] \in Reading \union {"idle", "state", "end", "stop", "target", "leave"}
    /\ pc["worker"] \in Processing \union {"idle"}
    /\ outbox \in [Threads -> JobSet \union {NoJob}]
    /\ target \in Frames \union {NoSeek} /\ mapped \in 0 .. PageSize
    /\ got \in BOOLEAN /\ empty \in BOOLEAN /\ looping \in BOOLEAN /\ filling \in Pages /\ done \in BOOLEAN /\ stray \in BOOLEAN

\* No thread uses a stream that is closed or given back: the audio thread only
\* an open one, the job thread only one the caller still waits for.  The job of
\* a load that fails does otherwise, so this is for files that open.
StreamOpenInUse ==
    /\ pc["audio"] \in Reading => stream.result = "success"
    /\ pc["worker"] \in Processing => stream.result # "none" /\ ~stray
    /\ pc["worker"] = "free" => stream.result = "unavailable"

\* The caller seeks the stream back to its beginning without a lock, while the
\* bus is attached.  It never does so while the audio thread uses the stream:
\* the mark at the end of the sound keeps the audio thread away.
RewindAlone ==
    pc["caller"] \in {"post_rewind", "restart"} => pc["audio"] \notin Reading

\* The jobs of a stream enter the queue in the order of their numbers,
\* although two threads number and post them in separate steps: no job is ever
\* put back.
Known(j) == IF j = NoJob THEN <<>> ELSE <<j>>
Posting == Known(outbox["caller"]) \o Known(outbox["audio"])
InHand == IF stray THEN <<>> ELSE Known(job)
Pending == InHand \o queue \o Posting
Closed == stream.result = "none" \/ (pc["caller"] = "await_free" /\ done)
JobsInOrder == Closed \/
    /\ \A i \in DOMAIN Pending : Pending[i].order = (stream.pointer + i - 1) % OrderLimit
    /\ stream.counter = (stream.pointer + Len(Pending)) % OrderLimit

\* Every seek that is counted as going on has its job, unless the stream is
\* closed: so the reader is not kept out for ever, and is kept out for long
\* enough.
SeeksCounted ==
    stream.result = "success" =>
        stream.seeks = Cardinality({i \in DOMAIN Pending :
            Pending[i].kind = "seek" /\ ~(pc["worker"] = "advance" /\ i = 1)})

\* The page the audio thread copies from is not being filled: a page is handed
\* over by its flag alone.
NoFillWhileCopied ==
    pc["audio"] = "copy" => /\ ~(pc["worker"] \in {"decode", "validate"} /\ filling = stream.page)
                            /\ stream.rel + mapped <= Len(stream.data[stream.page])

\* The frames that are copied are those at the cursor, whatever seeks came
\* between: a page filled for an older position is never read.  A loop that is
\* changed while pages are filled breaks this, so the run sets none.
DeliveredAtCursor ==
    pc["audio"] = "copy" =>
        \A i \in 1 .. mapped : stream.data[stream.page][stream.rel + i] = stream.cursor + i - 1

\* Every call into the player returns: a load waits for the job thread, an
\* unload for the audio thread and then for the job thread.
CallsReturn == pc["caller"] # "idle" ~> pc["caller"] = "idle"

\* A sound that plays does not starve: again and again frames are copied,
\* unless it has come to its end, is sought, is stopped or is unloaded.
KeepsPlaying ==
    []<>(\/ pc["audio"] = "copy" \/ sound.atEnd \/ sound.seekTarget # NoSeek
         \/ ~sound.started \/ gate["sound"] # "in")

=============================================================================
