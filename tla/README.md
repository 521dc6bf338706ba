# Car-eye-FFMPEG: a TLA+ model of the bridge and of the FFmpeg machinery it drives

Car-eye-FFMPEG is an Android library: a thin bridge (C and C++ behind JNI) that gives
Java four kinds of handle - decoder, encoder, caption, and their parameters - on top of a
vendored FFmpeg 3.3.7, x264 and FreeType. The bridge is about 1400 lines; nearly all of
the repository's other source files are vendored.

These modules model the bridge - its handles, its entry points and a session of the
demonstration activity through them, and what it does to pixels, samples, headers and
captions - and the parts of the vendored libraries on which it leans for concurrency and
ownership: the send/receive codec API of libavcodec, the lock around `avcodec_open2`, the
worker threads of libavfilter, the reference-counted buffers and pools of libavutil, and
the slice threads of x264. TLC checks them on small instances; TLAPS proves every
safety property that the passing runs check, five refinements among them, for all values of the
constants.

Paths are shortened below: `jni/` is
`src/FFMPEG_app/FFmpeg4Android-master/FFmpeg4Android-master/app/src/main/jni/`, and
`lib*` are directories of `src/ffmpeg/`.

## 1. Inventory

| Component | Source | State it keeps | Operations | Model |
|---|---|---|---|---|
| decoder handle | `jni/CarEyeDecoderAPI.cpp` | two codec contexts, two frames, picture size | Create, Release, YUV420, PCM, GetYUVSize | `Decoder` |
| encoder handle | `jni/CarEyeEncoderAPI.cpp` | two codec contexts, two frames | Create, Release, YUV, PCM, GetPcmMaxSize | `Encoder` |
| caption handle | `jni/CarEyeOSDAPI.cpp`, `jni/FFVideoFilter.cpp` | filter object, one frame, graph and its descriptors | Create, Release, Encode | `OsdFilter` |
| JNI bridge | `jni/CarEyeJni.c` | none; handles are `jlong`s in Java | one entry point per operation | `JniBridge`, `Conversions` |
| Java client | `FFmpegNative.java`, `MainActivity.java`, ... | handles; one thread per test | calls the entry points | `JniBridge` (its three sessions) |
| initialisation | `jni/CarEyeMPEGAPI.cpp` | a `pthread_once_t` | registers codecs and filters once | no |
| send/receive codec API | `libavcodec/utils.c` | `buffer_pkt`, `buffer_frame`, flags of a context | send_packet, receive_frame, send_frame, receive_packet | `AvDecode`, `AvEncode` |
| codec lock | `libavcodec/utils.c` | the mutex, a counter, a flag | ff_lock_avcodec, ff_unlock_avcodec, default_lockmgr_cb | `CodecLock` |
| filter threads | `libavfilter/pthread.c` | mutex, two conditions, job counter, batch number | init, execute, free; the worker | `FilterThreads` |
| buffers and pools | `libavutil/buffer.c` | reference counts, free list | alloc, ref, unref, make_writable, realloc, pool_init, pool_get, pool_uninit | `BufferPool` |
| slice threads | `src/x264/common/threadpool.c`, `common/frame.c`, `encoder/encoder.c` | three lists of jobs, a pass per slice, the slices still out | encoder_encode, encoder_close; the worker | `SliceThreads` |
| data conversions | `jni/` copies, ADTS header, caption text | none | pure functions | `Conversions` |
| filter graph and queues | `libavfilter/` | graph of filters, frame queues | add_frame, get_frame | effects only, in `OsdFilter` |
| codecs, formats, scaling, the rest of x264, x265, FreeType, libpng, expat | vendored | - | - | no |

**How they interact.** Java calls an entry point of the bridge, which turns a `jlong` into
a handle and calls one operation. A decoding or encoding operation makes one
`avcodec_send_*` and at most one `avcodec_receive_*` on one of the handle's two contexts;
a captioning operation builds a filter graph, pushes one frame into it, pulls one out
and frees the graph. Creation opens codecs through `avcodec_open2` and so takes the
process-wide codec lock, unless the codec's initialisation is declared thread safe.
Slice-threaded filters run on a graph's worker threads, the graph's own thread waits for
them. An encoded picture is cut into slices that run on x264's threads, and part of that work
goes on after the call has returned. Decoded frames are references to pooled buffers, which go
back to their pool from whichever thread drops them last. The two media of one handle share the handle but neither context nor frame: the
header lets one thread decode video while another decodes audio.

**What is hard.**

* *One send, one receive.* The send/receive API wants a loop; the bridge makes one round.
  What a packet leaves unread in the context decides the fate of the next call.
* *Two threads on a handle*, interleaved between receiving a frame and copying it, or
  between copying an input and sending it.
* *Partial failure*: creation acquires up to eight objects and can fail after any of
  them; `BlendFilters` has seven steps after each of which it may stop.
* *Ownership that changes*: the caption handle's frame owns its planes through no buffer on
  the first call and through reference counts afterwards.
* *A counter with three meanings* in the filter threads: thread number, job number, jobs done.
* *A mutex made on demand* by whichever thread needs it first.
* *Counts without a lock*: the last reference to a buffer, and the last to a pool, are found by an
  atomic decrement, while the pool's list has a mutex and its count is raised outside of it.
* *Work that outlives its call*: x264 returns a picture whose rows are still being filtered; the
  error of a slice comes out one call later.
* *Two names for one thing*: Java's arrays may be pinned or copied, one array may be input and
  output, and a decoder is released through the encoder's function.
* *Copies that assume no gaps*, and texts read by three parsers in a row.

**What makes each component correct** is listed with its run in section 3.

## 2. The modules and the code

`Mut...` operators beside a definition are faulty variants of it, the kind of bug that
could be in that code; they are used by no specification and exist so that each
property can be seen to fail when the code is wrong.

### AvDecode, AvEncode - the codec API (operators only)

A context is a record of the fields the API reads and writes. A *packet* is a sequence of
units, one for each step the codec takes through it: a unit yields a frame, is consumed
silently, is answered with EAGAIN, is an error, or is data of which the codec consumes
nothing and makes no frame however often it is asked ("stuck", `utils.c:2839`). The
*decoder's codec* is a queue that gives its oldest frame once it holds more than `delay` of them;
a unit stands for the picture that is shown at its place, so pictures coded in another order than
they are shown are not told apart from others. The rules of
`do_decode` are kept: a video packet counts as consumed whole, an audio packet by what the
codec consumed, which may be nothing, EAGAIN consumes all, what is left over is copied into
`buffer_pkt` and that
can run out of memory, a failing iteration inside `avcodec_receive_frame` drops the rest.

The *encoder's codec* keeps the inputs it has not coded in `held`, in the order they came, and
codes one when it holds `delay` of them. With B-frames it may first code the picture that the
ones before it refer to, up to `bframes` places ahead, and then those it has overtaken, of which
`behind` are left (`Codable`). A failing call is one of two things: the input is turned down before the
codec has it (`Rejected`), or the codec has taken it and the input whose packet was due is lost
(`Lost`) - a packet that cannot be given memory of its own (`utils.c:1942`), an AAC block
that fails after the next one was queued (`aacenc.c:525`), an x264 slice. The input lost is then an
earlier call's, and the one of the failing call stays in the codec. `do_encode` empties the
buffered packet first and marks it valid only if one came out.
Draining is left out, since no caller in the bridge ever starts it.

### Decoder, Encoder - the handles

One instance is one caller with one handle at a time, and one thread per medium. A call is cut
at the library calls, so that all interleavings of the two threads at that
granularity are explored: `Call` (parameters, and for the encoder the copy into the
handle's frame), `Send`, `Receive...` (for the decoder one action per iteration of the
loop in `avcodec_receive_frame`), `CopyOut`. `Create` chooses the media and either
succeeds or fails after any prefix of its acquisitions, which are then released by the
same function a caller would use. `leaked` counts what nothing points to any more.
Samples and pixels are abstracted to the identity of the frame they belong to; a picture's
size is kept because the copy is measured with it.

`Release` requires that no call is in progress: the header asks it of the
caller and the demonstration application does it.

### FifoChannel and ReorderChannel - what a medium promises

`FifoChannel` is the abstract specification of a medium of the decoder's handle: items are taken
in, handed out in that order, each at most once, and are missing only if they were dropped
youngest first or the handle was created anew. `Decoder` implements it twice, through
the refinement mapping `Pending(m)`, the frames inside the context followed in
age by those on their way out, and `out[m]`.

`ReorderChannel` is that of the encoder's handle: numbered items, each handed out at most once,
none overtaken by more than `Window` items that went in after it, and at most one lost with each
that goes in, whichever it is. `Window` is the number of B-frames; with 0, as for audio, the
items come out in order. `Encoder` implements it twice, with the set of inputs inside the context or on their
way out as `Pending(m)`. How many calls fail when an input is lost is not the
channel's business: `LossesAreReported` is about that.

### OsdFilter - the caption handle

`BlendFilters` is one action per step, each with its success and with the label it jumps
to when it fails (`the_end` frees the in/out descriptors, `the_end1` does not). `planes` says
who owns the planes of `VFrame`: "raw" means `av_image_alloc`, that is nobody; "counted"
means a reference; "empty" means the graph took them. `shown` is the picture in them.
`broken` becomes true when a NULL or uninitialised pointer is followed; nothing happens after that.

`av_buffersrc_add_frame` may fail *before* it takes the frame or *after*:
`libavfilter/buffersrc.c:258` returns the failure of the output's request when the frame has
already moved into the graph. The model allows both.

### FilterThreads and ParallelFor - the workers

An action is a critical section of `current_job_lock`, or a part of one where the code
decides something in between; what the code does without the lock - a worker's two first
reads and the job itself - is a step of its own. `pthread_cond_wait` releases the lock,
sleeps, and needs the lock again: "waiting"/"awake" and "parked"/"unpark". Spurious wakeups
are possible, `SpuriousWakeup`. `ParallelFor` is what `AVFilterGraph.execute`
promises: each job of a call runs once, none of another call runs meanwhile, the call is
over only when all are. `EveryJobOnce` is the refinement.

### CodecLock - the lock around avcodec_open2

`TestSet`/`TestMake`/`TestFails`, `Swap` and `Obtain` are `default_lockmgr_cb`: the test of the
mutex pointer, a mutex of the thread's own, the compare and swap after which the loser destroys
its own, the blocking lock. `Count` and `Unlock` are the counter and the flag with which
libavcodec checks that the lock works, and `Released` gives the mutex back. `errand` says what a
thread takes the lock for: `avcodec_open2` gives the lock back in its middle for every encoder,
so that frame-thread helpers can be opened (each takes the lock for itself), and then takes it
again *without reading the result*; `ff_codec_open2_recursive` does the same from a codec's
initialisation. `Inside` stands for the rest of `avcodec_open2`, which neither waits nor
touches the lock.

### BufferPool and PrivateCopies - reference-counted buffers

`data`, `refcount`, `opaque` and `resizable` are an `AVBuffer`; `content` is the heap of data
blocks; `ref` is a pointer per slot (an `AVBufferRef` somewhere in a thread's structures) and one
per thread, the local variable through which a call holds a buffer. `live`, `users`, `free` and
`mutex` are the pools. A step is one atomic operation, one half of a critical section (`Lock`,
`Unlock`), or one access to data: between them another thread may run. `Client` is the decoding
thread whose `FramePool` it is (`update_frame_pool`): it alone makes, uses and gives up the
current pool; everyone drops buffers. A call that will fill a slot reserves it (`Empty`), since a
thread fills its own pointers. The free of a buffer's structure, which nobody else can see by
then, is folded into the push (`ReleasePush`). `Fresh` is the allocator: which of the free
addresses it may return, so that the proofs hold for any and TLC can take one that reuses
addresses at once. The atomic operations are interleaved: every thread sees them in one order. Several of
them ask for less (`buffer.c:102`, `354`: relaxed; `119`, `284`, `301`: acquire and release), which is
enough for a count that each thread only adds to or takes from, since such operations on one variable
do have one order; what weaker orders permit between different variables is outside the model. Not modelled: the READONLY flag
and free callbacks of a client's own, which nothing in the bridge's use of the library sets.

`PrivateCopies` is the promise of `buffer.h:53`: each reference behaves as a private copy of a
value. `SharingIsInvisible` is the refinement, with `val` the content a slot sees.

### JniBridge - a session through the entry points

One session of `MainActivity`: create a handle, read a frame, call, write the result, destroy.
A handle is an object, null, or junk (`OpenOSD` has no return statement, so Java gets what the
return register holds). The parts of an object are numbers, in the order of the structure's
fields, because the releasing function may take it for another structure (`Layout`,
`ReleasedAs`): `FFmpegNative.DestroyDecode` ends in the encoder's release. A session whose handle is junk leaves
the model when the junk is followed (`wild`); `DestroyIsComplete` is about the others and says nothing of what
junk does. `copies` says whether
the virtual machine pins its arrays or copies them, and `oneArray` whether the caller passes
one array for input and output, which the interface permits (captioning always does). `thrown` is
a Java exception, after which the destruction is skipped. An array has a head and a tail: `in.read` may
fill the head only, because its result is only compared with 0 (`MainActivity.java:104`), and the tail then
is an earlier round's; and a result may be shorter than the array (`Put`, `PartOf`). `Work` stores the result
of this round's frame or of an earlier one's, since the bridge asks for a B-frame and codecs hold
frames back, and `WorkFails` is also the call that gives nothing yet. `made` remembers what the native code
left as the result of each round's call, for the properties only. The Java VM's functions (`GetElements`, `Sees`, `Store`,
`ReleaseElements`) are modelled from their use and marked external.

### Conversions - pictures, samples, headers, captions

Pure functions, each set against its reader on the other side: the planes `CarEyeJni` cuts out of an
array and the copies of `CarEyeEncoderAPI`, `CarEyeDecoderAPI` against the line sizes that
`av_image_alloc` and libavcodec's frame pool choose (16-byte lines for chroma, the
`STRIDE_ALIGN` of the ARM build with NEON); the split of interleaved samples against their
interleaving; the ADTS header against `avpriv_aac_parse_header`; the escaped caption against
`av_get_token`, twice, and drawtext's `expand_text`. A request is one action, an answer one state
(`RequestSpec`). A picture is a function from places to source pixels, a text a sequence of kinds of
character. A loop is a recursive function whose value after `k` rounds has a name of its own -
`PoolWidths` (the widths tried), `LineStarts` (the samples taken), `EncodedParts` (the text
escaped), `TokenStates`, `ExpandStates` (a reader after each character) - so that the
proofs can speak of every round.

### SliceThreads - x264's threads

`libx264.c` leaves the number of threads to x264 and the bridge sets tune `zerolatency`, which turns
sliced threads on: a picture is cut into as many slices as the pool has workers. `mpc` is the
caller, in `x264_encoder_encode` or `x264_encoder_close`; `wpc` the workers. A critical section of a
list's mutex or of a slice's is one action; the broadcast of `x264_sync_frame_list_push`, which comes
after its unlock, is a step of its own (`SignalRun`, `SignalDone`). Waits for a pass are guards: pass
and broadcast are under one mutex. `done` is a set, because it is searched by argument. A job is
`x264_slices_write`: `Write` (which may run out of memory), the two passes, `Deblock` for all of the slice's
rows, and `Border`, the filter of its first row, which reads the slice above. `SetUp` joins the
preparation of a picture with the arming of its slices: no worker has a job then, which is what
`EverySliceOnce` checks. Not modelled: frame threads and the lookahead thread, which
`zerolatency` turns off, the lookahead's own pool, whose jobs wait for nobody, the failure of
`x264_threadpool_init` half way, and the returns of `x264_encoder_encode` before its slices are
collected (`encoder.c:3207` to `3325`: no memory for a picture, or none to encode yet), which leave the
workers as they are.

## 3. What TLC checks

All runs are exhaustive over their instances. Type invariants are not checked in the runs:
they are theorems (section 4).

| Run | Instance | Properties |
|---|---|---|
| `decoder_both` | both media, 2 packets each, delays 0 and 1, 12 packet shapes, 2 handles | `VideoNeverRefused`: nothing unread blocks a video packet; `CopyReadsOwnFrame`: what a thread copies is of its own medium; `LosesContextsOnly`; `MediaInOrder`: refinement of `FifoChannel` by each medium; `RefusalIsPermanent`: one refusal means that the medium is refused until release; `CallsReturn`: a video call always, an audio call unless its codec comes to data it can neither consume nor decode |
| `encoder_both` | both media, 3 inputs each, delays 0 to 2 and 0 to 1, one B-frame and none, calls that fail before and after the codec took the input, 2 handles | `SendNeverRefused`; `LossesAreReported`: every input offered is with the codec, in the call or with the caller, but for one per call that returned an error; `SendsOwnInput`; `LosesPictureOnly`; `MediaInOrder`: refinement of `ReorderChannel` by each medium |
| `osd_calls` | 3 handles, 4 pictures, every step can fail | `PictureIsCallers`: the caller's buffer never gets an earlier picture, and an error leaves it uncaptioned; `GraphEndsWithCall`; `OneImagePerHandle` |
| `pool_batches` | 3 workers, 2 batches of 1 to 4 jobs, one spurious wakeup, failing creation | `ParkedOutsideExecute`: no worker is in a job when the next batch is set up; `EveryJobOnce`: refinement of `ParallelFor`; `ExecuteReturns`; `PoolEnds` |
| `codec_opens` | 3 threads, 3 opens each, helpers included | `OneInside`: exclusion; `AssertsHold`: the code's assertions, and never "Insufficient thread locking"; `OneMutex`: one mutex survives the race; `OpensReturn` |
| `buffer_refs` | 2 threads, 3 slots, 2 buffers, 2 blocks, 2 pools, 2 values | `NothingDangles`; `PoolOutlivesBuffers`; `NothingIsLost`; `SharingIsInvisible`: refinement of `PrivateCopies`; `PoolIsFreed` |
| `bridge_calls` | each kind of session, 3 rounds, arrays pinned or copied, one or two | `FileHasResults`: a call works on the frame its round read, and the file gets exactly what each call made, with short reads and results of earlier frames; `NoElementsStayHeld`; `DestroyIsComplete` |
| `conversions` | every even width to 96; blocks of 1 to 4 samples in 1 to 3 channels; header lengths around each byte's edge, 1 to 8 channels; all texts of up to 4 characters of 7 kinds | `PicturesArrive`: exactly when the width is a multiple of 32; `SamplesArrive`; `HeaderParses`; `CaptionArrives` |
| `slice_jobs` | 3 workers and slices, 3 calls, any slice may fail | `QueuesNeverFull`; `BoundaryIsDeblocked`: a border is filtered after both sides; `WaitsForEverySlice`; `FailuresAreReported`; `EverySliceOnce`: refinement of `ParallelFor`; `CallsReturn` |

Three runs show a statement of the documentation that the code does not keep; TLC's
counterexample is the sequence of calls.

| Run | Statement | What happens |
|---|---|---|
| `decoder_unread` | `OutputFullyRead`: `avcodec.h:104`, receive until EAGAIN | an audio packet with two frames leaves the second unread; by `RefusalIsPermanent` the handle decodes no audio any more |
| `decoder_yuvsize` | `OutputFitsGetYUVSize`: `GetYUVSize` is the size of the output buffer | after a size change in the stream a call writes the new size, GetYUVSize announces the old one |
| `osd_reset` | `FrameIsNotWrittenAfterReset`: `buffersrc.h:160`, the frame is reset | after a captioned frame, a failure of drawtext leaves `VFrame` without planes and the next call writes through NULL |

Disagreements met while modelling that need no run, because a few lines show them:

* `CarEyeDecoderAPI.cpp:67`: a packet the decoder keeps for reordering makes the call
  return AVERROR(EAGAIN), a negative number; the comment at line 247 calls a negative
  result a failed decoding. The call has succeeded.
* `CarEyeEncoderAPI.cpp:123`: an input the encoder keeps makes the call return 0, which
  the comments at 387 and 458 give to invalid parameters.
* `CarEyeEncoderAPI.cpp:108`: an error need not be about the call's own input. When the packet of an
  earlier one is lost, that input is gone and the current one is still encoded;
  `LossesAreReported` says that there is nevertheless an error for every loss.
* `MainActivity.java:159`: `in.read` is only compared with 0, so the end of the file, or any short read,
  is handed over with the tail of an earlier frame.
* `libavcodec/utils.c:2951`: an audio decoder that returns 0 and no frame for the same data for ever
  keeps `avcodec_receive_frame`, and the caller, in its loop; only video and EAGAIN are guarded.
* `CarEyeEncoderAPI.cpp:346`: the release frees the contexts without draining them, so it drops the
  inputs the codecs still hold; `avcodec.h:121` asks for flushing at the end of the stream.
* The contexts closed at `CarEyeDecoderAPI.cpp:199` are not freed, and neither is the picture of
  `av_image_alloc` at `CarEyeEncoderAPI.cpp:253` and `CarEyeOSDAPI.cpp:49`:
  `LosesContextsOnly`, `LosesPictureOnly` and `OneImagePerHandle` bound what is lost.
* `FFVideoFilter.cpp:157`: a frame that `av_buffersrc_add_frame` refuses is returned as a success,
  uncaptioned; `CarEyeOSDAPI.cpp:74` promises 0 for success and an error otherwise.
* `CarEyeOSDAPI.cpp:41`: a creation that runs out of memory at its frame (lines 25, 27) deletes
  `VideoFilter`, which nobody has set yet.
* `libavfilter/buffersrc.h:162` says of a failing `av_buffersrc_add_frame` that "the input frame
  is not touched"; after `buffersrc.c:258` it is gone.
* The descriptors of a caption call that fails before parsing (`FFVideoFilter.cpp:112`) are
  overwritten by the next call.
* `CarEyeDecoderAPI.cpp:282`, `CarEyeEncoderAPI.cpp:410`: planes are copied as one run of bytes
  whatever the line size. `PicturesArrive` says for which widths that is right.
* `CarEyeEncoderAPI.cpp:493`: the `break` at the end of a short block leaves the inner loop only, and
  each further line takes one sample from behind the input; `SamplesArrive` says that the
  samples given are nevertheless in place and that no read passes the size of a full block.
* `CarEyeJni.c:156`: `OpenOSD` returns nothing, and so does `Decode` for audio (line 326, `ret` is
  never set); `FFmpegNative.java:38` destroys a decoder with `ReleaseEncode`; `MainActivity.java:175`
  skips the destruction when an exception was thrown.
* `x264.h:906` says that `x264_encoder_encode` "returns negative on error"; a picture with a failed
  slice is returned as a success, and the error comes from the next call, whose own picture
  is then not encoded (`encoder.c:3333`).
* `libavfilter/pthread.c:74`: a worker that sleeps through exactly 2^32 batches takes the next for one
  it has seen (section 4, `FilterThreadsProofs`).

### Bounds, and why they are enough

* *Packets.* A context's state is its buffered packet, its buffered frame and its queue. Two
  packets per medium already reach every combination of "earlier packet left nothing, a frame,
  data, an error" with every shape. Three units per packet
  would only repeat the loop of `avcodec_receive_frame`.
* *Handles.* Nothing of a handle but what it leaked outlives it; two suffice, and the bound
  of leaks is proved for any number.
* *Pictures.* A caption handle's frame is raw, counted or empty, and descriptors are
  present or not: four calls reach all of it.
* *Jobs and workers.* Batches of one to four jobs on three workers give fewer jobs than
  workers, as many, and more; two batches let a worker that slept through one
  meet the next. `current_execute` is kept below its wrap (`ExecuteModulus`).
* *Threads and opens.* Two threads race to make the mutex, the third comes late; three
  opens allow an open with two helpers.
* *Buffers.* Two slots of the client and one of the reader let a buffer be shared within a thread
  and between threads, and dropped by both at once; two buffers, blocks and pools let a pool be given up
  with a buffer out while its successor is in use, and let every address be reused.
* *Slices.* With three slices one has a border on both sides; three calls are a picture whose slices
  fail, the call that gets the error, and the next picture.
* *Rounds.* Three: a call must not write what an earlier one left in the arrays, and may give the result of either of
  two earlier frames.
* *Inputs.* Three: with two held back and one B-frame the third overtakes a picture, and a failing call
  may lose the first, the overtaken, or itself.
* *Conversions.* Widths cover three periods of the alignment; header lengths cover the edges of the
  three bytes the length is spread over, and of its 13 bits; four characters hold every pair
  of special kinds between others.

### Fairness, and why the code justifies it

* `Decoder`: weak fairness of a thread's next step inside a call. A call holds no lock and
  waits for nothing, so a preemptive scheduler runs it on. No fairness on calls, creation or release.
  Fairness does not help a call whose codec is stuck: each iteration of its loop changes nothing.
* `OsdFilter`: weak fairness of the steps of a call, for the same reason; no liveness is
  claimed there beyond it.
* `FilterThreads`: weak fairness of each worker and of the graph's thread while it is not
  waiting. A mutex is taken by weak fairness although POSIX does not order waiters: with a bounded
  number of batches nobody can be overtaken for ever. The graph's thread is not obliged to start
  a batch or to end the pool, except that `ff_graph_thread_init` goes straight from a failed
  creation to the end.
* `CodecLock`: weak fairness of the steps of an open, once begun; the number of opens is
  finite in a program as in the model, so weak fairness is enough for the mutex.
* `BufferPool`: weak fairness of the steps of a call once begun (`ClientContinues`, each thread's
  `Continue`), none of beginning one. The mutex of a pool is held for a bounded number of steps of a
  call that goes on.
* `SliceThreads`: weak fairness of the caller inside a call and of each worker; none of `Encode` and
  `Close`, and none of spurious wakeups, on which nothing may depend.
* `Encoder`, `JniBridge` and `Conversions` claim no liveness.

Deadlock is checked in the decoder's, the encoder's, the workers' and the buffers' runs. The others may
stop: the caption model after a null pointer was followed or its bounds are used up, the
lock's when every thread has opened what it wanted, a session when it has ended, a
conversion when it is answered, the slice threads when the encoder is closed.

## 4. What is proved

TLAPS proves the following for all values of the constants that satisfy the modules'
assumptions (`DecoderAssumption`, `EncoderAssumption`, `OsdAssumption`, `LockAssumption`,
`PoolAssumption`, `BufferAssumption`, `BridgeAssumption`, `SliceAssumption`, `RequestAssumption`: the
special values are not members of the sets, sizes and bounds are natural numbers, a pool has at least
two workers, the allocator returns only free addresses, a block of samples has a channel and a
sample size). Every module with a state of its own but `Conversions` has its `TypeCorrect`; there
`AnswersFit` says more, namely which function each answer is a value of.

* **`DecoderProofs`** - `TypeCorrect`, `VideoIsNeverRefused`, `FramesAreNotMixed`, `RefusalLasts`,
  `LeaksAreBounded`, `Refinement`. None of the first four is inductive. `IInv` says that every unit in a context, in a call's packet and in a frame
  object comes from that medium's packets; that a video context never keeps input, and keeps a
  frame only between the send and the receive of one call; that without a handle nothing is
  buffered. `CopyReadsOwnFrame` follows because a frame moves only from a context to that medium's
  object. `RefusalLasts` is an action property: in a refusing context no step of a thread that
  is idle or about to send changes anything. `TypeCorrect` adds the variables that `IInv` has no
  use for (`RestTyped`). `LeaksAreBounded` counts: a handle adds its contexts to `leaked` once, at its end.
  `Refinement` proves `MediaInOrder`. For each step of a call a lemma (`SendMoves`, ...,
  `CopyOutMoves`) says what it does to `Pending(m)` and `out[m]`: a frame joins at the young end
  (`Joins`), the eldest is handed out (`Leaves`), some of the youngest are dropped (`Shrinks`),
  all begins anew (`Starts`), or nothing happens (`Stays`). That frames join as new ones needs an
  invariant: packets are numbered, and everything in the context and on its way out
  has a smaller number than the next (`Numbered`). The frames of a packet are a sub-sequence of
  its units, which `FramesOfSplit` takes apart as the codec does, one unit at a time.
* **`EncoderProofs`** - `TypeCorrect`, `SendIsNeverRefused`, `LossesAreCounted`, `InputsAreNotMixed`, from one
  invariant `CInv`: a context holds a valid packet only between the send and the receive of one
  call, a call holds one only between its receive and its copy (`PacketsInPlace`), the input a call copied in is in
  its frame until it is sent (`InputsInPlace`), and the inputs offered are as many as those not sent yet, those of
  failed calls, those in the context and the call, and those given out (`Counted`). The last holds
  because each outcome of `do_encode` that is an error leaves one input less than the call brought and had,
  and each other outcome as many (`DoEncodeCounted`). `LeaksAreBounded` bounds the pictures lost.
  `Refinement` proves `MediaInOrder`, of `ReorderChannel`. Its invariant (`Ordered`) says that
  everything behind a send has a smaller number than the next input, so that what the
  channel takes in is new; that the inputs held are in the order they came (`Rising`) and none of them has
  been given out; and how many later ones have overtaken each (`Within`): the first `behind` of them
  by at most `bframes + 1 - behind`, the others by none. Coding the picture `k` places ahead makes that true of the
  `k - 1` before it, and each of these coded in turn makes room for the next (`CodingWithin`); a packet
  that is lost overtakes nobody. Each step then is one of the channel for the medium it is about
  and a stutter for the other (`StepMaps`).
* **`OsdFilterProofs`** - `TypeCorrect`, `PictureStaysCallers`, `NoGraphSurvives`,
  `LeakIsBounded`. The strengthening `CallInProgress` says which picture `VFrame` shows while a
  call is in progress; the leak is bounded because raw planes are replaced by counted
  ones and never come back.
* **`CodecLockProofs`** - `TypeCorrect`, `LockExcludes`, `AssertionsHold`, `MutexIsOne`, for any
  set of threads. Exclusion needs that a mutex in place is never replaced (a thread before its
  swap has another), that whoever is behind the lock owns it, and that counter and flag are up
  exactly while someone is between `Count` and `Unlock`; the refusal and the failed relock are
  therefore unreachable.

* **`FilterThreadsProofs`** - `TypeCorrect`, `WorkersAreParked` and `Refinement` (every step of the
  pool is a step of `ParallelFor` or a stutter), for any number of workers, jobs, batches and
  spurious wakeups. The counter of jobs has several meanings, and `IInv` says which it has when.
  Until the first batch (`Creation`) it counts the workers that have entered, which makes their
  numbers distinct (`NumbersDistinct`). In a batch (`Batch`) every worker has a claim to one
  number - its own until it has seen the batch, then the one it was given; claims are distinct
  and below the counter, and a claimed job has no result before its worker has run it - and the
  counter is ahead of the number of threads by exactly the jobs whose worker has counted them.
  So when it has reached its end all jobs are counted (`AllCounted`), no claim can be a job, and
  nobody is in one. A worker may sleep through whole batches; one that slept through as many as
  there are batch numbers would take the new batch for one it has seen. It has no claim in it
  then, which is why the theorems need no bound on the batches; the batch would not
  return, so `ExecuteReturns` is checked with fewer batches than numbers, and the code has 2^32.

* **`BufferPoolProofs`** - `TypeCorrect`, `ReferencesAreSafe`, `PoolsAreSafe`, `NothingLeaks` and
  `Refinement` (of `PrivateCopies`), for any threads, slots, buffers, pools and any allocator. The
  invariant has five layers, each preserved with the help of those before it: what a thread's
  locals are for at each place (`Typed`, `Shapes`); a buffer's count is the number of pointers to it,
  less the decrement its last holder has made (`Counted`); a pool's count is the number of buffers
  out, plus one for the client and one for each thread about to leave, less one for a buffer handed
  out and not counted yet - that buffer belongs to the client, who still counts, which is why the
  late increment is harmless (`Pools`); a pool's mutex is held exactly in the critical sections,
  whose local copy of the list is the list (`Locked`); and each block of data is in one buffer, in
  one list, or in one call (`Blocks`).
* **`BridgeProofs`**, sessions - `TypeCorrect`, `WritesItsResults`, `ElementsAreReleased`,
  `HandlesAreDestroyed`, for sessions of any length. `Holding` says where in a call which elements
  are held, `Progress` where the frame of the round and what its call made are, so that no release of
  one array's elements writes over the other's, `Fresh` that nothing is made or written of a round
  before its time; `SameLayout` is why a
  decoder may be released as an encoder: both structures begin with the same four fields.
* **`BridgeProofs`**, data - `PicturesSkew`, `SamplesAreKept`, `HeadersAreRead`, `CaptionsAreDrawn`, for
  pictures, blocks, packets and texts of any size. The invariant is `AnswersFit`; the rest is
  about the functions.
  - *Pictures.* A plane copied as one run is in place exactly when its line size is its
    width (`CopiedInExactly`, `CopiedOutExactly`); otherwise the first pixel of the second line is
    not (`CopiedInSkewed`, `CopiedOutSkewed`). The chroma lines of `av_image_alloc` and of the frame pool
    have no gap exactly at widths that are multiples of 32 (`ImageStrides`, `PoolStrides`); the
    pool's loop ends after at most one round, which adds 16.
    The property is about even sizes of at least 2 by 4: with one chroma line there is
    nothing to skew.
  - *Samples.* Up to the end of the input, line `i` starts at sample `i * channels`, and
    from there on each line advances by at least one and never passes a full block
    (`LineStartsBound`); that is why the missing `break` does no harm.
  - *Headers.* Quotients and remainders: the 13 bits of the length are in three bytes and
    come back (`HeaderRead`); a rate of the table has one index (`FrequencyIndex`). The channels
    have three bits, so the property is about fewer than eight: with eight channels the carry
    changes the sampling frequency that is read.
  - *Captions.* The encoded text is the pieces of its characters put together
    (`EncodedJoined`), each at its own place (`JoinedPlaced`). `QuotedToken` follows the graph's
    reader through the quotes; `OptionRead` and `ExpandRead` follow the other two from the end of one
    piece to the end of the next, where they are in the state "plain" again and have put out
    as many pieces as they have read. Spaces survive because neither end of the text is one.
  - *Recursive functions.* `f[k \in S] == e` stands for a CHOOSE, which equals `e` only if such a
    function exists. `RecursionExists` shows it for every recursion whose steps stay in a set. It rests
    on `SetInduction`, which is induction over a *set* of numbers: it follows from the
    well-foundedness of inclusion on finite sets, and needs no operator as a parameter.
* **`SliceThreadsProofs`** - `TypeCorrect`, `ListsNeverFull`, `BordersAreDeblocked`, `AllSlicesAwaited`,
  `NoFailureIsLost` and `Refinement` (of `ParallelFor`), for any number of threads and calls.
  `Places` follows each slice from the dispatch to the wait: the slices nobody has waited for are
  those not dispatched, queued, at work or done, each in one place. `Counts` ties the job structures and the
  lengths of the lists to these sets: there are as many structures as slices, so what is still to be
  dispatched leaves one (`RoomInPool`). `Progress` says how far a slice is at each place of its worker,
  `Flow` where the caller is; at the set-up of a picture nothing is outstanding, hence nothing is
  queued or at work, and every failure has been found by a wait.

**Only model-checked:** liveness - `CallsReturn` of the decoder and of the slice threads,
`ExecuteReturns`, `PoolEnds`, `OpensReturn`, `PoolIsFreed`. It rests on fairness, hence on `ENABLED`,
which is out of the prover's reach here.

**What the proofs changed.** `expand_text`'s reader was a CASE with two arms that both apply to a
backslash behind a backslash; TLC takes the first, as the code does, but TLA+ leaves the choice
open, and the proof could not go on. `ExpandStep` now says which. `HeaderParses` was
true of the channel numbers that had been tried, and is now limited to those the header can hold.

## 5. What is not modelled, and why

* Signal processing, parsing of media formats, scaling, text rasterising: data. A codec is a queue.
* Draining: no caller sends NULL.
* `av_lockmgr_register` and the lock of libavformat: the bridge calls neither.
* Use of a handle after its release or from two threads for one medium: the headers forbid it.
* `CarEyeMPEGAPI.cpp`: two registrations under `pthread_once`. In `CarEyeJni.c`: the reading of
  parameter objects, and `ffmpeg_h264`, a separate test.
* The fixed sizes of the caption's text buffers; the activity's views.
* x264's encoding, its lookahead and frame threads; the failure of its pool's creation.
* libx265 and expat are not linked; build scripts and prebuilt libraries have no behaviour.

## 6. Plan

Done, in this order: `AvDecode`, `FifoChannel`, `Decoder`; `AvEncode`, `ReorderChannel`, `Encoder`; `OsdFilter`;
`FilterThreads`, `ParallelFor`; `CodecLock`; `PrivateCopies`, `BufferPool`; `Conversions`; `JniBridge`;
`SliceThreads`; and the proofs of each.

Left, the most valuable first:

1. Composition of `SliceThreads` with `Encoder`: a delay of one call for errors, none for packets.
2. Candidates: the creation of x264's pool with its failures, the lock-free registration lists of codecs and
   filters (`libavcodec/utils.c:178`, `libavfilter/avfilter.c:578`), the frame queues
   between filters (`libavfilter/framequeue.c`).
