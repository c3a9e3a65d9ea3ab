# A verification project for libutils and httpd

libutils is a C++ library of small classes (buffers, containers, files, sockets,
threads, HTTP) with an example web server, `code/httpd.cpp`, that uses most of
them. This directory holds TLA+ models of the parts whose correctness depends on
order: what threads, peers and other processes do between two steps of the code.
TLC checks each model on a small instance; TLAPS proves the safety properties of all of
them for every value of the constants. `PROJECT.json` maps every
definition to the source lines it models, lists the runs, the hazards of the code
with their lines, and what was found.

    tlc -config MCHttpdPool.cfg MCHttpdPool.tla     # one run
    tlapm HttpdPoolProofs.tla                       # one proof module

## Inventory

### The server

`main` (httpd.cpp:39-161) listens, accepts at most `NUMTHREADS` clients, gives each
a `Thread` with a `ThreadCTX`, and sweeps the slots of threads that finished.
`ProcessClient` (163-357) is such a thread: it reads one request, finds the file in
the settings, asks `HttpAccess`, responds, logs, shuts its socket down, clears
`running` and exits. The threads share one `LogFile`, one `IniFile` and one
`HttpAccess`, each with a recursive mutex (`Lockable`) that a thread takes for one call
or one block of log lines at a time; the flag `running` is shared with `main` under no
lock.

### Parts

| part | state | operations | what is hard | what makes it correct |
|---|---|---|---|---|
| accept loop and pool | listener, `availableThreads` (16 bit), `clients[]`, each context's `socket` and `running` | accept, hand over, start, sweep, join, unwind | `main` and the threads interleave; accept, start and sockets fail; peers stall | the counter equals the empty slots; a connection has one owner; no context is freed under a thread; one finished thread lets the next client in; only peers hold up the end |
| `Thread` | `m_ok`, `m_running`, `m_thread` | Start, Join, Kill, Cancel, destructor | calls in any order, each may fail | system calls only on a joinable thread; destruction waits for the thread |
| `ProcessClient` | its place, `authorized`, the type it looked up | log, read, look up, authorise, refuse or respond | threads take the shared mutexes in turn, nested; peers stall inside a call | blocks of log lines stand together; no thread waits for another one's peer |
| `HttpRequest::Read` | method, URI, version, fields, range, body; patience | the one call, over `Tokens::GetLine`, `Socket::Peek/Read` | bytes trickle in, stop, or end anywhere; stale `errno` | what is stored is what was sent; reading ends |
| `HttpRequest::Respond` | file position, range | the one call | the file changes while it is served; the peer leaves | bytes sent are the bytes announced; it returns |
| `HttpAccess` | password entries and `.htaccess` list, both cached; `m_lastAuth` | IsAuthorized, GetLastResult, RespondUnauthorized | files are edited between two looks; threads share the caches | a grant rests on what the files said during the call |
| `File` | cached `stat`, remembered time, `m_ready`, `FILE *` | Exists, IsModified, Open, Close, Seek, Read, Write | the cache is older than the disk | answers are about the file as it is |
| `Buffer` | memory and two cursors | Read, Write, Peek, Trim, Defragment, Contains | cursors at every boundary | a bounded queue of bytes |
| `Staque` | doubly linked nodes under reference counts | Push, Pop, Enqueue, Dequeue, Peek, GetAt, Clear | ends, emptiness, cycles of references | a sequence; links whole both ways; popped nodes are freed |
| `IniFile` | list of headings, `m_modTime` | ReadValue (reloads), WriteValue (saves) | other processes edit; a save truncates first | a value read is one the file held |
| `LogFile` | a path | Log | a line is 4 to 10 calls, each opens and closes the file and may fail | pieces of two threads do not mix |
| `Lock`, `Lockable` | owner, depth | Lock, Unlock | three levels deep in the logger | an inner unlock lets nobody in |
| `Socket` | `m_valid`, descriptor | Accept, Read, Peek, Write, Shutdown | every error shuts it down but EAGAIN | its callers notice |
| `HttpHelpers` | none | encode, decode, from a link to a path and type | odd lengths, `char` signed, dots and slashes dropped | a link leads back to the file it stands for |
| base 64 in `HttpAccess` | none | encode, decode | an int that loses bits, padding cut off | the bytes come back |
| `vic` | none | encode, offset, decode | the offset ends the digits anywhere | the opposite offset gives the text back |
| `Tokens` | none | GetLine, GetToken, classes of characters | no data is the end of a line | see `Read` |
| `BitMask` | a word | bit operations | locks two objects in the order of its operands | |
| `KeyValuePair`, `Serializable`, `NetInfo`, `Window` | little or none | helpers | | |
| `wordsearch` | two flags, a board | draw, wait for keys | `run` and `pause` are shared with the input thread under no lock; the join at the end waits for a key | |

Calls go downwards only: httpd calls `Socket`, `Thread`, `HttpRequest`, `HttpAccess`,
`IniFile`, `LogFile`; `HttpRequest` calls `Tokens`, `Socket`, `File`, `Buffer`;
`HttpAccess` calls `File`, `Tokens`, `Buffer`. There are no callbacks. What reaches a
part from the side is the peer (through the socket) and other processes (through the
files).

## Modules

| module | models | state and actions |
|---|---|---|
| `HttpdPool` | `main` and the frame of `ProcessClient` | one action per step of `main` that another thread can come between; `worker[s]` is the thread in slot `s`. Reading, authorising, responding and logging are one step, `Serve`, which need never happen |
| `ConnPool` | (abstract) the promise to clients | each connection is closed, pending, accepted or served; at most `Capacity` are served at once; they are accepted one at a time, only while listening and while a server is free |
| `ThreadObject` | the two flags of `Thread`, as functions | used by `Thread` and by `HttpdPool` |
| `Thread` | one `Thread` and its pthreads | one action per method; a waiting `pthread_join` is a guard |
| `Buffer` | every method | `mem[0]` is `*m_buffer`; `start`, `end` are the offsets of the cursors |
| `ByteFifo` | (abstract) a bounded queue of bytes | |
| `Staque` | every method, with the nodes reference counting keeps | a node is in `node` while something refers to it |
| `Deque` | (abstract) a sequence | |
| `FileObject` | `File`'s stat cache and its opening, as functions of the object and the disk | used by `HttpAccess` |
| `File` | one `File` under every sequence of calls, with its stream's buffer, and other programs at the path | one action per method, each a composition of functions from object and disk to object and disk (`RefreshStatCache`, `Opened`, `Flushed`, `Closed`, `Sought`), as the methods call one another; `changed`, `base`, `blind`, `asked`, `own`, `early` are histories |
| `HttpAccess` | `IsAuthorized` and `GetLastResult` by several threads | one action per look at the disk that can change an answer, inside the lock; a request names the directory that the looks at its path choose, or none for an empty path |
| `IniFile` | `ReadValue`, `WriteValue`, `LoadFile`, `SaveFile`, with the `File` under them | calls follow one another (the object's lock); inside a call each look at the disk and each write is an action. The text is counted in sections; a value is a sequence of characters, written as it is and read as `LoadFile` takes a line apart |
| `HttpRead` | `HttpRequest::Read` with `GetLine`, `GetToken`, `Socket::Peek`, `Socket::Read` | one action per look at the socket or per line parsed |
| `HttpRange` | the RANGE field taken apart and fitted to a file | functions |
| `HttpRespond` | `HttpRequest::Respond` with its `File` | one action per read of the file and the sending of it |
| `RecursiveLock` | `Lockable` and `Lock` | a record and functions |
| `Session` | `ProcessClient`, `LogAuthResult`, `LogFile` and the locks of the shared objects, for several threads | `at[t]` is a thread's place; it enters the mutex of a place, calls `Log` once per piece, and leaves to one of the places the code may go on to |
| `UriCoding` | `HttpHelpers` | functions on sequences of bytes; a disk is a function from paths to kinds |
| `Base64` | `DecodeBase64`, `Base64Encode` | functions |
| `Vic` | the cipher of `vic.cpp` and its `main` | functions |
| `Coding` | the three there and back, over inputs that grow by a character | a state per input |

`HttpdPool` composes the threads with `main`; `Session` is what lies inside of its
`Serve`, with the threads against one another; `IniFile`, `HttpRead`, `HttpAccess` and
`HttpRespond` are single steps of `Session` (a lookup, `ReadReturns`, a check,
`RespondReturns`) opened up, each with the actors that reach into it. Each `MC...` module gives the constants of one of them. In the
component modules an operator whose comment begins "Seeded fault" is a wrong variant
of the definition after it. No specification uses it: put in the place of that
definition, it makes a property fail, and so shows that the property is able to.

## Runs

| run | instance | asks |
|---|---|---|
| `pool` | 2 slots, 3 clients | the counter, ownership, joining; that the pool implements `ConnPool`; that finished threads let clients in; that once `main` has left its loop only a stalled peer keeps the process from ending |
| `buffer` | 4 bytes, 2 values, inputs of 0, 1, 2 and 5 bytes, counts 0..5 | cursors inside the memory; implements `ByteFifo` |
| `thread` | 3 pthreads | join, kill and cancel on joinable threads only |
| `staque` | 4 nodes, 2 values | links, freeing; implements `Deque` |
| `access` | 2 workers, 2 users, a directory and one below it, a request without a path, 2 seconds, 2 edits | grants justified; verdict logged |
| `settings` | 2 headings, one in two spellings, 1 key, values with a blank, a `=`, a comment, and of a comment alone, 3 files, 3 seconds, 3 edits, 1 crash | values read were in the file; each setting reads back as a line carries it |
| `read` | 12 requests, lines of up to 5 bytes, lengths with and without a sign and out of range, 2 fields, patience 2 | what is stored is what was sent; reading ends |
| `read_torn` | the same | the finding below |
| `respond` | sizes 0..3, 2 bytes at once, 1 edit, every RANGE of up to 3 tokens | bytes sent are those announced; untouched files are served to the end |
| `session` | 2 threads, 2 pieces a line, requests of 1 or 2 lines, the last 5 calls of `Log`, 1 of them lost | log blocks stay whole; lines end unless the piece that ends them is lost; each thread ends or waits for its own peer |
| `file` | files of 0..2 bytes, 3 seconds, modes r, w+ and a | IsModified tells the truth; the object sees its own writes |
| `coding` | texts, names and byte strings of up to 4 | what is encoded is decoded again, base 64 also with its padding cut and a space in it; a link leads back to its file, from an index asked for with its slash and without |

**Why the bounds are enough.** *Pool*: with two slots one can stall while the other is
used again and again, and the loop meets a slot before and one behind the one it fills;
three clients fill both slots and leave one waiting. Identities are used again once
nothing refers to them, so histories are unbounded. What holds for two slots is proved
for every number. *Buffer*: four bytes hold an interior, and every count meets zero,
less, equal and more. *Staque*: the smallest chain with two inner nodes. *Access*: two
directories are enough for a list cached for another one, two edits for a file deleted
and restored or changed twice in a second; every step of a call can fall between them.
A request without a path asks for credentials alone.
The clock and the number of edits are bounded (`MaxTime`, `MaxEdits`). *Settings*: the
file spells one heading twice, so that sections merge; a line carries one value whole,
one in part and one not at all; edits fall together in a
second or apart, around any step of a load or a save, and a crash (`MaxCrashes`) at any
of them; a file that goes, comes while it is loaded and goes again takes three edits.
What holds for these is proved for every number. *Read*: `MAXBUFFERLEN`, `MaxFields` and `Patience` stand for 65536-byte
buffers, 100 fields and 10 looks, and `MaxLong` = 15 for the greatest `long long`; there is a request for each side of each limit, and one
that announces more than it sends. What holds of the lines that were whole is proved for
every request and every limit. *Respond*: a file of three bytes needs two
reads, sizes and offsets meet on both sides, and one edit truncates or extends at any
moment. *Session*: two threads make every pair of places meet; two pieces are a line
with a middle to break, two lines a request with fields; a torn block is seen in the
last three calls and a line that goes on after a lost end in the last three as well, so
five calls (`CallsSeen`) leave room, and one loss (`MaxLost`) is enough for the exception.
What holds for two threads is proved for every number. *File*: two bytes make a position
before, at and behind each length; three seconds hold a change before, in and after the
second of a version; the three modes cover what `fopen` does (needs a file, truncates,
appends) and reading, writing and both. `r+`, `a+` and `w` combine the same. *Coding*: a
group of base 64 has three bytes and a fourth begins the next; a letter of the cipher has
one digit or two and a number needs two slashes with two characters between; an escape
has three characters. The first characters are any of the alphabet, the later ones one
of each class; the offsets shift the digits so that they end in each state.

**Deadlock** is checked in `pool`, `buffer`, `access`, `settings`, `session` and `file`,
which end in a stuttering step or never; in `session` it is what would happen if two
threads waited for each other's mutex. `Thread` and `Staque` end with their destruction, `Read` and
`Respond` with the return of the call, and `coding` with the longest input; there
`CHECK_DEADLOCK FALSE` is set.

**Fairness.** `HttpdPool` assumes weak fairness of `main` and of each thread: the
kernel runs every thread that can run. It assumes nothing of `Serve` (a peer may stall
for ever), of `Connect`, or of accept failing; `AcceptAgain` is not part of `main`'s
fair steps, since accept blocks until a client waits. `HttpRead` assumes that
the thread of the call runs, and nothing of the peer. `HttpRespond` assumes that too, and nothing of
the editor, but of the peer that it takes what is sent or goes away: `send` blocks on a peer that does
neither, for which the code has no timeout. `Session`
assumes weak fairness of what a thread does by itself (`Runs`): the kernel runs every
thread that can run, and two threads cannot starve a third because each leaves the mutexes
for good after finitely many blocks. Of `ReadReturns` and `RespondReturns` it assumes
nothing: they are up to the peer. The other modules state no liveness.

## What was found

`read_torn` shows a disagreement of the code with its documentation: a request line
that arrives apart from its line end makes `Read` drop every header field and answer
true without a timeout (HttpRequest.hpp:130-131, Tokens.cpp:167).

Also seen, and part of the models with no run of their own:

* `File::Exists` answers from a cached stat (File.cpp:479; File.hpp:116 says it checks). A
  password file that was missing at one look stays missing for `HttpAccess` although it is
  there again: every request is refused from then on.
* While it waits for a body, `Read` has no timeout: `Socket::Read( Buffer )` answers
  `Valid()`, not whether it read (HttpRequest.cpp:201-203, Socket.hpp:142).
* `Respond` may loop for ever on a file that does not open, shrinks or grows
  (HttpRequest.cpp:602 and 544); `UntouchedReturns` excepts these.
* `~Thread` joins only the last thread started, and not after a `Cancel` or a failed second
  `Start`, so that the context may be freed under a running thread (Thread.hpp:55 says it
  joins; httpd never does this, as `ContextOutlivesThread` shows).
* A value that `WriteValue` got is written as it is (IniFile.cpp:211-223) and read as a line: what follows a `;`, every
  blank and tab and every further `=` is lost, and a value of which nothing is left has no setting at all
  (IniFile.cpp:133, 171-185). Until the next load `ReadValue` answers it as it was written. `SavedReadsBack` says what comes
  back; what was read from a file is written and read again whole.
* A CONTENT-LENGTH may have a sign (Tokens.hpp:99). A negative one becomes a great number in `m_length`
  (HttpRequest.cpp:271), cut to 65536 like any that is too great: `Read` waits for that many
  bytes, and answers true with fewer if the peer closes. One that `stoll` cannot hold becomes 0.
* `WriteValue` answers true although nothing reached the file when it does not open
  (IniFile.hpp:124), overwrites what others wrote since the last load, and keeps a heading as
  spelled, which `ReadValue` then does not find unless it is in upper case.
* `Staque::Clear` leaves `m_length` (Staque.hpp:112 promises the current number), and neither
  it nor the destructor frees two or more linked nodes (Staque.hpp:104).
* `File`: a file that is absent when the object is made is never opened, so that no mode
  creates one (`m_ready`); `Close` of a file that is not open answers false, hence `Delete`
  removes only open files; `Position`, `Seek` and `SetMode` to the mode it has open a closed
  file, which in mode w empties it; `Size` after a buffered write is that of before until
  the stream is closed (`OwnChangesSeen` says exactly when).
* `HttpHelpers`: where `char` is signed, an escape with a character that is no hexadecimal
  digit decodes to one with zero in its place; doubled dots become one, so that an index
  entry with two dots in a row leads elsewhere (`LinksLeadBack` excepts it); `IntToHex`
  gives upper case (HttpHelpers.hpp:37 says lower). The extension comes with its dot (HttpHelpers.cpp:154),
  though HttpHelpers.hpp:65 and 75 promise it "without dot"; httpd.ini names the types with the dot, so that
  a look-up depends on it.
* A directory asked for without its last slash is listed like one with it (HttpHelpers.cpp:204-208; httpd sends no
  redirect). The links of the listing are relative, so that from `/d` they lead to `/name`, beside the directory.
  `LinksLeadBack` states both cases. "The slash is needed for relative links" (HttpRequest.cpp:729) is said of the links
  to directories, where it is kept.
* `IsAuthorized` grants a request with an empty path on the credentials alone, without a look at any list
  (HttpAccess.cpp:436-439). httpd passes one where the settings know no place or no type (httpd.cpp:238), and
  serves nothing for it.
* `vic` refuses offsets of one character. Digits that end in a 4 within a number lose the end of
  the text, although the comment at vic.cpp:407-408 says that `VicDecode` prevents data from
  getting lost: it adds a letter for the states `'0'` and `'4'` and nothing for `'N'`
  (vic.cpp:417-425). One character is lost, or two if the last digit of the text follows a 4.
  `VicRecovers` first said one: its proof did not go through for a 4 and another digit, and
  the run, with the text `/45` and an offset of four digits added to it, agreed.
* accept's transient errors end the server; finished slots are freed only after accept
  returns.

`ReadsWhatTheFileSays` of `IniFile` has five exceptions, and the model shows each to be
needed: an edit in the same second as the writing before it (whole seconds), whatever
happens to the file during a save, and a file that did not open when it was loaded; the
last two until the time of the file changes again. The fourth was found when the proof of
`Fresh` (below) did not go through, and then by a run with a third edit: `LoadFile` finds
no file and remembers the time 0, a file appears before it is read (IniFile.cpp:127-130),
and is removed afterwards. A missing file has the time 0 too (File.cpp:186-194), so that
`ReadValue` goes on answering from a file that is gone until there is one again. The fifth is a value that the
object has saved itself and that its line does not carry whole (`AsText`). Both
properties ask callers to spell headings in upper case (`CallersUseUpper`).

`UntornIsComplete` of `HttpRead` was too strong as first stated, and its proof showed it: a
peer that announces more bytes than it sends, and closes, leaves a body that is
shorter than `length`, while `Read` answers true and no timeout is recorded (HttpRequest.cpp:195-217 looks at
nothing but the socket). `Clean` excludes such requests, and the run
has some: the announcement is what `LengthOf` takes it for, so that a negative number announces the most that is kept.

## Proofs

TLAPS checks every theorem to its leaves, from the `ASSUME`s of the component modules
only. They say what the code has: 1 to 65535 slots, as the 16-bit counter requires
(`PoolAssumption`); a request's range is what `ParseRange` makes of its tokens, and a response from memory has
a size (`RespondAssumption`); the marker of the password file is no
directory and `Parent` leads from directories to directories (`AccessAssumption`); memory is finite
and a null pointer no node (`StaqueAssumption`); at least one piece to a line and one line to a block
(`SessionAssumption`); what is encoded are bytes, an offset is a sign and digits, and a name has neither a slash nor a
zero byte (`CodingAssumption`); a request has a method, its words have no blanks, its lines no line ends and its
keys no colons, and numbers have a greatest one (`ReadAssumption`); a name in upper case has nothing left to raise, and values have no line ends and not
both brackets, which would make them headings (`IniAssumption`);
the others are about types. None bounds a size that the runs bound.

Each proof has the same shape. The properties are seldom inductive by themselves; `IInv`
states them together with what the control points and the caches imply, TLC checks
`IInv` on the run's instance, one lemma per part or per action shows it preserved, and the theorems
follow.

* `HttpdPoolProofs`. Whether `~Thread` waits depends on the flags of the object, the counter
  on what each control point of `main` implies, ownership on the backlog. `IInv` states
  these together: `SlotInv` (an empty slot has no thread and no connection; an occupied one
  has a joinable thread, and `running` is false exactly in its last steps, after its
  connection was closed), `MainInv` (what `main`'s control points imply), `OwnerInv`
  (references are disjoint but for the hand-over), `BacklogInv` (pending connections,
  each once) and the counter. From it follow `TypeCorrect`, `CounterCorrect`,
  `OwnershipCorrect`, `SweepCorrect`, the action property `ContextCorrect`, and
  `PoolCorrect`: each step of the pool is a step of `ConnPool` or a stutter under the
  refinement mapping `Phase`.
  Its last section is about one `Thread` under every sequence of calls. `HandleCorrect`:
  whenever the flags let a call act, the handle names a thread that was created and not joined.
* `BufferProofs`. `TypeCorrect` and `CursorsCorrect`: the cursors are in order, inside
  the memory and meet only at its base, for every size and every input. The second
  rests on the last point: `Defragment` does nothing when the cursors are equal.
  `FifoCorrect` is the refinement of `ByteFifo`: the contents are the stretch of memory
  between the cursors, and each method does to that stretch what the queue's operation
  does to a sequence. The loop of `Contains` is a recursive function; that it exists and
  finds what stands in the contents is shown by the least number of bytes at which it would not.
* `StaqueProofs`. `IInv` says that there is a sequence of distinct nodes, the chain, whose
  neighbours the pointers name in both directions, with `m_start` and `m_end` at its ends,
  with `m_length` its length unless it is empty, and, until `Clear`, with no other node alive.
  `ChainKept` and `OnlyChainKept` say what reference counting makes of a heap with such
  a chain: the first that it keeps the chain, the second that a node beside it which nothing refers to goes
  (and `Pop` therefore has to drop both pointers). Each call has one lemma that names the
  chain it leaves (`PushBecomes`, `EnqueueBecomes`, `PopBecomes`, `EmptiedBecomes`).
  `Walks` shows that following `next` from `m_start` meets the chain's nodes in order,
  from which `LinkedCorrect`, `FreedCorrect` and the refinement of `Deque` follow
  (`DequeCorrect`).
* `SessionProofs`. `LogCorrect`: blocks stay whole, for every number of threads, of
  pieces to a line and of lines. `BlocksStayWhole` says nothing of who may log next, so
  `IInv` adds the lock and the order of the program. `Held`: a thread inside holds its mutex
  at depth one (a call of `Log` goes to two and comes back). `Owned`: the owner of a mutex is
  inside, so a second thread cannot be. `Behind`: what a thread has logged belongs to a
  block it is past or in, since the places have an order (`Rank`) and no step goes back;
  hence a block that is entered has no older pieces. `OpenToTheEnd`: after the first piece of
  a block that its thread is still in come only pieces of that block; when a piece is
  appended, this gives `BlocksStayWhole`. `LinesCorrect` adds that the pieces of a block
  are numbered in order without a gap (`Counted`), so that whoever leaves a block has called for the
  piece that ends the line.
  The second half of the module is about `HttpRead`, with which a session begins.
  `UntornIsGenuine` and `UntornIsComplete` speak of the end of a call only; the invariant
  (`ReadIInv`) says where the reader is in the request at every moment. `Laid` says where each
  line lies on the wire (`LaidOut`: the stream is its lines, each with its end, and the body;
  `Flattened` shows it for any number of fields). While no line was torn, `Stored` says that what was parsed
  so far is what was sent, `Placed` that the bytes taken are those up to the line that is due by
  the number of fields stored, and that the line buffer holds its beginning; `Ended` gives the reasons for which
  the call may have returned. `Typed` holds of torn lines as well: `ReadTypeCorrect`. That parsing a line
  gives back its parts is `FirstLine` and `FieldTokens`; that each action keeps the invariant is `WholeByte`,
  `WholeEnd`, `WholeField`, `WholeBody` and so on, one lemma for each. `GenuineCorrect` and
  `CompleteCorrect` follow.
* `HttpRespondProofs`. `PartialCorrect`: `InPart` relates the file position, what is left to send
  and what was sent, through every read and seek and whatever happens to the file.
  `UntouchedCorrect`: the loop over the whole file is `InWhole`, which holds only while nobody
  edits. `RangeCorrect` rests on `Announced` (what the range in force says at each control point) and on
  the arithmetic of `HttpRange`, for any numbers in the field.
  The second half of the module is about the listing of a directory. `LinksCorrect`: a link leads back to
  its entry, for names of every length and any bytes but a slash, and every default document that is
  written without escapes. `Takes` is one character: whether it was
  escaped or not, the decoder behind its encoding has done what it would do with the character alone (`Wrote`).
  `Reaches` relates the decoder behind the first k characters to the name: they are what it put out, since no dot
  leads or follows another (`ReachesDot`), and the extension it holds starts at the last dot of them (`ExtIs`).
  `Follows` carries this through the name wherever it stands in a link (`CharacterAt`), for the path and for the title.
  `PathBack` adds what comes before and behind, for any beginning that the decoder has read (`DirectoryLed`, `RootLed`), and `Resolved` looks the path up, with one case for what is taken for
  a directory and one for what is not. `Astray` is the link of an index without its slash.
* `HttpAccessProofs`. A cached password file or access list is a version that was at its path when it was read
  (`PasswdCache`, `AccessCache`); as the time in the cache is compared with the file's, a version that is used
  although it was read before the call is still the file's, or was edited twice in a second (`Dated`,
  `Latest`). `Walk` says of the way up from the requested directory that every directory behind it was looked at and
  had no list. With these a grant is justified when it is given (`GrantsCorrect`). `VerdictsCorrect` follows from
  `Verdicts`: after a worker's call, `m_lastAuth` is its verdict or one made after it.
  The next part is about the conversion the credentials go through. `Base64Correct`: every string of
  bytes comes back, wherever the padding is cut off and wherever a space comes in between.
  `Waits` says of the decoder that has read 4g + r digits which bytes are out and which bits of the
  next one it holds; `TripleIs` and `TextIs` say what `Base64Encode` writes, `ReadsNext` that one digit
  more, or one `=` after the last, keeps the relation, and `Follows` that a text with spaces goes through
  the same digits in the same order.
  The last section is about `vic`. `VicCorrect`: the opposite offset gives the text back, for every
  text in which the digits mean one text and every offset. `EncodesDecoded` says what the encoder makes of the decoder's own output,
  for any digits: the same digits, one more if they end in the middle of a letter, all but the last
  if that is a 4 in a number; its invariant (`Encoding`) is that the two go through the digits in step.
  `Prints` is the other direction: the digits of a text are read as that text (`Printed`), where slashes are
  paired up to the character (`Parity`) and a decoder that waits behind a 4 holds it back (`Held`). `TurnsBack`
  puts the opposite offset on what begins with the shifted digits, and `DigitsBack` has one case for each
  state that the offset leaves, of which `LosesLast` is the one that loses one or two characters.
* `FileProofs`. The methods call one another, so an action is a composition of functions on
  object and disk, and the proof follows it: `Sound` is what holds of object and disk between
  any two of these functions, each of them keeps it (`Flushed`, `Opened`, `Sought`, `Closed`, ...),
  and `BecomesKeeps` carries it over to the next state. `Knows` and `Changes` relate the
  remembered time to the history of the path (`ModifiedCorrect`); `Early` to the stream's buffer (`CacheCorrect`).

* `IniFileProofs`. `SavedCorrect`: every list that loads and writes leave is `Canonical` (its
  headings differ and are in upper case), and reading the text of such a list leaves each value as its line
  carries it (`ReadsBack`). `CarriedReads`, `CarriedClean` and `CarriedSame` say what a line carries of a value: its characters before a
  `;` that are neither blank, tab nor `=`, and of those again all. `ParsedMirrors` sets the sections beside those of the list,
  `LoadedIsText` says that what was loaded is carried whole, so that only what was written since can differ from its text. `Parsed` is a recursive function; that it exists for every content and what it
  computes is shown by the least number of sections for which it would not. `ReadsCorrect` rests on
  `Fresh`: while the remembered time is that of the file, memory holds what the file says,
  because no writing is older than the one before (`Dated`) and one in the same second is
  marked; and on `Latest`: what the path holds is among what was seen during the call.
  `Backed` carries this from the look at the file to the answer.

Where `TypeOK` is proved and its run shows nothing more (`HttpdPool`, `Thread`, `Buffer`, `Session`), the
run leaves it to the proof.

Only model-checked: liveness under fairness and everything about ENABLED (the temporal properties of
`pool`, `read`, `respond` and `session`), which are out of the prover's reach. Every invariant that a passing run
checks is proved. The prover cannot instantiate an induction principle over data; where a proof needs one
over numbers (`Contains`, the chain of `Staque`, `Parsed` and `Carried`, the lines of a request, the
value of a CONTENT-LENGTH, the text of `Base64Encode` and what `DecodeBase64` makes of it, the digits and the texts of `Vic`, the characters of a link), it goes through the least counterexample, by the
well-foundedness of the natural numbers.

## Not modelled

`Serializable`, `NetInfo`, `Window` and `KeyValuePair` have no state whose order matters;
`wordsearch` is drawing and chance around two flags; no program shares a `BitMask`. Of
`HttpHelpers` the escaping for HTML is left out, which is text only. Left out of
modelled parts: allocation failures (they throw), the text of replies and log lines,
hashes (who is listed in a password file has the password), a mutex that throws, Files made
from a `FILE *`. `Session` takes the answer of `RespondUnauthorized` as one that fits the
empty send buffer of its socket and so does not wait. A `fclose` that fails leaves `File`
with a stream that is gone (File.cpp:460); the models have that as an end of the process.

## Plan

In this order:

1. A small module on lock order for `BitMask`.
2. An `HttpRequest` that is used again (`Reset` clears neither `m_sset` nor `m_eset`).
