----------------------------- MODULE TaskLoader -----------------------------
(***************************************************************************)
(* Kernel/Multitasking/TaskLoader.cpp and ELF/ELFLoader.cpp: a thread that    *)
(* starts a program keeps the request on its own stack and blocks; the main   *)
(* thread of the new process loads the file, builds the first stack of the    *)
(* program, stores its answer in the request and wakes the starter, which     *)
(* returns and takes the request with it.                                    *)
(*                                                                         *)
(* A file is what do_load() finds: it may not open, its header may be short   *)
(* or refused, and it has program headers. The first stack is a function      *)
(* from the distance below the stack's end to the word or text put there.    *)
(***************************************************************************)
EXTENDS Integers, Sequences, FiniteSets, SequencesExt

CONSTANTS
    Files,          \* records [opens, header, segments]
    Texts,          \* records [text, size]: the arguments and the environment are sequences of them
    MaxTexts,
    PageSize,
    Word            \* sizeof(ptr_t): 4 or 8

Null == 0
NoError == "NO_ERROR"
Invalid == "INVALID_ARGUMENT"
NoFile == "NO_SUCH_FILE"

VARIABLES
    request,        \* the LoadRequest: file, argv, envp, streams, error_code; alive while its stack frame is
    starter,        \* "idle", "blocking", "blocked", "returned"
    m_should_block,   \* of the ProcessLoadBlocker
    answer,         \* what load_from_file() returned
    loader,         \* where do_load() is
    current_offset, \* the program header it reads next
    regions,        \* the segments that were loaded: pages allocated and bytes copied
    streams,        \* the process's m_io_streams
    invulnerable,
    stack,
    touchedDead     \* do_load() used the request after load_from_file() returned

loadVars == <<request, starter, m_should_block, answer, loader, current_offset, regions, streams, invulnerable, stack, touchedDead>>

TextSeqs == UNION {[1 .. n -> Texts] : n \in 0 .. MaxTexts}

NoRequest == [file |-> "none", argv |-> << >>, envp |-> << >>, streams |-> {}, error_code |-> NoError, alive |-> FALSE]

Init ==
    /\ request = NoRequest
    /\ starter = "idle"
    /\ m_should_block = TRUE
    /\ answer = "none"
    /\ loader = "none"
    /\ current_offset = 1
    /\ regions = << >>
    /\ streams = {}
    /\ invulnerable = FALSE
    /\ stack = << >>
    /\ touchedDead = FALSE

-----------------------------------------------------------------------------
(* load_from_file() *)

create_user ==
    /\ starter = "idle"
    /\ \E file \in Files, argv, envp \in TextSeqs, given \in {{}, {0, 1, 2}} :
           request' = [file |-> file, argv |-> argv, envp |-> envp, streams |-> given, error_code |-> NoError, alive |-> TRUE]
    /\ starter' = "blocking"
    /\ loader' = "start"
    /\ UNCHANGED <<m_should_block, answer, current_offset, regions, streams, invulnerable, stack, touchedDead>>

\* Scheduler::block() blocks only if nobody called unblock() yet.
block ==
    /\ starter = "blocking"
    /\ starter' = "blocked"
    /\ UNCHANGED <<request, m_should_block, answer, loader, current_offset, regions, streams, invulnerable, stack, touchedDead>>

Return ==
    /\ starter = "blocked"
    /\ ~m_should_block
    /\ answer' = IF request.error_code # NoError THEN request.error_code ELSE "process"
    /\ request' = [request EXCEPT !.alive = FALSE]
    /\ starter' = "returned"
    /\ UNCHANGED <<m_should_block, loader, current_offset, regions, streams, invulnerable, stack, touchedDead>>

-----------------------------------------------------------------------------
(* do_load(). Every step reads or writes the request that the starter owns. *)

Goes(place) == loader' = place /\ touchedDead' = (touchedDead \/ ~request.alive)

Fails(code) == request' = [request EXCEPT !.error_code = code] /\ Goes("failed")

open ==
    /\ loader = "start"
    /\ invulnerable' = TRUE
    /\ IF request.file.opens THEN Goes("header") /\ UNCHANGED request ELSE Fails(NoFile)
    /\ UNCHANGED <<starter, m_should_block, answer, current_offset, regions, streams, stack>>

\* The header is complete, valid, has program headers, and they have the right size.
validate_header ==
    /\ loader = "header"
    /\ IF request.file.header /\ request.file.segments # << >>
       THEN Goes("segments") /\ UNCHANGED request
       ELSE Fails(Invalid)
    /\ UNCHANGED <<starter, m_should_block, answer, current_offset, regions, streams, invulnerable, stack>>

round_down(address) == address - (address % PageSize)
round_up(address) == IF address = 0 THEN PageSize ELSE round_down(address + PageSize - 1)

\* The region's pages, and the bytes that stream.read() fills.
Region(ph) ==
    LET begin == round_down(ph.virtual_address)
    IN  [begin |-> begin,
         end |-> round_up(begin + ph.bytes_in_memory),
         filled |-> ph.virtual_address .. ph.virtual_address + ph.bytes_in_file - 1]

LoadSegment ==
    /\ loader = "segments"
    /\ current_offset <= Len(request.file.segments)
    /\ LET ph == request.file.segments[current_offset]
       IN  IF ph.type = "SHORT" THEN Fails(Invalid) /\ UNCHANGED <<current_offset, regions>>
           ELSE /\ regions' = IF ph.type = "LOAD" THEN Append(regions, Region(ph)) ELSE regions
                /\ current_offset' = current_offset + 1
                /\ Goes("segments")
                /\ UNCHANGED request
    /\ UNCHANGED <<starter, m_should_block, answer, streams, invulnerable, stack>>

-----------------------------------------------------------------------------
(* The first stack. sp is the distance below the stack's end. *)

push_str(s, text) == [sp |-> s.sp + text.size + 1, put |-> Append(s.put, <<s.sp + text.size + 1, text>>)]
push_ptr(s, value) == [sp |-> s.sp + Word, put |-> Append(s.put, <<s.sp + Word, value>>)]

\* The texts from the last to the first, and where each of them is, in that order.
push_texts(s, texts) == FoldLeft(push_str, s, Reverse(texts))
AddressesOf(s, texts) == [i \in 1 .. Len(texts) |-> push_texts(s, SubSeq(texts, Len(texts) - i + 1, Len(texts))).sp]

words_per_16_bytes == 16 \div Word

\* Mutant: the padding is one word whatever was pushed.
Padding_word(words) == IF words % words_per_16_bytes = 0 THEN 0 ELSE Word

\* "misalign stack to N to keep 16 byte alignment after push".
Padding(words) ==
    IF words % words_per_16_bytes = 0 THEN 0 ELSE (words_per_16_bytes - (words % words_per_16_bytes)) * Word

FirstStack(argv, envp) ==
    LET empty == [sp |-> 0, put |-> << >>]
        withEnvp == push_texts(empty, envp)
        withArgv == push_texts(withEnvp, argv)
        aligned == [withArgv EXCEPT !.sp = ((@ + 15) \div 16) * 16 + Padding(Len(argv) + Len(envp))]
        words == <<Null, Null>> \o AddressesOf(empty, envp) \o <<Null>> \o AddressesOf(withEnvp, argv) \o <<Len(argv)>>
    IN  FoldLeft(push_ptr, aligned, words)

\* allocate_user_stack(), the streams, the first stack.
BuildStack ==
    /\ loader = "segments"
    /\ current_offset > Len(request.file.segments)
    /\ streams' = streams \union request.streams
    /\ stack' = FirstStack(request.argv, request.envp)
    /\ Goes("built")
    /\ UNCHANGED <<request, starter, m_should_block, answer, current_offset, regions, invulnerable>>

\* error_code = NO_ERROR on the way to userspace; TERMINATE_WITH_ERROR stored its code already.
Answer ==
    /\ loader = "built"
    /\ request' = [request EXCEPT !.error_code = NoError]
    /\ Goes("answered")
    /\ UNCHANGED <<starter, m_should_block, answer, current_offset, regions, streams, invulnerable, stack>>

unblock ==
    /\ loader \in {"failed", "answered"}
    /\ m_should_block' = FALSE
    /\ Goes(IF loader = "failed" THEN "exiting" ELSE "jumping")
    /\ UNCHANGED <<request, starter, answer, current_offset, regions, streams, invulnerable, stack>>

\* set_invulnerable(false), then jump_to_userspace() or exit_process().
Leave ==
    /\ loader \in {"exiting", "jumping"}
    /\ invulnerable' = FALSE
    /\ loader' = IF loader = "jumping" THEN "userspace" ELSE "exited"
    /\ UNCHANGED <<request, starter, m_should_block, answer, current_offset, regions, streams, stack, touchedDead>>

Next ==
    \/ create_user \/ block \/ Return
    \/ open \/ validate_header \/ LoadSegment \/ BuildStack \/ Answer \/ unblock \/ Leave

-----------------------------------------------------------------------------
TypeOK ==
    /\ starter \in {"idle", "blocking", "blocked", "returned"}
    /\ loader \in {"none", "start", "header", "segments", "built", "answered", "failed", "jumping", "exiting", "userspace", "exited"}
    /\ request.error_code \in {NoError, Invalid, NoFile}
    /\ answer \in {"none", "process", Invalid, NoFile}
    /\ m_should_block \in BOOLEAN /\ invulnerable \in BOOLEAN /\ touchedDead \in BOOLEAN

\* The word or text at a distance below the stack's end.
At(distance) == LET k == CHOOSE i \in 1 .. Len(stack.put) : stack.put[i][1] = distance IN stack.put[k][2]
WordAt(i) == At(stack.sp - i * Word)

\* What a program finds from its stack pointer upwards: argc, argv and its null, envp and its null.
StackExact ==
    LET argc == Len(request.argv)
    IN  /\ stack.sp % 16 = 0
        /\ WordAt(0) = argc
        /\ \A i \in 1 .. argc : At(WordAt(i)) = request.argv[i]
        /\ WordAt(argc + 1) = Null
        /\ \A i \in 1 .. Len(request.envp) : At(WordAt(argc + 1 + i)) = request.envp[i]
        /\ WordAt(argc + 2 + Len(request.envp)) = Null
        /\ \A i, j \in DOMAIN stack.put : i < j => stack.put[i][1] < stack.put[j][1]

\* Whatever the file is and whoever is faster, do_load() never uses the request after load_from_file()
\* returned; load_from_file() answers with the process exactly when the program goes to userspace, with
\* the error it ended with otherwise; and the program starts on a stack that holds its arguments and
\* its environment in order, with its streams in place. The bytes of a segment that begins with a page
\* go into the pages allocated for it (of one that does not, the code forgets the bytes before it).
LoadsExact ==
    /\ ~touchedDead
    /\ starter = "returned" => /\ (answer = "process") <=> loader \in {"jumping", "userspace"}
                               /\ answer \in {"process", request.error_code}
    /\ loader \in {"exiting", "exited"} => request.error_code # NoError
    /\ \A i \in DOMAIN regions :
           regions[i].begin \in regions[i].filled => regions[i].filled \subseteq regions[i].begin .. regions[i].end - 1
    /\ loader = "userspace" => StackExact /\ streams = request.streams /\ ~invulnerable
=============================================================================
