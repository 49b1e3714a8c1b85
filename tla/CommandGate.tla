---------------------------- MODULE CommandGate ----------------------------
(***************************************************************************)
(* The executor's judgement of the commands an agent reports (_is_blocked, *)
(* _confirm_violation, _rm_violation and _exempt of app/executor.py): which*)
(* of them stop the run to wait for a person, and which pass because the   *)
(* person approved them.                                                   *)
(*                                                                         *)
(* A command is the text an agent runs, as the executor cuts it: at every  *)
(* ; & | and end of line, also within the quotes of a message.  A segment  *)
(* has the words of its text, its own mark at the end among them, and what *)
(* _dws_send_target reads from it: the path of a dws command that sends,   *)
(* with the persons and groups it finds ("none" where it finds no send).   *)
(* The patterns run over the words of the whole command and the search for *)
(* rm over those of each segment, a message's text like any other.  A      *)
(* group is a conversation id or a name; ids are looked up with dws, which *)
(* may fail, and what it answers is kept for the life of the process.      *)
(***************************************************************************)
EXTENDS Naturals, Sequences, SequencesExt, FiniteSets

CONSTANTS
    Segment,        \* segments of the commands
    MaxSegments,    \* bound
    Pattern,        \* blocked_patterns: words, next to each other or with gaps
    Flag,           \* words that begin with "-"
    Recursive,      \* those of them that make an rm recursive
    SafePath,       \* in rm_safe_prefixes or the task's own home
    Conversation,   \* conversation ids
    Single,         \* those between two people
    Sensitive       \* confirm_recipients

Command == BoundedSeq(Segment, MaxSegments) \ {<<>>}
Mark == {";", "&", "|", "newline"}

VARIABLES
    cache,      \* _CID_INFO_CACHE: conversation -> "none", "single", "group"
    exempt,     \* the command approved for this run, or <<>>
    last        \* the command that stopped the run, and the conversations
                \* dws told about then

vars == <<cache, exempt, last>>

NoCommand == [cmd |-> <<>>, heard |-> {}]
Init ==
    /\ cache = [c \in Conversation |-> "none"]
    /\ exempt = <<>>
    /\ last = NoCommand

---------------------------------------------------------------------------
\* What _dws_send_target returns: two lists, as they are written.
IsSend(s) == s.path # "none"
Sends(cmd) == {cmd[i] : i \in {j \in DOMAIN cmd : IsSend(cmd[j])}}
Recipients(s) == ToSet(s.persons) \cup ToSet(s.groups)

\* What is known of a conversation once the lookups of those in `heard'
\* succeed; failures are not kept.
TypeOf(c) == IF c \in Single THEN "single" ELSE "group"
Known(c, heard) == IF cache[c] = "none" /\ c \in heard THEN TypeOf(c) ELSE cache[c]

\* _confirm_violation of one segment: a sensitive recipient, several persons,
\* a group by name, or a conversation not known to be between two.
PlainlyMany(s) ==
    \/ Recipients(s) \cap Sensitive # {}
    \/ Len(s.persons) >= 2
    \/ ToSet(s.groups) \ Conversation # {}
NeedsConfirmation(s, heard) ==
    IsSend(s) /\ (PlainlyMany(s) \/ \E c \in ToSet(s.groups) : Known(c, heard) # "single")

\* Where each word of a command stands, and which comes first.
Places(cmd) == UNION {{<<i, k>> : k \in DOMAIN cmd[i].words} : i \in DOMAIN cmd}
Before(a, b) == a[1] < b[1] \/ (a[1] = b[1] /\ a[2] < b[2])

\* re.search over the whole text.
WordAt(cmd, x) == cmd[x[1]].words[x[2]]
MatchesPattern(cmd) ==
    \E p \in Pattern :
    \E at \in [DOMAIN p.words -> {x \in Places(cmd) : WordAt(cmd, x) \in ToSet(p.words)}] :
        /\ \A n \in DOMAIN p.words : WordAt(cmd, at[n]) = p.words[n]
        /\ \A n, m \in DOMAIN p.words : n < m => Before(at[n], at[m])
        /\ p.gaps \/ \A n \in DOMAIN p.words \ {1}, x \in Places(cmd) :
                         ~(Before(at[n - 1], x) /\ Before(x, at[n]))

\* _rm_targets: the words after the first rm of a segment.
RmWords(s) ==
    {s.words[k] : k \in
        {n \in DOMAIN s.words : \E j \in DOMAIN s.words : j < n /\ s.words[j] = "rm"}} \ Mark

\* _rm_violation: a recursive rm of a path outside the safe prefixes and the
\* task's own home.
RmViolation(cmd) ==
    \E i \in DOMAIN cmd : LET found == RmWords(cmd[i]) IN
        found \cap Recursive # {} /\ found \ (Flag \cup SafePath) # {}

IsBlocked(cmd, heard) ==
    \/ MatchesPattern(cmd)
    \/ \E i \in DOMAIN cmd : NeedsConfirmation(cmd[i], heard)
    \/ RmViolation(cmd)

\* The conversations asked for, in turn, up to the first that gives a reason
\* to stop.
Asked(cmd, heard) ==
    {c \in Conversation :
        /\ ~MatchesPattern(cmd)
        /\ \E i \in DOMAIN cmd :
             /\ \A j \in 1..(i - 1) : ~NeedsConfirmation(cmd[j], heard)
             /\ IsSend(cmd[i]) /\ ~PlainlyMany(cmd[i])
             /\ \E k \in DOMAIN cmd[i].groups :
                  /\ cmd[i].groups[k] = c
                  /\ \A j \in 1..(k - 1) : Known(cmd[i].groups[j], heard) = "single"}

CachedFailures(asked, heard) ==
    [c \in Conversation |-> IF c \notin asked THEN cache[c]
                            ELSE IF Known(c, heard) = "none" THEN "group" ELSE Known(c, heard)]
Cached(asked, heard) ==
    [c \in Conversation |-> IF c \in asked THEN Known(c, heard) ELSE cache[c]]

\* _send_signatures: the targets of a command's sends.
Signatures(cmd) == UNION {{<<s.path, r>> : r \in Recipients(s)} : s \in Sends(cmd)}

\* str.startswith, of the words.
Begins(cmd, first) ==
    /\ Len(first) <= Len(cmd)
    /\ \A i \in DOMAIN first : IF i < Len(first) THEN cmd[i].words = first[i].words
                               ELSE IsPrefix(first[i].words, cmd[i].words)

\* _exempt: by the targets when both commands send, else by the text.
Exempt(cmd) ==
    /\ exempt # <<>>
    /\ IF Signatures(cmd) # {} /\ Signatures(exempt) # {}
       THEN Signatures(cmd) \cap Signatures(exempt) # {}
       ELSE Begins(cmd, exempt)

---------------------------------------------------------------------------
\* The agent reports a command.  A blocked one ends the run.
Judge(cmd, heard) ==
    /\ cache' = Cached(Asked(cmd, heard), heard)
    /\ last' = IF IsBlocked(cmd, heard) /\ ~Exempt(cmd) THEN [cmd |-> cmd, heard |-> heard]
               ELSE NoCommand
    /\ UNCHANGED exempt

\* The task goes on with the approval of the command that stopped it, or
\* another run begins without one.
Resume ==
    /\ last # NoCommand
    /\ exempt' = last.cmd /\ last' = NoCommand
    /\ UNCHANGED cache

NewRun ==
    /\ exempt' = <<>> /\ last' = NoCommand
    /\ UNCHANGED cache

Next ==
    \/ \E cmd \in Command, heard \in SUBSET Conversation : Judge(cmd, heard)
    \/ Resume \/ NewRun

Spec == Init /\ [][Next]_vars

---------------------------------------------------------------------------
(* Properties                                                              *)

\* What a command sends to somebody, in whatever words and order.
Sent(cmd) == {<<s.path, Recipients(s)>> : s \in {x \in Sends(cmd) : Recipients(x) # {}}}

\* The words of a command and of its messages.
Said(s) == ToSet(s.words)
SaidIn(cmd) == UNION {Said(cmd[i]) : i \in DOMAIN cmd}

\* A send that may need a person: not to one, or to a sensitive one, or to
\* what dws would not call a conversation between two.
ToMany(s, heard) ==
    \/ Len(s.persons) + Cardinality(ToSet(s.groups)) # 1
    \/ Recipients(s) \cap Sensitive # {}
    \/ ToSet(s.groups) \ (Single \cap heard) # {}

\* A person is not asked twice for the same sends: the resumed agent may put
\* them into other words and another order and add commands around them.  And
\* who is asked has a reason to be: a command and its messages that say no
\* pattern's words and no rm with a recursive flag and a path outside the
\* safe ones pass, to one person or to a conversation that dws says now is
\* between two, however often the lookup failed before.  (A message that says
\* such words does stop the run, and so does one person named twice.)
AskedForGoodReason ==
    last # NoCommand =>
        /\ ~(Sent(last.cmd) = Sent(exempt) /\ Sent(exempt) # {})
        /\ \/ \E p \in Pattern : ToSet(p.words) \subseteq SaidIn(last.cmd)
           \/ \E i \in DOMAIN last.cmd :
                LET s == last.cmd[i] IN
                \/ /\ Said(s) \cap Recursive # {}
                   /\ \E j, k \in DOMAIN s.words :
                        j < k /\ s.words[j] = "rm" /\ s.words[k] \notin Flag \cup SafePath \cup Mark
                \/ IsSend(s) /\ ToMany(s, last.heard)
=============================================================================
