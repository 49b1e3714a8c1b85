----------------------------- MODULE Knowledge -----------------------------
(***************************************************************************)
(* The team's shared skills, MCP servers and memory: the dashboard uploads *)
(* and deletes them (main.py), prepare_run (shared_knowledge.py) puts what *)
(* is there into the work directory of the run that starts, and the agent  *)
(* reads it from there.  A task that resumes another works in its directory*)
(* and finds what earlier runs left.  The service may be restarted with the*)
(* other engine.                                                           *)
(*                                                                         *)
(* A skill is the set of its files; a server's configuration is one that   *)
(* claude understands, another, or none; a memory has text or is blank.    *)
(* Handlers and prepare_run do not wait, so each is one step.              *)
(***************************************************************************)
EXTENDS Naturals, FiniteSets

CONSTANTS
    Skill, Server, Note,    \* names that pass _check_shared_name
    Dir                     \* work directories

VARIABLES
    skills, servers, notes, \* what is shared
    engine,
    conventions,    \* the workspace has an AGENTS.md, which claude's memory file begins with
    dir,        \* what prepare_run left in each directory
    ran         \* history: the run prepared from what is shared now, or NoRun

shared == <<skills, servers, notes>>
vars == <<shared, engine, conventions, dir, ran>>

NoFile == {"no file"}
NewDir == [made |-> FALSE, mcp |-> NoFile, agentsMd |-> NoFile, claudeMcp |-> NoFile,
           claudeMd |-> NoFile, links |-> {}]

NoRun == [dir |-> "none"]

Init ==
    /\ skills = [s \in Skill |-> {}]
    /\ servers = [s \in Server |-> "none"]
    /\ notes = [n \in Note |-> "none"]
    /\ engine = "opencode" /\ conventions \in BOOLEAN
    /\ dir = [d \in Dir |-> NewDir]
    /\ ran = NoRun

---------------------------------------------------------------------------
(* The dashboard                                                           *)

SkillUpload(s, f) ==
    /\ skills' = [skills EXCEPT ![s] = @ \cup {f}]
    /\ ran' = NoRun /\ UNCHANGED <<servers, notes, engine, dir>>

SkillDelete(s) ==
    /\ skills[s] # {}
    /\ skills' = [skills EXCEPT ![s] = {}]
    /\ ran' = NoRun /\ UNCHANGED <<servers, notes, engine, dir>>

McpUpload(s, c) ==
    /\ servers' = [servers EXCEPT ![s] = c]
    /\ ran' = NoRun /\ UNCHANGED <<skills, notes, engine, dir>>

McpDelete(s) ==
    /\ servers[s] # "none"
    /\ McpUpload(s, "none")

MemoryUpload(n, text) ==
    /\ notes' = [notes EXCEPT ![n] = text]
    /\ ran' = NoRun /\ UNCHANGED <<skills, servers, engine, dir>>

MemoryDelete(n) ==
    /\ notes[n] # "none"
    /\ MemoryUpload(n, "none")

\* A restart with the engine changed.
Reconfigure ==
    /\ engine' = IF engine = "claude" THEN "opencode" ELSE "claude"
    /\ UNCHANGED <<shared, dir, ran>>

---------------------------------------------------------------------------
(* prepare_run                                                             *)

\* load_shared_mcp, and of it what _claude_mcp_entry can convert.
SharedMcp == {s \in Server : servers[s] # "none"}
ClaudeMcp == {s \in Server : servers[s] = "known"}
\* shared_memory_text: the memories that are not blank.
SharedMemory == {n \in Note : notes[n] = "text"}
\* The skills that _prepare_claude links.
WithSkillMd == {s \in Skill : "SKILL.md" \in skills[s]}

\* A file is written when there is something to write, else left alone.
Written(old, content) == IF content = {} THEN old ELSE content

PrepareMerged(f) ==
    [f EXCEPT !.made = TRUE, !.mcp = IF @ = NoFile THEN SharedMcp ELSE @ \cup SharedMcp,
              !.agentsMd = Written(@, SharedMemory)]

\* opencode: its configuration is made anew from the global one, the memory
\* goes to AGENTS.md; the skills are read where they are.
PrepareOpencode(f) ==
    [f EXCEPT !.made = TRUE, !.mcp = SharedMcp, !.agentsMd = Written(@, SharedMemory)]

\* claude: links to the skills, claude-mcp.json, CLAUDE.md.
PrepareClaude(f) ==
    [f EXCEPT !.made = TRUE, !.links = @ \cup WithSkillMd,
              !.claudeMcp = Written(@, ClaudeMcp),
              !.claudeMd = IF conventions THEN SharedMemory ELSE Written(@, SharedMemory)]

Run(d) ==
    /\ dir' = [dir EXCEPT ![d] = IF engine = "claude" THEN PrepareClaude(@) ELSE PrepareOpencode(@)]
    /\ ran' = [dir |-> d, engine |-> engine, reused |-> dir[d].made]
    /\ UNCHANGED <<shared, engine>>

Step ==
    \/ \E s \in Skill : SkillDelete(s) \/ \E f \in {"SKILL.md", "other"} : SkillUpload(s, f)
    \/ \E s \in Server : McpDelete(s) \/ \E c \in {"known", "unknown"} : McpUpload(s, c)
    \/ \E n \in Note : MemoryDelete(n) \/ \E t \in {"text", "blank"} : MemoryUpload(n, t)
    \/ Reconfigure
    \/ \E d \in Dir : Run(d)

Next == Step /\ UNCHANGED conventions

Spec == Init /\ [][Next]_vars

---------------------------------------------------------------------------
(* Properties                                                              *)

Read(content) == IF content = NoFile THEN {} ELSE content

\* A run reads exactly what is shared when it starts, whatever runs used its
\* directory before and with which engine.  One kind of exception: when the
\* last memory, or the last server claude knows, has been deleted, a reused
\* directory keeps the file of an earlier run.
LoadsWhatIsShared ==
    ran # NoRun =>
        LET f == dir[ran.dir] IN
        IF ran.engine = "opencode"
        THEN /\ Read(f.mcp) = SharedMcp
             /\ Read(f.agentsMd) = SharedMemory \/ (ran.reused /\ SharedMemory = {})
        ELSE /\ f.links \cap WithSkillMd = WithSkillMd
             /\ Read(f.claudeMcp) = ClaudeMcp \/ (ran.reused /\ ClaudeMcp = {})
             /\ Read(f.claudeMd) = SharedMemory \/ (ran.reused /\ SharedMemory = {} /\ ~conventions)
=============================================================================
