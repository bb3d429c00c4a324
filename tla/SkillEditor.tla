------------------------------- MODULE SkillEditor -------------------------------
(***************************************************************************)
(* The skills page (web/src/components/skills/SkillsPage.tsx) against the  *)
(* skills and files of the server (api/skills.py).                         *)
(*                                                                         *)
(* The page reloads through effects: the list whenever the selection or    *)
(* the key of the new skill changes, the files whenever the selected skill *)
(* becomes another object, which each list makes it, or another file is    *)
(* selected. A load compares its result with the selection at the time it  *)
(* was started. A handler's steps after an await, the renders and the      *)
(* effects they cause are one action. A text is named by the skill it was  *)
(* written for, "" is the empty one.                                       *)
(***************************************************************************)
EXTENDS ClientCalls, FiniteSets

CONSTANTS
    SkillIds,      \* skills that exist or are yet to be created
    SkillPaths,    \* file paths next to SKILL.md
    FirstSkills,   \* the sets of skills that may exist when the page is opened
    SkillBound     \* bounds on calls and clicks

ASSUME SkillEditorAssumption ==
    /\ "SKILL.md" \notin SkillPaths /\ FirstSkills \subseteq SUBSET SkillIds
    /\ SkillBound \in Bounds

VARIABLES
    skillRows,   \* the server's skills: the enabled ones and the others
    skillFiles,  \* their files: a text per path
    unborn,      \* ids not given out yet
    skills,      \* as skillRows
    selected,    \* selectedSkillId
    files,       \* as skillFiles of one skill
    filePath,    \* selectedFilePath
    keyBlank,    \* newSkillKey is empty
    outdated,    \* auxiliary: what need not be as the server has it, list or files
    moved,       \* auxiliary: the selection changed under a call about files
    mixed        \* auxiliary: a file was saved when another skill's may have been shown

editorVars == <<skillRows, skillFiles, unborn, skills, selected, files, filePath, keyBlank,
                outdated, moved, mixed>>

skillServerVars == <<skillRows, skillFiles, unborn>>

AllPaths == {"SKILL.md"} \cup SkillPaths

NoFiles == <<>>

\* Skills are records; their order, by the last update, is left open.
SkillRow(id, on) == [id |-> id, on |-> on]

SkillIdsOf(list) == {s.id : s \in list}

ListSkills(then) == Request("list", Nothing, [selected |-> selected, blank |-> keyBlank, then |-> then])

ListFiles(id, path, then) == Request("files", id, [path |-> path, then |-> then])

FileKinds == {"files", "write", "remove"}

EditorRequests == {Request("list", Nothing, [selected |-> Nothing, blank |-> TRUE, then |-> Nothing])}

EditorInit ==
    /\ \E born \in FirstSkills : skillRows = {SkillRow(s, TRUE) : s \in born}
    /\ unborn = SkillIds \ SkillIdsOf(skillRows)
    /\ skillFiles = [s \in SkillIds |-> IF s \in unborn THEN NoFiles
                                        ELSE [p \in AllPaths |-> s]]
    /\ skills = {} /\ selected = Nothing /\ files = NoFiles /\ filePath = Nothing
    /\ keyBlank = TRUE
    /\ outdated = {"list", "files"} /\ moved = FALSE /\ mixed = FALSE

-----------------------------------------------------------------------------
\* The server.

ServeEditorRead(r) ==
    /\ r \in DOMAIN asked
    /\ \/ r.kind = "list" /\ Reply(r, TRUE, TRUE, skillRows)
       \/ r.kind = "files" /\ r.id \in SkillIdsOf(skillRows) /\ Reply(r, TRUE, TRUE, skillFiles[r.id])
    /\ UNCHANGED editorVars

ServeCreateSkill(r) ==
    /\ r \in DOMAIN asked /\ r.kind = "create"
    /\ \E s \in unborn :
        /\ unborn' = unborn \ {s}
        /\ skillRows' = skillRows \cup {SkillRow(s, TRUE)}
        /\ skillFiles' = [skillFiles EXCEPT ![s] = [p \in {"SKILL.md"} |-> s]]
        /\ Reply(r, TRUE, TRUE, s)
    /\ UNCHANGED <<skills, selected, files, filePath, keyBlank, outdated, moved, mixed>>

ServeUpdateSkill(r) ==
    /\ r \in DOMAIN asked /\ r.kind = "update" /\ r.id \in SkillIdsOf(skillRows)
    /\ skillRows' = {s \in skillRows : s.id # r.id} \cup {SkillRow(r.id, r.arg)}
    /\ Reply(r, TRUE, TRUE, SkillRow(r.id, r.arg))
    /\ UNCHANGED <<skillFiles, unborn, skills, selected, files, filePath, keyBlank, outdated, moved,
                   mixed>>

ServeDeleteSkill(r) ==
    /\ r \in DOMAIN asked /\ r.kind = "delete" /\ r.id \in SkillIdsOf(skillRows)
    /\ skillRows' = {s \in skillRows : s.id # r.id}
    /\ skillFiles' = [skillFiles EXCEPT ![r.id] = NoFiles]
    /\ Reply(r, TRUE, TRUE, Nothing)
    /\ UNCHANGED <<unborn, skills, selected, files, filePath, keyBlank, outdated, moved, mixed>>

\* validate_skill_markdown: SKILL.md must name its own skill.
ServeWrite(r) ==
    /\ r \in DOMAIN asked /\ r.kind = "write" /\ r.id \in SkillIdsOf(skillRows)
    /\ r.arg.path = "SKILL.md" => r.arg.text = r.id
    /\ skillFiles' = [skillFiles EXCEPT ![r.id] =
                         [p \in DOMAIN @ \cup {r.arg.path} |->
                             IF p = r.arg.path THEN r.arg.text ELSE @[p]]]
    /\ Reply(r, TRUE, TRUE, Nothing)
    /\ UNCHANGED <<skillRows, unborn, skills, selected, files, filePath, keyBlank, outdated, moved,
                   mixed>>

ServeRemove(r) ==
    /\ r \in DOMAIN asked /\ r.kind = "remove" /\ r.arg.path \in DOMAIN skillFiles[r.id]
    /\ skillFiles' = [skillFiles EXCEPT ![r.id] = [p \in DOMAIN @ \ {r.arg.path} |-> @[p]]]
    /\ Reply(r, TRUE, TRUE, Nothing)
    /\ UNCHANGED <<skillRows, unborn, skills, selected, files, filePath, keyBlank, outdated, moved,
                   mixed>>

RefuseEdit(r) ==
    /\ r \in DOMAIN asked
    /\ Reply(r, FALSE, TRUE, Nothing)
    /\ UNCHANGED editorVars

-----------------------------------------------------------------------------
\* Rendering with this list, selection, files and selected path, and the effects.
\* fresh: the selected skill is another object, newKey: the key has changed, i:
\* the answer that came back, 0 for a click; rs: what the handler itself asks for.
Effects(list, id, has, path, fresh, newKey) ==
    LET shown == id \in SkillIdsOf(list)
        reload == id # selected \/ newKey
        again == fresh \/ id # selected \/ path # filePath \/ (shown # (selected \in SkillIdsOf(skills)))
    IN  [files |-> IF again /\ ~shown THEN NoFiles ELSE has,
         path |-> IF again /\ ~shown THEN Nothing ELSE path,
         ask |-> (IF reload
                  THEN {Request("list", Nothing, [selected |-> id, blank |-> keyBlank /\ ~newKey, then |-> Nothing])}
                  ELSE {})
                 \cup (IF again /\ shown THEN {ListFiles(id, path, Nothing)} ELSE {})]

Rendered(i, list, id, has, path, fresh, newKey) ==
    LET e == Effects(list, id, has, path, fresh, newKey)
    IN  /\ skills' = list /\ selected' = id
        /\ files' = e.files /\ filePath' = e.path
        /\ moved' = IF id = selected THEN moved
                    ELSE \E r \in (IF i = 0 THEN Requests
                                   ELSE DOMAIN asked \cup {answers[j].to : j \in DOMAIN answers \ {i}}) :
                             r.kind \in FileKinds
        /\ IF i = 0 THEN Ask(SkillBound, e.ask) ELSE Receive(SkillBound, i, e.ask)

Now(what, clean) == IF clean THEN outdated \ {what} ELSE outdated \cup {what}

\* loadSkills: after a creation the new skill is selected.
SkillsCame(i) ==
    LET a == answers[i]
        list == a.is
        old == a.to.arg
    IN  /\ a.ok /\ a.to.kind = "list"
        /\ \E id \in SelectedAfter(old, SkillIdsOf(list), selected),
              newKey \in Renewed(old, keyBlank) :
             Rendered(i, list, id, files, filePath, id \in SkillIdsOf(list), newKey)
        /\ keyBlank' = (keyBlank /\ Renewed(old, keyBlank) = {FALSE})
        /\ outdated' = Now("list", ~a.overtaken)
        /\ UNCHANGED <<skillServerVars, mixed>>

\* loadSkills catches its error: a creation goes on.
SkillsFailed(i) ==
    LET then == answers[i].to.arg.then
    IN  /\ ~answers[i].ok /\ answers[i].to.kind = "list"
        /\ Rendered(i, skills, IF then = Nothing THEN selected ELSE then, files, filePath, FALSE,
                    then # Nothing)
        /\ keyBlank' = (keyBlank /\ then = Nothing)
        /\ outdated' = Now("list", FALSE)
        /\ UNCHANGED <<skillServerVars, mixed>>

\* loadFiles: selectedFilePath, too, is the one of the render that started it.
PathAfter(to, has) ==
    IF to.then # Nothing THEN {to.then}
    ELSE IF to.path \in DOMAIN has THEN {filePath}
    ELSE IF has # NoFiles THEN {CHOOSE p \in DOMAIN has : p = "SKILL.md" \/ "SKILL.md" \notin DOMAIN has}
    ELSE IF to.path = Nothing THEN {filePath} ELSE {Nothing}

\* The files are shown whichever skill is selected by now.
FilesCame(i) ==
    LET a == answers[i]
    IN  /\ a.ok /\ a.to.kind = "files"
        /\ \E path \in PathAfter(a.to.arg, a.is) :
             Rendered(i, skills, selected, a.is, path, FALSE, FALSE)
        /\ outdated' = Now("files", ~a.overtaken)
        /\ UNCHANGED <<skillServerVars, keyBlank, mixed>>

FilesFailed(i) ==
    LET a == answers[i]
    IN  /\ ~a.ok /\ a.to.kind = "files"
        /\ Rendered(i, skills, selected, NoFiles, a.to.arg.then, FALSE, FALSE)
        /\ outdated' = Now("files", FALSE)
        /\ UNCHANGED <<skillServerVars, keyBlank, mixed>>

\* After a creation or a deletion the list is loaded as in the render of the
\* click; only the selection after a creation differs.
ChangeCame(i) ==
    LET a == answers[i]
        r == a.to
    IN  /\ a.ok
        /\ \/ r.kind = "create"
              /\ Receive(SkillBound, i, {Request("list", Nothing, [r.arg EXCEPT !.then = a.is])})
           \/ r.kind = "delete"
              /\ Receive(SkillBound, i, {Request("list", Nothing, r.arg)})
           \/ r.kind = "write"
              /\ Receive(SkillBound, i, {ListFiles(r.id, r.arg.shown, r.arg.path)})
           \/ r.kind = "remove"
              /\ Receive(SkillBound, i, {ListFiles(r.id, r.arg.shown, Nothing)})
        /\ UNCHANGED editorVars

UpdateCame(i) ==
    LET a == answers[i]
        old == {s \in skills : s.id = a.to.id}
    IN  /\ a.ok /\ a.to.kind = "update"
        /\ Rendered(i, IF old = {} THEN skills ELSE (skills \ old) \cup {a.is},
                    selected, files, filePath, old # {} /\ a.to.id = selected, FALSE)
        /\ outdated' = IF a.overtaken THEN outdated \cup {"list"} ELSE outdated
        /\ UNCHANGED <<skillServerVars, keyBlank, mixed>>

\* A change that failed, or whose answer was lost: nothing is loaded.
ChangeFailed(i) ==
    /\ answers[i].to.kind \in Changes
    /\ Receive(SkillBound, i, {})
    /\ outdated' = IF answers[i].ok THEN {"list", "files"} ELSE outdated
    /\ UNCHANGED <<skillServerVars, skills, selected, files, filePath, keyBlank, moved, mixed>>

-----------------------------------------------------------------------------
\* The user.

shownVars == <<skillServerVars, skills, selected, files, filePath, keyBlank, outdated, moved, mixed>>

SelectSkill(s) ==
    /\ s \in SkillIdsOf(skills) /\ s # selected
    /\ Rendered(0, skills, s, files, filePath, FALSE, FALSE)
    /\ UNCHANGED <<skillServerVars, keyBlank, outdated, mixed>>

SelectFile(p) ==
    /\ p \in DOMAIN files /\ p # filePath
    /\ Rendered(0, skills, selected, files, p, FALSE, FALSE)
    /\ UNCHANGED <<skillServerVars, keyBlank, outdated, mixed>>

\* Each keystroke in the field of the new key; an empty one is derived again.
\* Refresh is this without a change.
TypeKey(blank) ==
    /\ Ask(SkillBound, {Request("list", Nothing,
                                   [selected |-> selected, blank |-> blank, then |-> Nothing])})
    /\ keyBlank' = blank
    /\ UNCHANGED <<skillServerVars, skills, selected, files, filePath, outdated, moved, mixed>>

CreateSkill ==
    /\ ~keyBlank
    /\ Ask(SkillBound, {Request("create", Nothing, ListSkills(Nothing).arg)})
    /\ UNCHANGED shownVars

Shown == selected \in SkillIdsOf(skills)

\* Save Skill sends the enabled flag of the list, Enable and Disable the other one.
UpdateSkill(on) ==
    /\ Shown
    /\ Ask(SkillBound, {Request("update", selected, on)})
    /\ UNCHANGED shownVars

DeleteSkill ==
    /\ Shown
    /\ Ask(SkillBound, {Request("delete", selected, ListSkills(Nothing).arg)})
    /\ UNCHANGED shownVars

\* A text typed into an empty file is written for the skill on the screen.
SaveFile ==
    /\ Shown /\ filePath \in DOMAIN files
    /\ Ask(SkillBound,
           {Request("write", selected,
                    [path |-> filePath, shown |-> filePath,
                     text |-> IF files[filePath] = "" THEN selected ELSE files[filePath]])})
    /\ mixed' = (mixed \/ moved \/ \E r \in Requests : r.kind \in FileKinds)
    /\ UNCHANGED <<skillServerVars, skills, selected, files, filePath, keyBlank, outdated, moved>>

CreateFile(p) ==
    /\ Shown
    /\ Ask(SkillBound, {Request("write", selected, [path |-> p, shown |-> filePath, text |-> ""])})
    /\ UNCHANGED shownVars

DeleteFile(p) ==
    /\ Shown /\ p \in DOMAIN files \ {"SKILL.md"}
    /\ Ask(SkillBound, {Request("remove", selected, [path |-> p, shown |-> filePath])})
    /\ UNCHANGED shownVars

EditorNext ==
    \/ \E r \in DOMAIN asked : \/ ServeEditorRead(r) \/ ServeCreateSkill(r) \/ ServeUpdateSkill(r)
                               \/ ServeDeleteSkill(r) \/ ServeWrite(r) \/ ServeRemove(r)
                               \/ RefuseEdit(r)
    \/ \E i \in DOMAIN answers : \/ SkillsCame(i) \/ SkillsFailed(i) \/ FilesCame(i) \/ FilesFailed(i)
                                 \/ ChangeCame(i) \/ UpdateCame(i) \/ ChangeFailed(i)
    \/ \E s \in SkillIds : SelectSkill(s)
    \/ \E p \in AllPaths : SelectFile(p)
    \/ \E p \in SkillPaths : CreateFile(p) \/ DeleteFile(p)
    \/ \E b \in BOOLEAN : TypeKey(b) \/ UpdateSkill(b)
    \/ CreateSkill \/ DeleteSkill \/ SaveFile

-----------------------------------------------------------------------------
SkillRowType == [id : SkillIds, on : BOOLEAN]

EditorTypeOK ==
    /\ skillRows \subseteq SkillRowType /\ skills \subseteq SkillRowType
    /\ selected \in SkillIds \cup {Nothing} /\ filePath \in AllPaths \cup {Nothing}
    /\ \A s \in SkillIds : DOMAIN skillFiles[s] \subseteq AllPaths
    /\ DOMAIN files \subseteq AllPaths
    /\ keyBlank \in BOOLEAN /\ moved \in BOOLEAN /\ mixed \in BOOLEAN

\* No skill gets a text that was written for another, unless it was saved while
\* files were still being loaded or after the selection had changed under such a
\* load. Once nothing is under way, the page lists the server's skills, and of the
\* selected one, if it is still there, its own files: unless a call failed, an
\* answer was overtaken by a later one, or the selection changed while a call about
\* another skill's files was under way.
SkillEditorKeeps ==
    /\ ~mixed => \A s \in SkillIds : \A p \in DOMAIN skillFiles[s] : skillFiles[s][p] \in {s, ""}
    /\ (Quiet /\ outdated = {} /\ ~moved) =>
        /\ skills = skillRows
        /\ selected \in SkillIdsOf(skills) => files = skillFiles[selected]
=============================================================================
