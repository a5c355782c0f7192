--------------------------- MODULE EmailTemplates ---------------------------
(***************************************************************************)
(* The catalog of e-mail templates and their stored versions.  Root users  *)
(* save, roll back and disable; a request reads the template, validates    *)
(* its draft and then calls one procedure, a transaction under the lock of *)
(* the catalog row.  Mail is queued with the code of its template only and *)
(* the worker resolves the code when it renders.                           *)
(***************************************************************************)
EXTENDS Naturals, FiniteSetsExt

CONSTANTS
    Codes,        \* template codes
    Builtin,      \* those with a body in TEMPLATES
    Internal,     \* those with a purpose companion services may send
    Editors,      \* requests of root users
    Letters,      \* mail
    LetterCode,   \* the code of each mail
    Off, Unknown, \* no body: the code is disabled, there is none
    MaxVersions   \* bound on the stored versions of a code

ASSUME TemplateAssumption ==
    /\ Builtin \subseteq Codes /\ LetterCode \in [Letters -> Codes] /\ MaxVersions \in Nat
    /\ Off \notin Nat /\ Unknown \notin Nat /\ Off # Unknown

VARIABLES
    catalog,  \* email_template_catalog: the codes with a row, and whether it is enabled
    versions, \* email_templates: how many versions of a code are stored
    inUse,    \* the versions with is_active
    edits,    \* the requests in progress
    letters,  \* mail, from the request to the provider
    written   \* what the last write of a code said: its body, or Off

templateVars == <<catalog, versions, inUse, edits, letters, written>>

InCode == 0  \* the body of TEMPLATES
NoEdit == [at |-> "idle"]
NoLetter == [st |-> "none", body |-> InCode]

\* The rows of the built-in codes are seeded, dynamic codes are created.
TemplatesInit ==
    /\ catalog = [c \in Codes |-> [row |-> c \in Builtin, on |-> TRUE]]
    /\ versions = [c \in Codes |-> 0] /\ inUse = [c \in Codes |-> {}]
    /\ edits = [e \in Editors |-> NoEdit] /\ letters = [m \in Letters |-> NoLetter]
    /\ written = [c \in Codes |-> IF c \in Builtin THEN InCode ELSE Unknown]

-----------------------------------------------------------------------------
(* The body a code stands for *)

\* sp_email_template_get_active joins the greatest version that is active.
_template_from_row(c) ==
    IF inUse[c] # {} THEN Max(inUse[c])
    ELSE IF c \in Builtin THEN InCode ELSE Unknown

Known(c) == catalog[c].row \/ c \in Builtin

resolve_template(c) ==
    IF ~Known(c) THEN Unknown
    ELSE IF ~catalog[c].row THEN InCode
    ELSE IF ~catalog[c].on THEN Off ELSE _template_from_row(c)

-----------------------------------------------------------------------------
(* The requests of an editor: read, validate, write *)

_load_template(e, c, what) ==
    /\ edits[e] = NoEdit /\ Known(c)
    /\ edits' = [edits EXCEPT ![e] = what]
    /\ UNCHANGED <<catalog, versions, inUse, letters, written>>

EditBegins(e, c) ==
    \/ _load_template(e, c, [at |-> "update", code |-> c])
    \/ _load_template(e, c, [at |-> "disable", code |-> c])
    \/ resolve_template(c) \notin {Off, Unknown} /\ _load_template(e, c, [at |-> "test", code |-> c])
    \/ \E v \in 1 .. versions[c] : _load_template(e, c, [at |-> "rollback", code |-> c, v |-> v])

\* The draft is not valid, the provider refuses the test or the database fails.
EditRefused(e) ==
    /\ edits[e] # NoEdit /\ edits' = [edits EXCEPT ![e] = NoEdit]
    /\ UNCHANGED <<catalog, versions, inUse, letters, written>>

create_email_template(c) ==
    /\ c \notin Builtin /\ ~catalog[c].row
    /\ catalog' = [catalog EXCEPT ![c].row = TRUE]
    /\ versions' = [versions EXCEPT ![c] = 1] /\ inUse' = [inUse EXCEPT ![c] = {1}]
    /\ written' = [written EXCEPT ![c] = 1] /\ UNCHANGED <<edits, letters>>

\* The one procedure of an edit: whatever it writes, the code is enabled again.
Enabled(e, kind) ==
    LET c == edits[e].code IN
    /\ edits[e].at = kind /\ catalog[c].row
    /\ catalog' = [catalog EXCEPT ![c].on = TRUE]
    /\ edits' = [edits EXCEPT ![e] = NoEdit] /\ UNCHANGED letters

update_email_template(e) ==
    LET c == edits[e].code  v == versions[c] + 1 IN
    /\ edits[e].at = "update" /\ v <= MaxVersions /\ Enabled(e, "update")
    /\ versions' = [versions EXCEPT ![c] = v] /\ inUse' = [inUse EXCEPT ![c] = {v}]
    /\ written' = [written EXCEPT ![c] = v]

\* Mutation: the version in use so far stays active beside the older one.
rollback_beside(e) ==
    LET c == edits[e].code  v == edits[e].v IN
    /\ Enabled(e, "rollback") /\ inUse' = [inUse EXCEPT ![c] = @ \cup {v}]
    /\ written' = [written EXCEPT ![c] = v] /\ UNCHANGED versions
rollback_email_template(e) ==
    LET c == edits[e].code  v == edits[e].v IN
    /\ edits[e].at = "rollback" /\ Enabled(e, "rollback") /\ inUse' = [inUse EXCEPT ![c] = {v}]
    /\ written' = [written EXCEPT ![c] = v] /\ UNCHANGED versions

disable_email_template(e) ==
    LET c == edits[e].code IN
    /\ edits[e].at = "disable" /\ catalog[c].row
    /\ catalog' = [catalog EXCEPT ![c].on = FALSE]
    /\ edits' = [edits EXCEPT ![e] = NoEdit] /\ written' = [written EXCEPT ![c] = Off]
    /\ UNCHANGED <<versions, inUse, letters>>

\* The template is read a second time before the test goes out past the outbox.
send_test_email_template(e) ==
    LET c == edits[e].code IN
    /\ edits[e].at = "test" /\ resolve_template(c) # Off
    /\ edits' = [edits EXCEPT ![e] = [at |-> "tested", code |-> c, body |-> resolve_template(c)]]
    /\ UNCHANGED <<catalog, versions, inUse, letters, written>>

Edits(e) ==
    \/ EditRefused(e) \/ update_email_template(e) \/ rollback_email_template(e)
    \/ disable_email_template(e) \/ send_test_email_template(e)

-----------------------------------------------------------------------------
(* Mail *)

LetterGoes(m, st, body) ==
    /\ letters' = [letters EXCEPT ![m] = [st |-> st, body |-> body]]
    /\ UNCHANGED <<catalog, versions, inUse, edits, written>>

\* Companion services ask for a code; activation and reset mail names a built-in one.
send_template_email(m) ==
    LET c == LetterCode[m] IN
    /\ letters[m] = NoLetter /\ c \in Internal
    /\ resolve_template(c) \notin {Off, Unknown} /\ LetterGoes(m, "queued", InCode)
QueueBuiltin(m) ==
    /\ letters[m] = NoLetter /\ LetterCode[m] \in Builtin \ Internal /\ LetterGoes(m, "queued", InCode)

\* A failing lookup leaves the mail queued for a retry; what follows is EmailOutbox.
render_transactional_template(m) ==
    LET b == resolve_template(LetterCode[m]) IN
    /\ letters[m].st = "queued"
    /\ LetterGoes(m, CASE b = Off -> "cancelled" [] b = Unknown -> "dead" [] OTHER -> "rendered",
                  IF b \in {Off, Unknown} THEN InCode ELSE b)

TemplatesNext ==
    \/ \E e \in Editors : Edits(e) \/ \E c \in Codes : EditBegins(e, c)
    \/ \E c \in Codes : create_email_template(c)
    \/ \E m \in Letters : \/ send_template_email(m) \/ QueueBuiltin(m)
                          \/ render_transactional_template(m)

TemplatesSpec == TemplatesInit /\ [][TemplatesNext]_templateVars

-----------------------------------------------------------------------------
(* Mail is rendered, and a test sent, from the body the last save or       *)
(* rollback of its code named, whatever was written between the request    *)
(* and the rendering and however many requests write at once, and never    *)
(* after the code was disabled (resolve_template, which trusts is_active   *)
(* and the greatest version).                                              *)
MailFollowsLastWrite ==
    [][/\ \A m \in Letters : letters[m].st = "queued" /\ letters'[m].st = "rendered" =>
             letters'[m].body = written[LetterCode[m]]
       /\ \A e \in Editors : edits[e].at = "test" /\ edits'[e].at = "tested" =>
             edits'[e].body = written[edits[e].code]]_templateVars
=============================================================================
