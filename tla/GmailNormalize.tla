------------------------------ MODULE GmailNormalize ------------------------------
(***************************************************************************)
(* What normalizeGmailMessage() makes of a payload                         *)
(* (packages/backend/libs/adapters, gmail/normalize.ts): the body and the  *)
(* attachments of a MIME tree, and the participants of the address headers.*)
(*                                                                         *)
(* A part is a record; its texts are values, Absent for null or undefined. *)
(* A header value is a sequence of character classes: "a" stands for any   *)
(* character that the code does not look for.                              *)
(***************************************************************************)
EXTENDS Naturals, Sequences, SequencesExt

Absent == "absent"

-----------------------------------------------------------------------------
(* walk().                                                                  *)

IsAttachment(part) ==
    part.filename # "" \/ part.attachmentId # Absent \/ part.disposition = "attachment"

ToAttachment(part) ==
    [filename |-> part.filename, contentType |-> part.mimeType,
     externalAttachmentId |-> part.attachmentId, disposition |-> part.disposition]

NothingYet == [text |-> Absent, html |-> Absent, attachments |-> <<>>]

\* Seeded fault: the last leaf of a type wins.
FillsAlways(found, slot, part) == [found EXCEPT ![slot] = part.data]

Fills(found, slot, part) ==
    IF found[slot] = Absent THEN [found EXCEPT ![slot] = part.data] ELSE found

RECURSIVE Walk(_, _)
Walk(part, found) ==
    CASE IsAttachment(part) ->
             [found EXCEPT !.attachments = Append(@, ToAttachment(part))]
      [] ~IsAttachment(part) /\ part.parts # <<>> ->
             FoldLeft(LAMBDA f, child : Walk(child, f), found, part.parts)
      [] ~IsAttachment(part) /\ part.parts = <<>> ->
             IF part.data = Absent THEN found
             ELSE IF part.mimeType = "text/plain" THEN Fills(found, "text", part)
             ELSE IF part.mimeType = "text/html" THEN Fills(found, "html", part)
             ELSE found

-----------------------------------------------------------------------------
(* The address headers.                                                     *)

Blank == " "
Trim(s) ==
    LET ink == {i \in DOMAIN s : s[i] # Blank}
    IN IF ink = {} THEN <<>> ELSE SubSeq(s, Min(ink), Max(ink))

\* Seeded fault: quotes are not looked at.
ScannedUnquoted(scan, ch) ==
    LET inAngle == IF ch = "<" THEN TRUE ELSE IF ch = ">" THEN FALSE ELSE scan.inAngle
        cut     == ch = "," /\ ~inAngle
    IN [scan EXCEPT !.parts = IF cut THEN Append(@, scan.current) ELSE @,
                    !.current = IF cut THEN <<>> ELSE Append(@, ch), !.inAngle = inAngle]

\* splitAddressList(): one character.
Scanned(scan, ch) ==
    LET inQuotes == IF ch = "\"" THEN ~scan.inQuotes ELSE scan.inQuotes
        inAngle  == IF ch = "<" THEN TRUE ELSE IF ch = ">" THEN FALSE ELSE scan.inAngle
        cut      == ch = "," /\ ~inQuotes /\ ~inAngle
    IN [parts    |-> IF cut THEN Append(scan.parts, scan.current) ELSE scan.parts,
        current  |-> IF cut THEN <<>> ELSE Append(scan.current, ch),
        inQuotes |-> inQuotes, inAngle |-> inAngle]

SplitAddressList(value) ==
    LET scan == FoldLeft(Scanned, [parts |-> <<>>, current |-> <<>>,
                                inQuotes |-> FALSE, inAngle |-> FALSE], value)
    IN SelectSeq([i \in 1..Len(scan.parts) + 1 |->
                    Trim(Append(scan.parts, scan.current)[i])], LAMBDA p : p # <<>>)

Unquote(s) ==
    IF Len(s) >= 2 /\ s[1] = "\"" /\ s[Len(s)] = "\"" THEN SubSeq(s, 2, Len(s) - 1) ELSE s

\* The last "<" from which nothing but the final ">" closes: ^(.*)<([^>]+)>\s*$.
Opening(s) ==
    {i \in 1..Len(s) - 2 : s[i] = "<" /\ s[Len(s)] = ">"
                             /\ \A k \in i + 1..Len(s) - 1 : s[k] # ">"}

NoAddress == [handle |-> <<>>, displayName |-> <<>>]

ParseAddress(s) ==
    IF Opening(s) = {} THEN [handle |-> s, displayName |-> <<>>]
    ELSE LET i      == Max(Opening(s))
             handle == Trim(SubSeq(s, i + 1, Len(s) - 1))
         IN IF handle = <<>> THEN NoAddress
            ELSE [handle |-> handle, displayName |-> Unquote(Trim(SubSeq(s, 1, i - 1)))]

\* header(): the value of the first header of a name, as a sequence of at most one.
Header(headers, name) ==
    LET hits == SelectSeq(headers, LAMBDA h : h.name = name)
    IN IF hits = <<>> THEN <<>> ELSE <<Head(hits).value>>

Roles == <<"from", "to", "cc", "bcc">>

Participants(role, value) ==
    LET parts == SplitAddressList(value)
    IN SelectSeq([i \in DOMAIN parts |-> [role |-> role, address |-> ParseAddress(parts[i])]],
                 LAMBDA p : p.address # NoAddress)

ParseParticipants(headers) ==
    FlattenSeq([r \in DOMAIN Roles |->
        LET found == Header(headers, Roles[r])
        IN IF found = <<>> THEN <<>> ELSE Participants(Roles[r], found[1])])

Normalized(msg) ==
    [body |-> Walk(msg.payload, NothingYet), participants |-> ParseParticipants(msg.headers)]

-----------------------------------------------------------------------------
(* The same, said without a walk or a scan: what they are checked against.  *)

RECURSIVE Paths(_)
Paths(part) ==
    {<<>>} \cup UNION {{<<i>> \o p : p \in Paths(part.parts[i])} : i \in DOMAIN part.parts}

PartAt(part, path) == FoldLeft(LAMBDA p, i : p.parts[i], part, path)

\* Document order, and the paths that no attachment encloses.
Precedes(p, q) ==
    \/ Len(p) < Len(q) /\ p = SubSeq(q, 1, Len(p))
    \/ \E k \in DOMAIN p \cap DOMAIN q : p[k] < q[k] /\ SubSeq(p, 1, k - 1) = SubSeq(q, 1, k - 1)

Reached(part) ==
    {p \in Paths(part) : \A k \in 0..Len(p) - 1 : ~IsAttachment(PartAt(part, SubSeq(p, 1, k)))}

FirstData(part, type) ==
    LET leaves == {p \in Reached(part) :
                     /\ ~IsAttachment(PartAt(part, p)) /\ PartAt(part, p).parts = <<>>
                     /\ PartAt(part, p).mimeType = type /\ PartAt(part, p).data # Absent}
    IN IF leaves = {} THEN Absent
       ELSE PartAt(part, CHOOSE p \in leaves : \A q \in leaves : p = q \/ Precedes(p, q)).data

Files(part) ==
    LET paths == SetToSortSeq({p \in Reached(part) : IsAttachment(PartAt(part, p))}, Precedes)
    IN [i \in DOMAIN paths |-> ToAttachment(PartAt(part, paths[i]))]

WalkAgrees(part) ==
    Normalized([payload |-> part, headers |-> <<>>]).body =
        [text |-> FirstData(part, "text/plain"), html |-> FirstData(part, "text/html"),
         attachments |-> Files(part)]

\* A header as a mail program writes it: `handle`, `name <handle>` or, when the
\* name holds anything else, `"name" <handle>`, separated by a comma and a blank.
Printed(a) ==
    IF a.displayName = <<>> THEN a.handle
    ELSE (IF \A i \in DOMAIN a.displayName : a.displayName[i] \in {"a", Blank}
          THEN a.displayName ELSE <<"\"">> \o a.displayName \o <<"\"">>)
         \o <<Blank, "<">> \o a.handle \o <<">">>

PrintedList(list) ==
    FoldLeft(LAMBDA s, a : (IF s = <<>> THEN s ELSE s \o <<",", Blank>>) \o Printed(a), <<>>, list)

\* The message whose headers stand in the opposite order of the roles, with a
\* second "from" that nobody reads.
ReadBack(from, to, payload) ==
    LET headers == <<[name |-> "to", value |-> PrintedList(to)],
                     [name |-> "from", value |-> PrintedList(from)],
                     [name |-> "from", value |-> PrintedList(to)]>>
    IN Normalized([payload |-> payload, headers |-> headers]).participants =
         [i \in DOMAIN from |-> [role |-> "from", address |-> from[i]]]
         \o [i \in DOMAIN to |-> [role |-> "to", address |-> to[i]]]
===============================================================================
