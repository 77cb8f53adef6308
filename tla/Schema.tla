---------------------------------- MODULE Schema ----------------------------------
(***************************************************************************)
(* The migrations of packages/backend/libs/db/src/migrations: what up()    *)
(* and down() of each do to the database, and the rows that make one of    *)
(* their statements fail.                                                  *)
(*                                                                         *)
(* A schema is a set of enum types and, for each table that there is, a    *)
(* set of parts: columns, defaults, constraints, indexes and the policy.   *)
(* The order of columns, the plain SQL types and the text of predicates    *)
(* are left out.  A migration is a sequence of statements on one table or  *)
(* type each.                                                              *)
(***************************************************************************)
EXTENDS SequencesExt

\* Parts of a table.
Columns(null, cs) == {<<"column", c, null>> : c \in cs}
Required(cs) == Columns("not null", cs)
Optional(cs) == Columns("null", cs)
Defaults(cs) == {<<"default", c>> : c \in cs}
Enums(cs) == {<<"enum", c, c>> : c \in cs}      \* columns with the name of their type
Key(c) == <<"key", c>>
Check(c) == <<"check", c>>
Unique(name, cs) == <<"unique", name, cs>>
Index(name, cs) == <<"index", name, cs>>        \* cs: also the columns of its predicate
Isolation == <<"policy">>                       \* row-level security and tenant_isolation

\* The foreign keys of columns that are named for the table they refer to.
Refs == [org_id |-> "org", user_id |-> "user", provider_account_id |-> "provider_account",
         thread_id |-> "thread", message_id |-> "message", contact_id |-> "contact",
         raw_message_id |-> "message_raw", job_id |-> "sync_job", task_id |-> "sync_task"]
RefersTo(cs) == {<<"references", c, Refs[c]>> : c \in cs}

Created == Required({"created_at"}) \cup Defaults({"created_at"})
Updated == Required({"updated_at"}) \cup Defaults({"updated_at"})
Entity == Created \cup Required({"id"}) \cup Defaults({"id"}) \cup {Key("id")}

\* Statements.
CreateType(e) == [do |-> "create type", on |-> e, drop |-> {}, add |-> {}]
DropType(e) == [do |-> "drop type", on |-> e, drop |-> {}, add |-> {}]
CreateTable(t, parts) == [do |-> "create table", on |-> t, drop |-> {}, add |-> parts]
DropTable(t) == [do |-> "drop table", on |-> t, drop |-> {}, add |-> {}]
Add(t, parts) == [do |-> "alter table", on |-> t, drop |-> {}, add |-> parts]
Drop(t, parts) == [do |-> "alter table", on |-> t, drop |-> parts, add |-> {}]
Isolate(ts) == [i \in DOMAIN ts |-> Add(ts[i], {Isolation})]

-----------------------------------------------------------------------------
(* rep-9.                                                                   *)

OrgTable == Entity \cup Updated \cup Required({"name"})

User ==
    Entity \cup Updated \cup Required({"org_id", "email", "role"}) \cup Optional({"name"})
    \cup Defaults({"role"}) \cup RefersTo({"org_id"})
    \cup {Check("role"), Unique("org_email", {"org_id", "email"})}

ProviderAccount ==
    LET named == {"provider", "channel", "auth_method"}
        key == {"org_id", "provider", "external_account_id"}
    IN Entity \cup Updated \cup Enums(named)
       \cup Required({"user_id", "is_active"} \cup named \cup key)
       \cup Optional({"alias", "credentials_encrypted", "sync_cursor", "last_synced_at"})
       \cup Defaults({"is_active"}) \cup RefersTo({"org_id", "user_id"})
       \cup {Unique("org_provider_external_account", key)}

OrgThread == Unique("org_channel_external_thread", {"org_id", "channel", "external_thread_id"})

Thread ==
    Entity \cup Updated \cup Enums({"channel"})
    \cup Required({"org_id", "channel", "message_count"})
    \cup Optional({"external_thread_id", "subject", "last_message_at"})
    \cup Defaults({"message_count"}) \cup RefersTo({"org_id"}) \cup {OrgThread}

ExternalMessage ==
    Unique("account_external_message", {"provider_account_id", "external_message_id"})

Message ==
    LET flags == {"is_read", "is_starred", "is_archived", "is_deleted"}
        copies == {"cc_addresses", "bcc_addresses"}
    IN Entity \cup Updated \cup Enums({"channel"})
       \cup Required({"org_id", "provider_account_id", "channel", "external_message_id",
                "sender_address", "recipient_addresses", "direction", "sent_at"} \cup flags)
       \cup Optional({"thread_id", "sender_name", "subject", "body_text", "body_html",
                "received_at"} \cup copies)
       \cup Defaults(flags \cup copies \cup {"recipient_addresses"})
       \cup RefersTo({"org_id", "thread_id", "provider_account_id"})
       \cup {Check("direction"), ExternalMessage}

MessageRaw ==
    Created \cup {Key("message_id")} \cup RefersTo({"message_id"})
    \cup Required({"message_id", "payload", "content_type"})

Contact ==
    Entity \cup Updated \cup Required({"org_id", "is_blocked"}) \cup Optional({"name"})
    \cup Defaults({"is_blocked"}) \cup RefersTo({"org_id"})

ContactKey == Unique("contact_channel_handle", {"contact_id", "channel", "handle"})

ContactHandle ==
    Entity \cup Enums({"channel"}) \cup Defaults({"is_primary"}) \cup RefersTo({"contact_id"})
    \cup Required({"contact_id", "channel", "handle", "is_primary"}) \cup {ContactKey}

Attachment ==
    Entity \cup Required({"org_id", "message_id", "filename", "storage_path"})
    \cup Optional({"content_type", "size_bytes"}) \cup RefersTo({"org_id", "message_id"})

JobTable ==
    LET counted == {"queue", "status", "attempts", "max_attempts", "scheduled_for"}
    IN Entity \cup Required({"payload"} \cup counted) \cup Defaults(counted)
       \cup Optional({"dedup_key", "last_error", "locked_at", "locked_by", "completed_at"})
       \cup {Check("status")}

Acme == Entity \cup Updated \cup Required({"org_id", "note"}) \cup RefersTo({"org_id"})

JobIndexes(topic) ==
    {Index("idx_job_queue_poll", {topic, "scheduled_for", "status"}),
     Index("idx_job_queue_dedup", {topic, "dedup_key", "status"})}

Up9 ==
    <<CreateType("channel"), CreateType("provider"), CreateType("auth_method"),
      CreateTable("org", OrgTable), CreateTable("user", User),
      CreateTable("provider_account", ProviderAccount),
      CreateTable("thread", Thread), CreateTable("message", Message),
      CreateTable("message_raw", MessageRaw),
      CreateTable("contact", Contact), CreateTable("contact_handle", ContactHandle),
      CreateTable("attachment", Attachment), CreateTable("job_queue", JobTable),
      CreateTable("acme", Acme), Add("job_queue", JobIndexes("queue"))>>
    \o Isolate(<<"org", "user", "provider_account", "thread", "message", "contact",
                 "attachment", "job_queue", "acme">>)

Down9 ==
    <<DropTable("acme"), DropTable("attachment"), DropTable("contact_handle"),
      DropTable("contact"), DropTable("job_queue"), DropTable("message_raw"),
      DropTable("message"), DropTable("thread"), DropTable("provider_account"),
      DropTable("user"), DropTable("org"),
      DropType("auth_method"), DropType("provider"), DropType("channel")>>

-----------------------------------------------------------------------------
(* rep-44 and rep-48.                                                       *)

Up44 == <<DropTable("acme")>>

Down44 ==
    <<CreateTable("acme", Entity \cup Updated \cup Required({"org_id", "note"})
                          \cup RefersTo({"org_id"}))>>
    \o Isolate(<<"acme">>)

WithUser == Required({"user_id"}) \cup RefersTo({"user_id"})

Up48 ==
    <<Add("message", WithUser), Add("thread", WithUser),
      Add("message", {Index("idx_message_user", {"user_id"})}),
      Add("thread", {Index("idx_thread_user", {"user_id"})})>>

Down48 == <<Drop("thread", Required({"user_id"})), Drop("message", Required({"user_id"}))>>

-----------------------------------------------------------------------------
(* rep-50.                                                                  *)

RootRaw ==
    LET owner == {"org_id", "user_id", "provider_account_id"} IN
    Entity \cup Enums({"channel"}) \cup RefersTo(owner)
    \cup Required({"sync_task_id", "channel", "external_message_id", "payload_schema",
                   "payload"} \cup owner)
    \cup {ExternalMessage}

Recipients == Required({"recipient_addresses", "sender_address"})
              \cup Optional({"cc_addresses", "bcc_addresses", "sender_name"})

Headers ==
    Required({"raw_message_id"})
    \cup Optional({"in_reply_to", "references", "message_id_header", "snippet"})

AccountThread ==
    Unique("account_external_thread", {"provider_account_id", "external_thread_id"})

Participant ==
    Entity \cup Required({"org_id", "user_id", "message_id", "handle", "role"})
    \cup Optional({"contact_id", "display_name"}) \cup {Check("role")}
    \cup RefersTo({"org_id", "user_id", "message_id", "contact_id"})

Bytes ==
    Required({"user_id", "bytes"})
    \cup Optional({"external_attachment_id", "content_id", "disposition"})

UserKey == Unique("user_channel_handle", {"user_id", "channel", "handle"})

Up50 ==
    <<DropTable("message_raw"), CreateTable("message_raw", RootRaw),
      Drop("message", {ExternalMessage}), Drop("message", Recipients),
      Add("message", Headers \cup RefersTo({"raw_message_id"})
                     \cup {Unique("raw_message_id", {"raw_message_id"})}),
      Drop("thread", {OrgThread}),
      Add("thread", Required({"provider_account_id"}) \cup RefersTo({"provider_account_id"})),
      Add("thread", {AccountThread}),
      CreateTable("message_participant", Participant),
      Add("message_participant", {Index("idx_message_participant_message", {"message_id"})}),
      Add("message_participant", {Index("idx_message_participant_contact", {"contact_id"})}),
      Drop("attachment", Required({"storage_path"})),
      Add("attachment", Bytes \cup RefersTo({"user_id"}) \cup {Check("disposition")}),
      Add("contact", WithUser),
      Drop("contact_handle", {ContactKey}),
      Add("contact_handle", Required({"org_id", "user_id"}) \cup RefersTo({"org_id", "user_id"})),
      Add("contact_handle", {UserKey})>>
    \o Isolate(<<"message_raw", "message_participant", "contact_handle">>)

UndoContacts ==
    <<Drop("contact_handle", {Isolation}), Drop("message_participant", {Isolation}),
      Drop("message_raw", {Isolation}),
      Drop("contact_handle", {UserKey}),
      Drop("contact_handle", Required({"user_id", "org_id"})),
      Add("contact_handle", {ContactKey}),
      Drop("contact", Required({"user_id"}))>>

UndoAttachment ==
    <<Drop("attachment", Bytes), Add("attachment", Required({"storage_path"})),
      DropTable("message_participant")>>

\* Seeded fault: the old key of thread does not come back.
UndoThreadKeyless ==
    <<Drop("thread", {AccountThread}), Drop("thread", Required({"provider_account_id"}))>>

UndoThread ==
    <<Drop("thread", {AccountThread}), Drop("thread", Required({"provider_account_id"})),
      Add("thread", {OrgThread})>>

\* Seeded fault: the columns come back without NOT NULL.
UndoMessageNullable ==
    <<Drop("message", Headers),
      Add("message", Optional({p[2] : p \in Recipients})
                     \cup Defaults({"recipient_addresses", "cc_addresses", "bcc_addresses"})),
      Add("message", {ExternalMessage}),
      DropTable("message_raw"), CreateTable("message_raw", MessageRaw)>>

UndoMessage ==
    <<Drop("message", Headers),
      Add("message", Recipients
                     \cup Defaults({"recipient_addresses", "cc_addresses", "bcc_addresses"})),
      Add("message", {ExternalMessage}),
      DropTable("message_raw"), CreateTable("message_raw", MessageRaw)>>

Down50 == UndoContacts \o UndoAttachment \o UndoThread \o UndoMessage

-----------------------------------------------------------------------------
(* rep-56 and rep-58.                                                       *)

SyncJob ==
    Entity \cup Updated \cup Required({"org_id", "user_id"}) \cup RefersTo({"org_id", "user_id"})

SyncTask ==
    LET owner == {"org_id", "user_id", "job_id", "provider_account_id"}
    IN Entity \cup RefersTo(owner) \cup Required(owner \cup {"spec"})

SyncTaskEvent ==
    LET owner == {"org_id", "user_id", "task_id"}
    IN Entity \cup RefersTo(owner \cup {"raw_message_id"}) \cup Required(owner \cup {"type"})
       \cup Optional({"payload", "raw_message_id"}) \cup {<<"enum", "type", "sync_event_type">>}

TaskOfRaw == <<"references", "sync_task_id", "sync_task">>

Up56 ==
    <<CreateType("sync_event_type"),
      CreateTable("sync_job", SyncJob), CreateTable("sync_task", SyncTask),
      CreateTable("sync_task_event", SyncTaskEvent),
      Add("message_raw", {TaskOfRaw}),
      Drop("provider_account", Optional({"sync_cursor"})),
      Add("sync_task", {Index("idx_sync_task_job", {"job_id"})}),
      Add("sync_task", {Index("idx_sync_task_provider_account", {"provider_account_id"})}),
      Add("sync_task_event", {Index("idx_sync_task_event_task", {"task_id"})}),
      Add("sync_task_event", {Index("idx_sync_task_event_raw_message", {"raw_message_id"})})>>
    \o Isolate(<<"sync_job", "sync_task", "sync_task_event">>)

Down56 ==
    <<Add("provider_account", Optional({"sync_cursor"})),
      Drop("message_raw", {TaskOfRaw}),
      Drop("sync_task_event", {Isolation}), Drop("sync_task", {Isolation}),
      Drop("sync_job", {Isolation}),
      DropTable("sync_task_event"), DropTable("sync_task"), DropTable("sync_job"),
      DropType("sync_event_type")>>

\* A renamed column keeps its default and its rows; the indexes, which are dropped by the
\* next two statements, are dropped here first.
Named(c) == Required({c}) \cup Defaults({c})
Rename(from, to) == [Drop("job_queue", Named(from)) EXCEPT !.add = Named(to)]
StatusEnum == <<"enum", "status", "job_status">>

\* Seeded fault: the indexes on status stand while its type changes.
Up58WithIndexes ==
    <<Drop("job_queue", {Check("status")}), Drop("job_queue", Defaults({"status"})),
      CreateType("job_status"), Add("job_queue", {StatusEnum}),
      Add("job_queue", Defaults({"status"})),
      Drop("job_queue", JobIndexes("queue")), Rename("queue", "topic"),
      Add("job_queue", JobIndexes("topic"))>>

Up58 ==
    <<Drop("job_queue", JobIndexes("queue")), Rename("queue", "topic"),
      Drop("job_queue", {Check("status")}), Drop("job_queue", Defaults({"status"})),
      CreateType("job_status"), Add("job_queue", {StatusEnum}),
      Add("job_queue", Defaults({"status"})),
      Add("job_queue", JobIndexes("topic"))>>

Down58 ==
    <<Drop("job_queue", JobIndexes("topic")), Drop("job_queue", Defaults({"status"})),
      Drop("job_queue", {StatusEnum}), Add("job_queue", Defaults({"status"})),
      Add("job_queue", {Check("status")}), DropType("job_status"),
      Rename("topic", "queue"), Add("job_queue", JobIndexes("queue"))>>

-----------------------------------------------------------------------------
(* What Postgres does with a statement.                                     *)

History == <<"rep-9", "rep-44", "rep-48", "rep-50", "rep-56", "rep-58">>
Migration == Range(History)

Ups == <<Up9, Up44, Up48, Up50, Up56, Up58>>
Downs == <<Down9, Down44, Down48, Down50, Down56, Down58>>
Statements(direction, m) ==
    LET i == CHOOSE j \in DOMAIN History : History[j] = m
    IN IF direction = "up" THEN Ups[i] ELSE Downs[i]

\* A database that has a public schema: its types, its tables with their parts, and the
\* tables with rows.  ok: there is one, and all statements have succeeded.
Nothing == [types |-> {}, tables |-> <<>>, rows |-> {}, ok |-> TRUE]
Failed == [Nothing EXCEPT !.ok = FALSE]

\* A part is named for a column, or has a name and columns: it goes with a column.
Within(p, c) == IF p[1] \in {"unique", "index"} THEN c \in p[3] ELSE p[1] # "policy" /\ p[2] = c
SameName(p, q) == p[1] = q[1] /\ (p = q \/ p[2] = q[2])
Column(parts, c) == \E p \in parts : p[1] = "column" /\ p[2] = c

\* tenant_isolation compares this column with the org of the transaction.
Scope(t) == IF t = "org" THEN "id" ELSE "org_id"

\* What a part refers to is there.
Stands(p, parts, tables, types) ==
    /\ p[1] \in {"unique", "index"} => \A c \in p[3] : Column(parts, c)
    /\ p[1] \in {"default", "key", "check", "references", "enum"} => Column(parts, p[2])
    /\ p[1] = "references" => p[3] \in tables
    /\ p[1] = "enum" => p[3] \in types

\* A column changes its type only under no default, no check and no index.
Bare(p, parts) ==
    \A q \in parts : q[1] \in {"default", "check", "index"} => ~Within(q, p[2])

\* The rows of a table have no value for a new column that must have one, and none that
\* refers to a row of an empty table.
RowsAllow(p, added, rows) ==
    /\ p[1] = "column" => p[3] = "null" \/ <<"default", p[2]>> \in added
    /\ p[1] = "references" => p[3] \in rows

Alterable(db, s) ==
    LET old == db.tables[s.on]
        kept == {p \in old : p \notin s.drop /\
                    ~\E q \in s.drop : q[1] = "column" /\ Within(p, q[2])}
    IN [kept |-> kept,
        ok |-> /\ s.drop \subseteq old
               /\ \A p \in s.add, q \in kept : ~SameName(p, q)
               /\ \A p \in s.add : Stands(p, kept \cup s.add, DOMAIN db.tables, db.types)
               /\ Isolation \in kept => \A n \in {"null", "not null"} :
                                           <<"column", Scope(s.on), n>> \notin s.drop
               /\ \A p \in s.drop \cup s.add : p[1] = "enum" => Bare(p, kept)
               /\ s.on \in db.rows => \A p \in s.add : RowsAllow(p, s.add, db.rows)]

\* DROP TABLE ... CASCADE drops the foreign keys to it.
Without(tables, t) ==
    [u \in DOMAIN tables \ {t} |-> {p \in tables[u] : ~(p[1] = "references" /\ p[3] = t)}]

Executed(db, s) ==
    IF ~db.ok THEN Failed
    ELSE CASE s.do = "create type" ->
                  IF s.on \in db.types THEN Failed ELSE [db EXCEPT !.types = @ \cup {s.on}]
           [] s.do = "drop type" ->
                  IF s.on \notin db.types
                     \/ \E t \in DOMAIN db.tables : \E p \in db.tables[t] :
                            p[1] = "enum" /\ p[3] = s.on
                  THEN Failed ELSE [db EXCEPT !.types = @ \ {s.on}]
           [] s.do = "create table" ->
                  IF s.on \in DOMAIN db.tables
                     \/ \E p \in s.add : ~Stands(p, s.add, DOMAIN db.tables, db.types)
                  THEN Failed ELSE [db EXCEPT !.tables = (s.on :> s.add) @@ @]
           [] s.do = "drop table" ->
                  IF s.on \notin DOMAIN db.tables THEN Failed
                  ELSE [db EXCEPT !.tables = Without(@, s.on), !.rows = @ \ {s.on}]
           [] s.do = "alter table" ->
                  IF s.on \notin DOMAIN db.tables THEN Failed
                  ELSE LET altered == Alterable(db, s)
                       IN IF altered.ok
                          THEN [db EXCEPT !.tables[s.on] = altered.kept \cup s.add]
                          ELSE Failed

Applied(db, direction, m) ==
    LET statements == Statements(direction, m)
        after[n \in 0..Len(statements)] ==
            IF n = 0 THEN db ELSE Executed(after[n - 1], statements[n])
    IN after[Len(statements)]

\* The database that `migrations up` makes of an empty one.
Replay(order) == FoldLeft(LAMBDA db, m : Applied(db, "up", m), Nothing, order)

\* The objects of a database.
Described(db) == [types |-> db.types, tables |-> db.tables]
===================================================================================
