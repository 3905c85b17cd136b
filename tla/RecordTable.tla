---------------------------- MODULE RecordTable ----------------------------
(***************************************************************************)
(* The `records` table, as the SQL statements of server/src/store read and *)
(* write it.  Its primary key is (account_id, kind, id); a kind is a part  *)
(* of the record's name here, so a key is an account and an id.  Of a row  *)
(* the properties tell apart the clock, where the record is filed, and     *)
(* seq, its position in the log.  A record is filed in a group, by which a *)
(* pull finds it, and encrypted with a group's key or (None) the account's *)
(* own, by which a push is routed: the two need not agree.  A deletion is  *)
(* an ordinary write: its row is a tombstone with a clock.                 *)
(***************************************************************************)
EXTENDS Merge, FiniteSetsExt

CONSTANTS Accounts, Ids, Groups, Devices,
          None,              \* an absent row, group, owner or worker
          MaxPage            \* config.max_page: rows in one pull

ASSUME RecordTableAssumption ==
    /\ IsFiniteSet(Accounts) /\ IsFiniteSet(Ids)
    /\ Devices \subseteq Int
    /\ None \notin Accounts \cup Groups
    /\ MaxPage \in Nat \ {0}

Keys == Accounts \X Ids

\* group_id and key_ref: where a record is filed and whose key encrypts it.
Places == [group_id : Groups \cup {None}, key_ref : Groups \cup {None}]

PlaceOf(version) == [group_id |-> version.group_id, key_ref |-> version.key_ref]

Row == [group_id : Groups \cup {None}, key_ref : Groups \cup {None},
        updated_at : Int, device_id : Devices, seq : Nat]

ASSUME NoneIsNoRow == None \notin Row

\* An envelope as a device pushes it: `seq` is ignored on push.
Envelope == [id : Ids, group_id : Groups \cup {None}, key_ref : Groups \cup {None},
             updated_at : Int, device_id : Devices, large : BOOLEAN]

\* The row an account's envelope goes to.
KeyOf(account, env) == <<account, env.id>>

EmptyTable == [k \in Keys |-> None]

AsRow(env, seq) ==
    [group_id |-> env.group_id, key_ref |-> env.key_ref,
     updated_at |-> env.updated_at, device_id |-> env.device_id, seq |-> seq]

\* Broken: an upsert without its WHERE.
BrokenTakes(rows, key, env) == TRUE

\* Does INSERT ... ON CONFLICT DO UPDATE ... WHERE write a row?
Takes(rows, key, env) == rows[key] = None \/ Wins(env, rows[key])

\* Broken: an edited row keeps its old place in the log.
BrokenUpsert(rows, key, env, seq) ==
    IF rows[key] = None THEN [rows EXCEPT ![key] = AsRow(env, seq)]
    ELSE IF Takes(rows, key, env) THEN [rows EXCEPT ![key] = AsRow(env, rows[key].seq)]
    ELSE rows

\* Broken: DO UPDATE SET forgets group_id = excluded.group_id.
BrokenColumns(rows, key, env, seq) ==
    IF rows[key] = None THEN [rows EXCEPT ![key] = AsRow(env, seq)]
    ELSE IF Takes(rows, key, env)
    THEN [rows EXCEPT ![key] = [AsRow(env, seq) EXCEPT !.group_id = rows[key].group_id]]
    ELSE rows

\* The table after the upsert, which leaves a newer row as it is.
Upsert(rows, key, env, seq) ==
    IF Takes(rows, key, env) THEN [rows EXCEPT ![key] = AsRow(env, seq)]
                             ELSE rows

\* The keys `account` may read past `cursor`: its own and its shared groups'.
Visible(rows, account, memberOf, cursor) ==
    {k \in Keys : /\ rows[k] # None
                  /\ rows[k].seq > cursor
                  /\ k[1] = account \/ rows[k].group_id \in memberOf}

\* ORDER BY seq LIMIT limit.
FirstBySeq(rows, keys, limit) ==
    {k \in keys : Cardinality({j \in keys : rows[j].seq < rows[k].seq}) < limit}

\* Broken: the new cursor is that of the row over the page.
BrokenPullPage(rows, account, memberOf, cursor) ==
    LET fetched == FirstBySeq(rows, Visible(rows, account, memberOf, cursor),
                              MaxPage + 1)
        page == FirstBySeq(rows, fetched, MaxPage)
    IN  [keys   |-> page,
         more   |-> page # fetched,
         cursor |-> IF page = {} THEN cursor ELSE Max({rows[k].seq : k \in fetched})]

\* Broken: no row over the page is fetched.
BrokenMore(rows, account, memberOf, cursor) ==
    LET page == FirstBySeq(rows, Visible(rows, account, memberOf, cursor), MaxPage)
    IN  [keys   |-> page,
         more   |-> Cardinality(page) > MaxPage,
         cursor |-> IF page = {} THEN cursor ELSE Max({rows[k].seq : k \in page})]

\* The pull handler asks for one row over the page, to learn whether there is
\* more, and answers with the last row it returns as the new cursor.
PullPage(rows, account, memberOf, cursor) ==
    LET fetched == FirstBySeq(rows, Visible(rows, account, memberOf, cursor),
                              MaxPage + 1)
        page == FirstBySeq(rows, fetched, MaxPage)
    IN  [keys   |-> page,
         more   |-> page # fetched,
         cursor |-> IF page = {} THEN cursor ELSE Max({rows[k].seq : k \in page})]

\* The stored copy is `env` or a later write.
Stored(rows, key, env) == rows[key] # None /\ Covers(rows[key], env)

\* A row only ever changes into a newer one, which takes a new last place.
Advances(rows, newRows) ==
    \A k \in Keys : newRows[k] # rows[k] =>
        /\ newRows[k] # None
        /\ rows[k] # None => Wins(newRows[k], rows[k])
        /\ \A j \in Keys : rows[j] # None => newRows[k].seq > rows[j].seq
=============================================================================
