-------------------------------- MODULE Admin --------------------------------
(***************************************************************************)
(* The administration of a channel (api/admin, core/audit): changing its   *)
(* settings, switching it on and off, erasing its data, each with a row in *)
(* channel_admin_actions that is flushed in the same transaction.          *)
(*                                                                         *)
(* Requests are served one after the other; time stamps are left out but   *)
(* for the one of the audit row, as far as it is there or not.             *)
(***************************************************************************)
EXTENDS Naturals, Sequences

CONSTANTS
    AdminIds,   \* the allow-list of Slack users
    Roles,      \* the role allow-list, in lower case
    Actors,     \* who asks, as [slackUserId, slackRoles]
    Minutes,    \* bound: the numbers that patches name
    MaxAudit,   \* bound: rows of channel_admin_actions
    NULL

VARIABLES
    channel,    \* the row of channels
    data,       \* which tables hold rows of the channel
    audit,      \* the rows of channel_admin_actions, in order of insertion
    tx          \* the request in progress, or Idle

vars == <<channel, data, audit, tx>>

Tables == {"orders", "runs", "user_preferences", "runner_stats"}

\* The bounds of _ensure_range.
Bounds == [reminder_offset_minutes |-> 1..60, fairness_window_runs |-> 1..50,
           data_retention_days |-> 30..365, last_call_lead_minutes |-> 1..30]

Flags == {"reminders_enabled", "last_call_enabled"}

\* ChannelConfigPatch: any of the fields, the others NULL.
Patch == {[f \in DOMAIN Bounds \cup Flags |->
              IF f \in Flags THEN flags[f] ELSE numbers[f]] :
            numbers \in [DOMAIN Bounds -> Minutes \cup {NULL}],
            flags \in [Flags -> BOOLEAN \cup {NULL}]}

\* A channel as the columns' defaults leave it.
NewChannel ==
    [reminder_offset_minutes |-> 5, fairness_window_runs |-> 5,
     data_retention_days |-> 90, last_call_lead_minutes |-> NULL,
     reminders_enabled |-> TRUE, last_call_enabled |-> TRUE, enabled |-> TRUE]

Idle == [step |-> "idle"]

Init ==
    /\ channel = NewChannel
    /\ data \in SUBSET Tables
    /\ audit = <<>>
    /\ tx = Idle

Authorized(actor) ==
    \/ actor.slackUserId \in AdminIds
    \/ actor.slackRoles \cap Roles # {}

\* The request has been checked and the session's objects changed: the flush
\* of log_action comes next.
Apply(type, newChannel, newData) ==
    tx' = [step |-> "log_action", type |-> type, channel |-> newChannel,
           data |-> newData]

-----------------------------------------------------------------------------
\* _build_config_updates: the fields the patch names.
Updates(patch) == {f \in DOMAIN patch : patch[f] # NULL}

Valid(patch) ==
    /\ \A f \in Updates(patch) \cap DOMAIN Bounds : patch[f] \in Bounds[f]
    /\ patch["last_call_enabled"] = TRUE =>
          \/ patch["last_call_lead_minutes"] # NULL
          \/ channel.last_call_lead_minutes # NULL

\* A patch without a field changes nothing and is not audited.
UpdateConfig(actor, patch) ==
    /\ tx = Idle
    /\ Authorized(actor)
    /\ Valid(patch)
    /\ Updates(patch) # {}
    /\ Apply("update_config",
             [f \in DOMAIN channel |-> IF f \in Updates(patch) THEN patch[f]
                                       ELSE channel[f]],
             data)
    /\ UNCHANGED <<channel, data, audit>>

\* Audited even if the channel is in that state already.
SetEnabled(actor, enabled) ==
    /\ tx = Idle
    /\ Authorized(actor)
    /\ Apply(IF enabled THEN "enable" ELSE "disable",
             [channel EXCEPT !.enabled = enabled], data)
    /\ UNCHANGED <<channel, data, audit>>

\* The deletes of _purge_channel_data, in the same transaction.
Reset(actor) ==
    /\ tx = Idle
    /\ Authorized(actor)
    /\ Apply("data_reset", channel, {})
    /\ UNCHANGED <<channel, data, audit>>

\* The entry log_action builds.  It does not name created_at, and the mapped
\* column has no default, so the INSERT has NULL for it; the default of the
\* table counts only where a column is left out.
Entry(type) == [action_type |-> type, created_at |-> NULL]

\* created_at TIMESTAMPTZ NOT NULL.
Acceptable(entry) == entry.created_at # NULL

\* The flush of log_action and, if it goes well, the caller's commit.
LogAction ==
    /\ tx.step = "log_action"
    /\ Len(audit) < MaxAudit
    /\ LET entry == Entry(tx.type)
       IN  \/ /\ Acceptable(entry)
              /\ audit' = Append(audit, entry)
              /\ channel' = tx.channel
              /\ data' = tx.data
              /\ tx' = Idle
           \/ /\ ~Acceptable(entry)
              /\ tx' = [tx EXCEPT !.step = "failed"]
              /\ UNCHANGED <<channel, data, audit>>

\* The caller rolls back.
Rollback ==
    /\ tx.step = "failed"
    /\ tx' = Idle
    /\ UNCHANGED <<channel, data, audit>>

Next ==
    \/ \E actor \in Actors :
          \/ \E patch \in Patch : UpdateConfig(actor, patch)
          \/ \E enabled \in BOOLEAN : SetEnabled(actor, enabled)
          \/ Reset(actor)
    \/ LogAction
    \/ Rollback

Spec == Init /\ [][Next]_vars

-----------------------------------------------------------------------------
\* docs/harper/PLAN.md:128: configuration changes persist to the channel's row
\* and emit an audit entry; :130 says the same of resets.  A request that is
\* authorized and valid does not fail.  log_action makes all of them fail.
ValidRequestsSucceed == tx.step # "failed"
=============================================================================
