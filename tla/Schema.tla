--------------------------------- MODULE Schema ---------------------------------
(***************************************************************************)
(* The database schema, as the migrations build it revision by revision    *)
(* (migrations/versions) and as the code expects it (db/models.py): tables *)
(* with their columns, foreign keys and unique constraints.                *)
(***************************************************************************)
EXTENDS Integers, Sequences

Columns(table, names) == {[table |-> table, column |-> name] : name \in names}
Reference(table, name, to) == {[table |-> table, column |-> name, references |-> to]}
Unique(table, names) == {[table |-> table, unique |-> names]}

-----------------------------------------------------------------------------
(* Migrations                                                              *)

Owner == {"name", "enabled"}

Registry ==
    Columns("sites", {"site_id"} \cup Owner)
    \cup Columns("gateways", {"gateway_id", "site_id"} \cup Owner)
    \cup Columns("devices", {"device_id", "gateway_id"} \cup Owner)
    \cup Reference("gateways", "site_id", "sites")
    \cup Reference("devices", "gateway_id", "gateways")

Telemetry ==
    Columns("telemetry",
        {"id", "schema_version", "device_id", "boot_id", "sequence_number", "measured_at",
         "device_uptime_ms", "gateway_received_at", "backend_received_at", "metric", "value",
         "unit", "quality"})
    \cup Reference("telemetry", "device_id", "devices")
    \cup Unique("telemetry", {"device_id", "boot_id", "sequence_number"})

\* An index changes no answer.
EventTimeIndex == {}

TemperatureAlerts ==
    Columns("alert_episodes",
        {"id", "device_id", "opened_at", "resolved_at", "opening_telemetry_id",
         "resolving_telemetry_id"})
    \cup Columns("alert_states",
        {"device_id", "last_event_at", "high_streak", "recovery_streak", "active_episode_id"})
    \cup (UNION {Reference(t, "device_id", "devices") : t \in {"alert_episodes", "alert_states"}})
    \cup (UNION {Reference("alert_episodes", c, "telemetry") :
                   c \in {"opening_telemetry_id", "resolving_telemetry_id"}})
    \cup Reference("alert_states", "active_episode_id", "alert_episodes")
    \cup (UNION {Unique("alert_episodes", {c}) :
                   c \in {"opening_telemetry_id", "resolving_telemetry_id"}})
    \cup Unique("alert_episodes", {"device_id", "resolved_at IS NULL"})
    \cup Unique("alert_states", {"active_episode_id"})

DevicePresence == Columns("devices", {"password_hash", "last_seen_at"})

MqttManagement == Columns("devices", {"mqtt_managed"})

\* down_revision of each is the one before.
Revisions ==
    <<Registry, Telemetry, EventTimeIndex, TemperatureAlerts, DevicePresence, MqttManagement>>

-----------------------------------------------------------------------------
(* Models                                                                  *)

RegistryModel ==
    Columns("sites", {"site_id", "name", "enabled"})
    \cup Columns("gateways", {"gateway_id", "site_id", "name", "enabled"})
    \cup Reference("gateways", "site_id", "sites")
    \cup Columns("devices", {"device_id", "gateway_id", "name", "enabled", "password_hash",
                             "mqtt_managed", "last_seen_at"})
    \cup Reference("devices", "gateway_id", "gateways")

TelemetryModel ==
    Columns("telemetry",
        {"id", "schema_version", "device_id", "boot_id", "sequence_number", "measured_at",
         "device_uptime_ms", "gateway_received_at", "backend_received_at", "metric", "value",
         "unit", "quality"})
    \cup Unique("telemetry", {"device_id", "boot_id", "sequence_number"})
    \cup Reference("telemetry", "device_id", "devices")

AlertModel ==
    Columns("alert_episodes",
        {"id", "device_id", "opened_at", "resolved_at", "opening_telemetry_id",
         "resolving_telemetry_id"})
    \cup Reference("alert_episodes", "device_id", "devices")
    \cup Reference("alert_episodes", "opening_telemetry_id", "telemetry")
    \cup Reference("alert_episodes", "resolving_telemetry_id", "telemetry")
    \cup Unique("alert_episodes", {"opening_telemetry_id"})
    \cup Unique("alert_episodes", {"resolving_telemetry_id"})
    \cup Unique("alert_episodes", {"device_id", "resolved_at IS NULL"})
    \cup Columns("alert_states",
        {"device_id", "last_event_at", "high_streak", "recovery_streak", "active_episode_id"})
    \cup Reference("alert_states", "device_id", "devices")
    \cup Reference("alert_states", "active_episode_id", "alert_episodes")
    \cup Unique("alert_states", {"active_episode_id"})

\* What the queries of the backend rely on.
Models == RegistryModel \cup TelemetryModel \cup AlertModel
=============================================================================
