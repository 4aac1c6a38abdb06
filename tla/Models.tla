------------------------------- MODULE Models -------------------------------
(***************************************************************************)
(* The tables that the ORM models of app/models declare, in the terms of   *)
(* Revisions: one set for each file (three for music.py), and the labels   *)
(* of the enum types they use.                                             *)
(***************************************************************************)
EXTENDS Revisions

Declares(tables, types) == [tables |-> tables, types |-> types]

UserModels ==
  Declares(
   {Table("users", {"id", "email", "password_hash", "display_name", "avatar", "country",
          "country_source", "language", "status", "email_verified", "created_at", "updated_at",
          "last_login_at"}, {{"email"}}, {}, {"user_status"})},
   {<<"user_status", {"active", "suspended", "deleted", "pending_verification"}>>})

DeviceModels ==
  Declares(
   {Table("devices", {"id", "user_id", "device_id", "name", "platform", "os_version", "app_version",
          "status", "created_at", "last_seen_at", "revoked_at"}, {},
          {<<"user_id", "users", "CASCADE">>}, {"device_status"}),
    Table("sessions", {"id", "user_id", "device_id", "refresh_token_jti", "status", "ip_country",
          "user_agent", "created_at", "last_activity_at", "expires_at", "revoked_at"},
          {{"refresh_token_jti"}}, {<<"user_id", "users", "CASCADE">>,
          <<"device_id", "devices", "SET NULL">>}, {"session_status"})},
   {<<"device_status", {"active", "revoked", "suspicious"}>>,
    <<"session_status", {"active", "revoked", "expired"}>>})

RbacModels ==
  Declares(
   {Table("roles", {"id", "name", "description", "is_system", "created_at"}, {{"name"}}, {}, {}),
    Table("permissions", {"id", "code", "description", "created_at"}, {{"code"}}, {}, {}),
    Table("role_permissions", {"id", "role_id", "permission_id"}, {{"role_id", "permission_id"}},
          {<<"role_id", "roles", "CASCADE">>, <<"permission_id", "permissions", "CASCADE">>}, {}),
    Table("user_roles", {"id", "user_id", "role_id", "granted_at", "granted_by"},
          {{"user_id", "role_id"}}, {<<"user_id", "users", "CASCADE">>,
          <<"role_id", "roles", "CASCADE">>, <<"granted_by", "users", "SET NULL">>}, {})},
   {})

JobModels ==
  Declares(
   {Table("jobs", {"id", "type", "status", "payload", "attempts", "max_attempts", "next_run_at",
          "created_at", "started_at", "finished_at", "error", "correlation_id", "idempotency_key"},
          {{"idempotency_key"}}, {}, {"job_type", "job_status"})},
   {<<"job_type", {"provider_acquisition", "transfer", "transcode", "metadata", "cache_cleanup",
                   "analytics", "ranking", "artist_upload", "artwork", "moderation", "notification",
                   "generic"}>>,
    <<"job_status", {"pending", "running", "retrying", "completed", "failed", "cancelled",
                     "dead_letter"}>>})

MusicTypes ==
  Declares(
   {},
   {<<"release_type", {"single", "ep", "album", "compilation"}>>,
    <<"track_status", {"draft", "processing", "published", "hidden", "takedown", "deleted"}>>,
    <<"audio_quality", {"low", "medium", "lossless"}>>,
    <<"quality_confidence", {"verified", "unverified"}>>,
    <<"source_type", {"artist_upload", "provider", "derivative"}>>,
    <<"cache_entry_status", {"ready", "processing", "expired", "failed"}>>})

CatalogModels ==
  Declares(
   {Table("artists", {"id", "name", "slug", "bio", "avatar", "cover", "country", "status",
          "verified", "created_at", "updated_at"}, {{"slug"}}, {}, {}),
    Table("releases", {"id", "artist_id", "title", "type", "artwork_asset", "release_date",
          "status", "description", "created_at", "updated_at"}, {},
          {<<"artist_id", "artists", "CASCADE">>}, {"release_type", "track_status"}),
    Table("tracks", {"id", "title", "slug", "duration", "isrc", "album_id", "release_id", "status",
          "explicit", "language", "release_date", "artwork_url", "created_at", "updated_at"}, {},
          {<<"album_id", "releases", "SET NULL">>, <<"release_id", "releases", "SET NULL">>},
          {"track_status"}),
    Table("track_artists", {"id", "track_id", "artist_id", "role", "display_order"},
          {{"track_id", "artist_id", "role"}}, {<<"track_id", "tracks", "CASCADE">>,
          <<"artist_id", "artists", "CASCADE">>}, {})},
   {})

ProviderModels ==
  Declares(
   {Table("providers", {"id", "name", "enabled", "priority", "config", "created_at"}, {{"name"}},
          {}, {}),
    Table("provider_tracks", {"id", "provider_id", "provider_track_id", "track_id",
          "metadata_snapshot", "last_resolved_at", "status"},
          {{"provider_id", "provider_track_id"}}, {<<"provider_id", "providers", "CASCADE">>,
          <<"track_id", "tracks", "SET NULL">>}, {})},
   {})

AudioModels ==
  Declares(
   {Table("audio_assets", {"id", "track_id", "storage_key", "codec", "bitrate", "bit_depth",
          "sample_rate", "channels", "duration", "size", "quality", "quality_confidence",
          "source_type", "source_provider", "source_provider_track_id", "content_hash",
          "created_at"}, {}, {<<"track_id", "tracks", "CASCADE">>}, {"audio_quality",
          "quality_confidence", "source_type"}),
    Table("cache_entries", {"id", "content_hash", "track_id", "provider", "provider_track_id",
          "quality", "storage_key", "size", "created_at", "last_accessed_at", "expires_at",
          "access_count", "requests_24h", "requests_7d", "provider_cost", "status",
          "retention_score"}, {}, {<<"track_id", "tracks", "SET NULL">>}, {"audio_quality",
          "cache_entry_status"})},
   {})

MemberModels ==
  Declares(
   {Table("artist_members", {"id", "artist_id", "user_id", "role", "permissions", "created_at"},
          {{"artist_id", "user_id"}}, {<<"artist_id", "artists", "CASCADE">>,
          <<"user_id", "users", "CASCADE">>}, {"artist_member_role"})},
   {<<"artist_member_role", {"owner", "manager", "editor", "analyst"}>>})

RightsModels ==
  Declares(
   {Table("license_records", {"id", "track_id", "release_id", "artist_id", "accepted_by_user_id",
          "storage_allowed", "processing_allowed", "transcoding_allowed", "streaming_allowed",
          "artwork_allowed", "metadata_allowed", "territory", "duration_note", "rights_scope",
          "license_version", "accepted_at", "revoked_at", "status", "notes"}, {},
          {<<"track_id", "tracks", "CASCADE">>, <<"release_id", "releases", "CASCADE">>,
          <<"artist_id", "artists", "CASCADE">>, <<"accepted_by_user_id", "users", "SET NULL">>},
          {"license_status"})},
   {<<"license_status", {"active", "revoked", "expired"}>>})

LibraryModels ==
  Declares(
   {Table("playlists", {"id", "user_id", "name", "description", "visibility", "created_at",
          "updated_at"}, {}, {<<"user_id", "users", "CASCADE">>}, {"playlist_visibility"}),
    Table("playlist_tracks", {"id", "playlist_id", "track_id", "position", "added_at"},
          {{"playlist_id", "track_id"}}, {<<"playlist_id", "playlists", "CASCADE">>,
          <<"track_id", "tracks", "CASCADE">>}, {}),
    Table("favorites", {"id", "user_id", "target_type", "target_id", "created_at"},
          {{"user_id", "target_type", "target_id"}}, {<<"user_id", "users", "CASCADE">>},
          {"favorite_type"})},
   {<<"playlist_visibility", {"private", "public"}>>,
    <<"favorite_type", {"track", "artist", "release"}>>})

EntitlementModels ==
  Declares(
   {Table("plans", {"id", "code", "name", "description", "is_active", "features", "created_at"},
          {{"code"}}, {}, {}),
    Table("plan_prices", {"id", "plan_id", "currency", "amount_cents", "interval", "is_active"},
          {{"plan_id", "currency", "interval"}}, {<<"plan_id", "plans", "CASCADE">>}, {}),
    Table("subscriptions", {"id", "user_id", "plan_id", "status", "starts_at", "expires_at",
          "created_at"}, {}, {<<"user_id", "users", "CASCADE">>,
          <<"plan_id", "plans", "RESTRICT">>}, {}),
    Table("entitlements", {"id", "user_id", "scope_type", "scope_id", "source", "status",
          "starts_at", "expires_at", "metadata", "created_at"}, {},
          {<<"user_id", "users", "CASCADE">>}, {"entitlement_scope", "entitlement_source",
          "entitlement_status"})},
   {<<"entitlement_scope", {"user_premium", "track", "release", "artist_catalog",
                            "artist_subscription"}>>,
    <<"entitlement_source", {"manual", "google_play", "future_provider", "artist_free"}>>,
    <<"entitlement_status", {"active", "expired", "revoked", "pending"}>>})

PaymentModels ==
  Declares(
   {Table("payment_orders", {"id", "user_id", "amount_cents", "currency", "method", "reference",
          "proof_storage_key", "status", "plan_code", "subscription_id", "notes",
          "rejection_reason", "verified_by", "verified_at", "metadata", "idempotency_key",
          "created_at", "updated_at", "expires_at"}, {{"idempotency_key"}},
          {<<"user_id", "users", "CASCADE">>, <<"subscription_id", "subscriptions", "SET NULL">>,
          <<"verified_by", "users", "SET NULL">>}, {"payment_method", "payment_status"})},
   {<<"payment_method", {"bank_transfer", "cash", "google_play", "other"}>>,
    <<"payment_status", {"pending", "under_review", "approved", "rejected", "refunded",
                         "expired"}>>})

AnalyticsModels ==
  Declares(
   {Table("analytics_events", {"id", "event_id", "timestamp", "user_id", "session_id", "device_id",
          "track_id", "release_id", "artist_id", "event_type", "country", "region", "app_version",
          "os", "platform", "metadata"}, {{"event_id"}}, {<<"user_id", "users", "SET NULL">>,
          <<"track_id", "tracks", "SET NULL">>, <<"artist_id", "artists", "SET NULL">>}, {}),
    Table("analytics_daily", {"id", "date", "country", "track_id", "artist_id", "plays",
          "qualified_plays", "unique_listeners", "downloads", "skips", "favorites", "playlist_adds",
          "completions"}, {}, {}, {}),
    Table("ranking_snapshots", {"id", "scope", "scope_value", "period", "period_key", "track_id",
          "rank", "score", "metrics", "created_at"}, {}, {<<"track_id", "tracks", "CASCADE">>}, {})},
   {})

AdminModels ==
  Declares(
   {Table("moderation_reports", {"id", "reporter_user_id", "target_type", "target_id",
          "report_type", "description", "status", "assigned_to", "resolution_notes", "created_at",
          "updated_at", "resolved_at"}, {}, {<<"reporter_user_id", "users", "SET NULL">>,
          <<"assigned_to", "users", "SET NULL">>}, {"moderation_report_type", "moderation_status"}),
    Table("audit_logs", {"id", "actor_id", "actor_role", "action", "target_type", "target_id",
          "before", "after", "result", "reason", "request_id", "metadata", "created_at"}, {},
          {<<"actor_id", "users", "SET NULL">>}, {}),
    Table("feature_flags", {"id", "key", "enabled", "description", "updated_at", "updated_by"},
          {{"key"}}, {<<"updated_by", "users", "SET NULL">>}, {}),
    Table("system_settings", {"id", "key", "value", "description", "updated_at", "updated_by"},
          {{"key"}}, {<<"updated_by", "users", "SET NULL">>}, {})},
   {<<"moderation_report_type", {"copyright", "inappropriate", "impersonation", "abuse", "metadata",
                                 "other"}>>,
    <<"moderation_status", {"open", "reviewing", "resolved", "rejected"}>>})

AllModels ==
  {UserModels, DeviceModels, RbacModels, JobModels, MusicTypes, CatalogModels, ProviderModels,
   AudioModels, MemberModels, RightsModels, LibraryModels, EntitlementModels, PaymentModels,
   AnalyticsModels, AdminModels}

ModelTables == UNION {m.tables : m \in AllModels}

ModelTypes == UNION {m.types : m \in AllModels}
=============================================================================
