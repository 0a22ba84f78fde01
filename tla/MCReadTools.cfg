\* Two concurrent calls about one kind of object while the server's objects
\* change; more objects than max_rows, limits and cursors below it.
SPECIFICATION Spec
CONSTANTS
    None = None
    Malformed = Malformed
    Unset = Unset
    Tools = {"health_check", "search_clients", "get_client_info",
             "list_artifact_names", "get_artifact_details", "list_flows",
             "get_flow_status", "list_hunts", "get_hunt_status",
             "list_flow_uploads", "get_flow_upload_metadata",
             "preview_hunt_scope"}
    Kinds = {"server", "client", "artifact", "flow", "hunt", "upload"}
    ItemCount = 3
    Counts = {0, 3}
    Calls = 2
    MaxRows = 2
    MaxHuntClients = 2
    Limits <- SomeLimits
    Cursors <- SomeCursors
    Modes = {"real", "mock"}
    Policies <- SomePolicies
    MaxChanges = 2
INVARIANTS EvidenceIsReal  EndedStaysEnded
PROPERTIES  ShortListIsComplete
