CONSTANTS
    Request = {r1}
    Call <- MCCall
    McpPrefixed = {"mcp", "mcpx"}
    Header = {"x-organization-id", "accept"}
SPECIFICATION FairSpec
INVARIANTS TypeOK ForwardAuthorized TrailComplete
PROPERTIES EveryRequestAccounted
CHECK_DEADLOCK FALSE
