-------------------------- MODULE MCProductWorkflow --------------------------
(***************************************************************************)
(* Instances of ProductWorkflow for TLC.  The features stand for the       *)
(* keyword lists of auto-block-policy.yaml and for the capabilities of     *)
(* expansion-catalog.yaml, whose servers are those of mcp-servers.yaml.    *)
(***************************************************************************)
EXTENDS ProductWorkflow

MCFeatures == {"payment", "game", "sso", "login", "alert", "mail", "ticket", "manual", "settle", "fax", "echo"}

MCKeywordsOf == [f \in MCFeatures |->
    IF f = "payment" THEN "prohibited"
    ELSE IF f = "game" THEN "unsupported"
    ELSE IF f \in {"sso", "login"} THEN "expert_review"
    ELSE IF f = "alert" THEN "risky"
    ELSE "none"]

MCNeedsOf == [f \in MCFeatures |->
    IF f = "mail" THEN {"email-send"}
    ELSE IF f = "ticket" THEN {"ticket-management"}
    ELSE IF f = "manual" THEN {"internal-doc-read"}
    ELSE IF f = "settle" THEN {"settlement-read"}
    ELSE IF f = "fax" THEN {"fax-send"}
    ELSE {}]

MCCatalog == [
    c \in {"email-send", "ticket-management", "internal-doc-read", "settlement-read"} |->
        [server |-> IF c = "email-send" THEN "gmail-mcp"
                    ELSE IF c = "ticket-management" THEN "jira-mcp"
                    ELSE IF c = "internal-doc-read" THEN "internal-docs-mcp"
                    ELSE "internal-settlement-mcp",
         write  |-> c \in {"email-send", "ticket-management"}]]

Server(status, risk, data) == [status |-> status, risk |-> risk, data |-> data, external |-> FALSE]

MCServerSpecs ==
    [s \in {"internal-docs-mcp", "jira-mcp", "gmail-mcp", "internal-settlement-mcp"} |->
        IF s = "internal-docs-mcp" THEN Server("APPROVED", "LOW", "INTERNAL")
        ELSE IF s = "jira-mcp" THEN Server("APPROVED", "MEDIUM", "INTERNAL")
        ELSE IF s = "gmail-mcp" THEN Server("PROPOSED", "MEDIUM", "INTERNAL")
        ELSE Server("PROPOSED", "HIGH", "CONFIDENTIAL")]

MCAllowlist == {"internal-docs-mcp", "jira-mcp"}

\* Planning texts that differ in what the gate makes of them.
GateIdeas == {{}, {"payment"}, {"sso"}, {"alert"}, {"game"}}

\* Planning texts that differ in the expansions they need; nobody knows how to
\* provide fax-send, and sso needs a developer already at the gate.
ExpansionIdeas == {{"mail", "fax"}, {"ticket", "manual"}, {"sso", "settle"}}

\* One text that waits for a developer, one that waits for the user twice, and one
\* whose requirements conflict twice with the decision that the user takes.
WaitIdeas == {{"sso"}, {"alert", "ticket"}, {"alert", "ticket", "echo"}}
=============================================================================
