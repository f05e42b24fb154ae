----------------------------- MODULE MCToolCalls -----------------------------
\* ToolCalls on a small instance.  The asks cover every tool, previews, blank or
\* contradictory input, dates that are absent, malformed or crossed, an unknown metric, a
\* repeated one and a breakdown that leaves out some or all of what was asked;
\* the ledgers are empty, shorter than a page, a page and longer, with posts of
\* one second.
EXTENDS ToolCalls

Anything == {Scopes, {"w_member_social", "r_member_social"}}
MostScopes == Scopes \ {"r_member_postAnalytics"}

URNs == {"p1", "p2", "p3", "p4"}
Post == "p1"

Reach == "MEMBERS_REACHED"
Views == "IMPRESSION"
Metrics == {Views, Reach}
Defaults == <<Views, Reach>>
Totals == {Reach}

Writing(op, confirm) == [op |-> op, on |-> Post, confirm |-> confirm]
Measuring(metrics, daily, since, until) ==
  [op |-> "account_analytics", on |-> None, metrics |-> metrics, daily |-> daily,
   since |-> since, until |-> until]
OfPost(on) == [Measuring(<<>>, FALSE, None, None) EXCEPT !.op = "post_analytics", !.on = on]
Publishing(text, article, reshare, confirm) ==
  [op |-> "publish_post", text |-> text, visibility |-> None, article |-> article,
   reshare |-> reshare, confirm |-> confirm]
Editing(text, confirm) == [op |-> "edit_post", on |-> Post, text |-> text, confirm |-> confirm]
Listing(limit, includeDeleted) ==
  [op |-> "list_posts", limit |-> limit, includeDeleted |-> includeDeleted]

AllAsks ==
       {Writing(op, TRUE) : op \in Writes \cup {"delete_post"}}
  \cup {Writing("publish_comment", FALSE), Writing("delete_post", FALSE)}
  \cup {Publishing(TRUE, "https", None, TRUE), Publishing(FALSE, None, "urn", FALSE),
        Publishing(TRUE, "https", "urn", TRUE), [Publishing(TRUE, None, None, TRUE) EXCEPT !.visibility = "?"]}
  \cup {Editing(TRUE, TRUE), Editing(TRUE, FALSE), Editing(FALSE, TRUE)}
  \cup {[op |-> "post_engagement", on |-> None], [op |-> "post_comments", on |-> Post]}
  \cup {Listing(0, FALSE), Listing(9, FALSE), Listing(9, TRUE), [op |-> "connection_status"],
        [op |-> "reconnect_url"]}
  \cup {Measuring(<<>>, TRUE, 3, 30), Measuring(<<Views, Views>>, FALSE, None, 30),
        Measuring(<<Reach>>, TRUE, None, None), Measuring(<<"LIKES">>, FALSE, None, None),
        Measuring(<<Views>>, FALSE, 3, 3), Measuring(<<Views>>, FALSE, Malformed, None),
        OfPost(None), OfPost(Post)}

Entry(urn, created, deleted) == [urn |-> urn, created |-> created, deleted |-> deleted]
SomeLedgers ==
  {{}, {Entry("p1", 1, FALSE), Entry("p2", 2, TRUE)},
   {Entry("p1", 1, FALSE), Entry("p2", 1, FALSE), Entry("p3", 3, TRUE)},
   {Entry("p1", 1, TRUE), Entry("p2", 2, FALSE), Entry("p3", 2, TRUE), Entry("p4", 4, FALSE)}}
=============================================================================
