\* Two sessions of an incident, one client, a buffer of two events; the
\* process dies once.
SPECIFICATION FairSpec
CONSTANTS
    s1 = s1
    s2 = s2
    i = i
    Incident = {i}
    Session = {s1, s2}
    IncidentOf <- OneIncident
    Reader = {r1}
    MaxEvents = 2
    MaxProgress <- OneEventForTheFirst
    Watched = {s1}
    MaxRestarts = 1
INVARIANT SessionsAgree
PROPERTY ClientsAreNotMisled
PROPERTY RunsAndStreamsEnd
CHECK_DEADLOCK FALSE
