SPECIFICATION FairSpec
CONSTANTS
    Transcripts = {t1, t2}
    Procs = {p1, p2}
    None = None
    MaxEntries = 2
    AutoWake = TRUE
    Faults = {"kill", "noslot", "nolock", "nojournal"}
    Refused = {t1}
    Deletable = {t2}
    MaxJournal = 2
INVARIANTS TypeOK NothingLost OneWaker
PROPERTIES ProcessEnds JournalReplayed
