SPECIFICATION FairSpec
INVARIANTS TypeOK LogKeptUnlessMisled
PROPERTIES CleanMountIsRight ResetErases TaskEnds
