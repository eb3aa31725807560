CONSTANTS
    Thread = {t1, t2}
    NoThread = NoThread
    Component = {c1}
    Operation = {o1, o2}
SPECIFICATION Spec
PROPERTY ReportEnds
CHECK_DEADLOCK FALSE
