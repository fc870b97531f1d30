\* Lines of up to three characters, with and without their '\n', or none at all.
CONSTANT StrLen = 4
SPECIFICATION EventSpec
INVARIANT CountsTypedLine
PROPERTY BothPrint
CHECK_DEADLOCK FALSE
