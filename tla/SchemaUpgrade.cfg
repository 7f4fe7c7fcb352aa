SPECIFICATION Spec
INVARIANT ConnectOpens
