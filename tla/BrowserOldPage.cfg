\* A new page may be asked for while the worker decodes a picture of the old one.
SPECIFICATION BrSpec
INVARIANT NoOldPage
